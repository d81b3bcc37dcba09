-------------------------------- MODULE Exec --------------------------------
(***************************************************************************)
(* Loading a program into a process of the x86 kernel (execve.c, with the  *)
(* loaders of mm/vm.c): the file is read into a kernel buffer, segments    *)
(* and stack are built page by page in a new address space while the old   *)
(* one stays in use, and the switch comes last.  Other CPUs take and give  *)
(* back page frames between any two allocations.                           *)
(*                                                                         *)
(* An address counts units of one word; a string is a number of units, its *)
(* NUL included.  A unit of memory holds <<"f", n, 0>> (unit n of the      *)
(* file), <<"s", i, k>> (unit k of string i), <<"w", v, 0>> (a word) or     *)
(* Zero.  Page tables and the mm_struct itself are not counted as frames;  *)
(* the page directory is.                                                  *)
(***************************************************************************)
EXTENDS Integers, Sequences, FiniteSets

CONSTANTS
  PGSIZE, USERLOAD, USERHEAP_TOP, USERSTACK_BOTTOM, USERSTACK,
  STACK_ALIGN, MAXARG, NNAME,
  NameLen,         \* length of a program's name
  NFRAMES,
  ExecFiles,       \* files that fs_namei finds, by path
  UserBins,        \* programs linked into the kernel, by path
  ExecCalls        \* calls of programs: [path, argv, envp]

ExecAssumption ==
  /\ {PGSIZE, STACK_ALIGN, MAXARG, NNAME, NameLen, NFRAMES} \subseteq Nat \ {0}
  /\ PGSIZE <= USERLOAD /\ USERLOAD < USERHEAP_TOP /\ USERHEAP_TOP <= USERSTACK_BOTTOM
  /\ \A a \in {USERLOAD, USERSTACK_BOTTOM, USERSTACK} : a % PGSIZE = 0
  /\ "init" \in DOMAIN UserBins

VARIABLES
  xpc,       \* "kernel" before the first program, "user", a step of execve, "panic"
  xcall,     \* the call being served
  image,     \* the address space in use
  newmm,     \* the one being built
  xbufs,     \* kernel buffers held: "argv", "envp", "file"
  frames,    \* free page frames
  others     \* frames that other processes hold

execVars == <<xpc, xcall, image, newmm, xbufs, frames, others>>

Zero == <<"w", 0, 0>>
NoCall == [path |-> "", argv |-> <<>>, envp |-> <<>>]
NoFile == [elf |-> FALSE, valid |-> FALSE, entry |-> 0, size |-> 0, segs |-> <<>>]

\* An mm_struct: what is mapped, which pages may be written, the break, the
\* registers it starts with, and the program and strings it was made from
NoImage == [pgdir |-> FALSE, mem |-> <<>>, wr |-> <<>>, brk |-> USERLOAD, entry |-> 0,
            esp |-> 0, file |-> NoFile, call |-> NoCall, seg |-> 1, next |-> 0]

PageOf(a) == a - (a % PGSIZE)
UnitsOf(pg) == pg .. pg + PGSIZE - 1
FramesOf(m) == Cardinality(DOMAIN m.wr) + (IF m.pgdir THEN 1 ELSE 0)

\* The segments exec_load_elf loads; a flat binary is one segment that may be written
LoadSegs(f) ==
  IF f.elf THEN SelectSeq(f.segs, LAMBDA s : s.memsz > 0)
  ELSE << [vaddr |-> USERLOAD, off |-> 0, filesz |-> f.size, memsz |-> f.size, w |-> TRUE] >>

SegOk(f, s) ==
  /\ s.filesz <= s.memsz
  /\ s.off <= f.size /\ s.filesz <= f.size - s.off
  /\ s.vaddr >= USERLOAD
  /\ s.vaddr + s.memsz <= USERHEAP_TOP

\* mm_destroy(newmm), the buffers given back, and -1 to the caller
ExecBad ==
  /\ xpc' = IF image.pgdir THEN "user" ELSE "panic"
  /\ newmm' = NoImage /\ xbufs' = {} /\ xcall' = NoCall
  /\ frames' = frames + FramesOf(newmm) + Cardinality(xbufs)
  /\ UNCHANGED <<image, others>>

\* The first program: PID 1 calls kernel_execve from the kernel
kernel_execve ==
  /\ xpc = "kernel"
  /\ xpc' = "read" /\ xcall' = [NoCall EXCEPT !.path = "init"]
  /\ UNCHANGED <<image, newmm, xbufs, frames, others>>

\* A string with its NUL has to be shorter than the buffer
copyinstr(len) == len < NNAME

\* The vector fits in the buffer, its end mark included
copy_user_strvec(v) == Len(v) < MAXARG /\ \A i \in 1 .. Len(v) : copyinstr(v[i])

\* Copy the strings out of the old address space
sys_execve(c) ==
  LET bufs == (IF c.argv # <<>> THEN {"argv"} ELSE {}) \cup
              (IF c.envp # <<>> THEN {"envp"} ELSE {})
      ok == Cardinality(bufs) <= frames /\ copy_user_strvec(c.argv) /\ copy_user_strvec(c.envp)
  IN /\ xpc = "user"
     /\ ok                       \* otherwise -1, with the buffers given back
     /\ xpc' = "read" /\ xcall' = c
     /\ xbufs' = bufs /\ frames' = frames - Cardinality(bufs)
     /\ UNCHANGED <<image, newmm, others>>

userbin_lookup(path) == IF path \in DOMAIN UserBins THEN {UserBins[path]} ELSE {}

\* The contents of a file come first.  One that cannot be read, for want of
\* memory too, gives way to a program of the kernel with the same name.
exec_read_file(readable) ==
  LET inFs == /\ readable /\ frames > 0 /\ xcall.path \in DOMAIN ExecFiles
              /\ ExecFiles[xcall.path].size \in 1 .. USERHEAP_TOP - USERLOAD
      found == IF inFs THEN {ExecFiles[xcall.path]} ELSE userbin_lookup(xcall.path)
  IN /\ xpc = "read"
     /\ IF found = {} THEN ExecBad
        ELSE /\ xpc' = "create"
             /\ \E f \in found : newmm' = [NoImage EXCEPT !.file = f, !.call = xcall]
             /\ xbufs' = IF inFs THEN xbufs \cup {"file"} ELSE xbufs
             /\ frames' = IF inFs THEN frames - 1 ELSE frames
             /\ UNCHANGED <<xcall, image, others>>

mm_create ==
  /\ xpc = "create"
  /\ IF frames = 0 THEN ExecBad
     ELSE /\ xpc' = "load" /\ newmm' = [newmm EXCEPT !.pgdir = TRUE]
          /\ frames' = frames - 1
          /\ UNCHANGED <<xcall, image, xbufs, others>>

\* Give page pg a frame of zeros
MapZero(m, pg, w) ==
  [m EXCEPT !.mem = [a \in DOMAIN @ \cup UnitsOf(pg) |-> IF a \in UnitsOf(pg) THEN Zero ELSE @[a]],
            !.wr = [q \in DOMAIN @ \cup {pg} |-> IF q = pg THEN w ELSE @[q]]]

\* One page of loaduvm_seg: mapped if it is not yet, then the part of the file in it
SegPage(m, s, pg) ==
  LET z == IF pg \in DOMAIN m.wr THEN m ELSE MapZero(m, pg, s.w)
  IN [z EXCEPT !.mem = [a \in DOMAIN @ |->
        IF a \in UnitsOf(pg) /\ s.vaddr <= a /\ a < s.vaddr + s.filesz
        THEN <<"f", s.off + a - s.vaddr, 0>> ELSE @[a]]]

\* The next page of the segment being loaded
loaduvm_seg(s) ==
  LET pg == IF newmm.next = 0 THEN PageOf(s.vaddr) ELSE newmm.next
      m == SegPage(newmm, s, pg)
      end == s.vaddr + s.memsz
      last == pg + PGSIZE >= end
  IN IF pg \notin DOMAIN newmm.wr /\ frames = 0 THEN ExecBad
     ELSE /\ newmm' = [m EXCEPT !.seg = IF last THEN @ + 1 ELSE @,
                                !.next = IF last THEN 0 ELSE pg + PGSIZE,
                                !.brk = IF last /\ end > @ THEN end ELSE @]
          /\ frames' = IF pg \in DOMAIN newmm.wr THEN frames ELSE frames - 1
          /\ UNCHANGED <<xpc, xcall, image, xbufs, others>>

\* A step of exec_load_elf: the next segment's checks and pages, then the
\* entry point
exec_load_elf ==
  LET f == newmm.file
      segs == LoadSegs(f)
      entry == IF f.elf THEN f.entry ELSE USERLOAD
  IN /\ xpc = "load"
     /\ IF f.elf /\ ~ f.valid THEN ExecBad
        ELSE IF newmm.seg <= Len(segs)
        THEN IF SegOk(f, segs[newmm.seg]) THEN loaduvm_seg(segs[newmm.seg]) ELSE ExecBad
        ELSE IF entry < USERLOAD \/ entry >= USERHEAP_TOP THEN ExecBad
        ELSE /\ xpc' = "stack"
             /\ newmm' = [newmm EXCEPT !.entry = entry, !.next = USERSTACK_BOTTOM]
             /\ UNCHANGED <<xcall, image, xbufs, frames, others>>

exec_map_stack ==
  /\ xpc = "stack" /\ newmm.next < USERSTACK
  /\ IF frames = 0 THEN ExecBad
     ELSE /\ newmm' = [MapZero(newmm, newmm.next, TRUE) EXCEPT !.next = @ + PGSIZE]
          /\ frames' = frames - 1
          /\ UNCHANGED <<xpc, xcall, image, xbufs, others>>

\* The strings of a call: the program's name stands for an empty argv
Argv(c) == IF c.argv = <<>> THEN <<NameLen>> ELSE c.argv
Strings(c) == Argv(c) \o c.envp

\* Where each string starts, from the top of the stack down
StringAt(c) ==
  LET At[i \in 0 .. Len(Strings(c))] ==
        IF i = 0 THEN USERSTACK ELSE At[i - 1] - Strings(c)[i]
  IN At

\* argc, the pointers of argv and of envp, each with its end mark, and AT_NULL
Words(c) ==
  LET n == Len(Argv(c))
      ptr(i) == <<"w", StringAt(c)[i], 0>>
  IN << <<"w", n, 0>> >> \o [i \in 1 .. n |-> ptr(i)] \o << Zero >>
     \o [i \in 1 .. Len(c.envp) |-> ptr(n + i)] \o << Zero >> \o << Zero, Zero >>

\* Variant: the end marks of the two vectors are not counted in the table.
StackPointerNoMarks(c) ==
  LET sp == StringAt(c)[Len(Strings(c))]
      at == sp - (Len(Words(c)) - 2)
  IN at - (at % STACK_ALIGN)

StackPointer(c) ==
  LET sp == StringAt(c)[Len(Strings(c))]
      at == sp - Len(Words(c))
  IN at - (at % STACK_ALIGN)

StackFits(c) ==
  /\ \A i \in 1 .. Len(Strings(c)) :
       Strings(c)[i] <= NNAME /\ StringAt(c)[i] >= USERSTACK_BOTTOM
  /\ StackPointer(c) >= USERSTACK_BOTTOM

\* The stack the program starts with: strings first, then the table
exec_stack_argv(m) ==
  LET c == m.call
      esp == StackPointer(c)
      unit(a) == LET i == CHOOSE i \in 1 .. Len(Strings(c)) :
                            StringAt(c)[i] <= a /\ a < StringAt(c)[i - 1]
                 IN <<"s", i, a - StringAt(c)[i]>>
  IN [m EXCEPT !.esp = esp,
        !.mem = [a \in DOMAIN @ |->
                   IF esp <= a /\ a < esp + Len(Words(c)) THEN Words(c)[a - esp + 1]
                   ELSE IF StringAt(c)[Len(Strings(c))] <= a /\ a < USERSTACK THEN unit(a)
                   ELSE @[a]]]

\* The end of exec_load and of its callers: the process runs the new image,
\* the old one and the buffers are given back
exec_load ==
  /\ xpc = "stack" /\ newmm.next >= USERSTACK
  /\ IF ~ StackFits(newmm.call) THEN ExecBad
     ELSE /\ image' = exec_stack_argv(newmm)
          /\ newmm' = NoImage /\ xbufs' = {} /\ xcall' = NoCall
          /\ frames' = frames + FramesOf(image) + Cardinality(xbufs)
          /\ xpc' = "user"
          /\ UNCHANGED others

\* Processes on other CPUs allocate a page and give one back
OthersTake == frames > 0 /\ frames' = frames - 1 /\ others' = others + 1
              /\ UNCHANGED <<xpc, xcall, image, newmm, xbufs>>
OthersGive == others > 0 /\ frames' = frames + 1 /\ others' = others - 1
              /\ UNCHANGED <<xpc, xcall, image, newmm, xbufs>>

ExecInit ==
  /\ xpc = "kernel" /\ xcall = NoCall
  /\ image = NoImage /\ newmm = NoImage /\ xbufs = {}
  /\ frames = NFRAMES /\ others = 0

ExecNext ==
  \/ kernel_execve
  \/ \E c \in ExecCalls : sys_execve(c)
  \/ \E readable \in BOOLEAN : exec_read_file(readable)
  \/ mm_create
  \/ exec_load_elf
  \/ exec_map_stack
  \/ exec_load
  \/ OthersTake
  \/ OthersGive

ExecSpec == ExecInit /\ [][ExecNext]_execVars

-----------------------------------------------------------------------------

\* Every unit of every segment is there, file contents first and zeros after,
\* and may be written where the segment says so
SegmentsLoaded(m) ==
  \A i \in 1 .. Len(LoadSegs(m.file)) :
    LET s == LoadSegs(m.file)[i]
    IN \A k \in 0 .. s.memsz - 1 :
         /\ s.vaddr + k \in DOMAIN m.mem
         /\ m.mem[s.vaddr + k] = IF k < s.filesz THEN <<"f", s.off + k, 0>> ELSE Zero
         /\ s.w => m.wr[PageOf(s.vaddr + k)]
         /\ s.vaddr + k < m.brk

\* What a program finds when it starts: esp is aligned and points to argc; the
\* vectors after it lead to whole strings and end with a null
StackBuilt(m) ==
  LET argc == m.mem[m.esp][2]
      word(i) == m.mem[m.esp + i]
      whole(v, from, at) ==
        \A i \in 1 .. Len(v) : \A k \in 0 .. v[i] - 1 :
          m.mem[word(at + i)[2] + k] = <<"s", from + i, k>>
  IN /\ m.esp % STACK_ALIGN = 0
     /\ argc = Len(Argv(m.call))
     /\ word(argc + 1) = Zero
     /\ word(argc + 2 + Len(m.call.envp)) = Zero
     /\ whole(Argv(m.call), 0, 0)
     /\ whole(m.call.envp, argc, argc + 1)

\* An exec replaces the program of a process whole or not at all, wherever an
\* allocation fails: at every moment the address space in use holds every
\* segment of one program and a stack with its strings (execve.c: exec_load
\* switches p->mm last, "bad" frees newmm), and no page frame is lost between
\* the old image, the new one and the kernel's buffers.
ExecWhole ==
  /\ image.pgdir => SegmentsLoaded(image) /\ StackBuilt(image)
  /\ frames + others + Cardinality(xbufs) + FramesOf(image) + FramesOf(newmm) = NFRAMES
=============================================================================
