-------------------------------- MODULE Inode --------------------------------
(***************************************************************************)
(* The inode and directory layers of xv6 (fs.c) under the system calls that*)
(* name files (sysfile.c).  A process carries the rest of its call as a    *)
(* list of instructions.  One step takes the sleep lock of the inode that  *)
(* the instruction wants, does what the code does until it needs another   *)
(* lock, and gives the lock up unless the code keeps it; icache.lock makes *)
(* every look at ref a step of its own.                                    *)
(***************************************************************************)
EXTENDS Integers, FiniteSets, Sequences, FiniteSetsExt

CONSTANTS
  Procs,
  Names,     \* names of directory entries besides the dots
  NINODE,    \* entries of the inode cache
  Scenarios  \* a disk and what runs on it: the program of each process, or
             \* which calls processes make and how many

ASSUME InodeAssumption ==
  /\ NINODE \in Nat \ {0}
  /\ "none" \notin Procs
  /\ \A k \in DOMAIN Scenarios : Scenarios[k].left \in Nat

Slots == 1..NINODE
ROOT == 1
Entries == Names \cup {".", ".."}

VARIABLES
  dinode,    \* type and nlink of each inode on the disk
  dir,       \* the entries of each directory, 0 where there is none
  inum,      \* ip->inum of each cache entry
  ref,       \* ip->ref
  copy,      \* ip->type and ip->nlink, NotValid while ip->valid is 0
  lock,      \* holder of ip->lock
  call,      \* the system call of each process
  todo,      \* what is left of it
  path,      \* namex: the path that is left
  at,        \* namex: ip, 0 when the lookup has failed
  cwd, fd,   \* the inodes of a process: directory and open file
  late,      \* history: entries made in a directory that has no name itself
  lost,      \* history: late entries of each inode that went with the directory
  scenario,  \* which of the Scenarios it is
  program,   \* what is left of the program of each process
  left,      \* how many calls are left
  panicked

history == <<late, lost>>
fs == <<dinode, dir, history>>
icache == <<inum, ref>>
walk == <<path, at>>
own == <<cwd, fd>>
user == <<scenario, program, left>>
vars == <<fs, icache, copy, lock, call, todo, walk, own, user, panicked>>

This == Scenarios[scenario]
Inums == DOMAIN dinode

NotValid == [type |-> "invalid", nlink |-> 0]
Dinode(t, n) == [type |-> t, nlink |-> n]
NoEntries == [n \in Entries |-> 0]
DotsOf(i, parent) == [NoEntries EXCEPT !["."] = i, ![".."] = parent]
Elements(c) == {c.path[k] : k \in DOMAIN c.path}
               \cup {c.new[k] : k \in DOMAIN c.new}
NoCall == [op |-> "none", path |-> <<>>, new |-> <<>>, failed |-> FALSE]

TypeOK ==
  /\ dinode \in [Inums -> [type : {"free", "file", "dir"}, nlink : Nat]]
  /\ dir \in [Inums -> [Entries -> Inums \cup {0}]]
  /\ inum \in [Slots -> Inums \cup {0}] /\ ref \in [Slots -> Nat]
  /\ lock \in [Slots -> Procs \cup {"none"}]
  /\ at \in [Procs -> Slots \cup {0}]
  /\ cwd \in [Procs -> Slots \cup {0}] /\ fd \in [Procs -> Slots \cup {0}]

\* mkfs or earlier calls have left a disk; the processes start at its root.
Init ==
  /\ scenario \in DOMAIN Scenarios
  /\ program = This.program /\ left = This.left
  /\ dinode = This.dinode /\ dir = This.dir
  /\ late = {} /\ lost = [i \in Inums |-> 0]
  /\ inum = [s \in Slots |-> IF s = 1 THEN ROOT ELSE 0]
  /\ ref = [s \in Slots |-> IF s = 1 THEN Cardinality(This.started) ELSE 0]
  /\ copy = [s \in Slots |-> NotValid]
  /\ lock = [s \in Slots |-> "none"]
  /\ call = [p \in Procs |-> NoCall] /\ todo = [p \in Procs |-> <<>>]
  /\ path = [p \in Procs |-> <<>>] /\ at = [p \in Procs |-> 0]
  /\ cwd = [p \in Procs |-> IF p \in This.started THEN 1 ELSE 0]
  /\ fd = [p \in Procs |-> 0]
  /\ panicked = "none"

-----------------------------------------------------------------------------
(* Instructions: a label and the cache entry it is about                   *)

I(l, s) == <<l, s>>
Label(p) == IF todo[p] = <<>> THEN "idle" ELSE todo[p][1][1]
Operand(p) == todo[p][1][2]

\* The inode whose sleep lock the next instruction takes, 0 for none.
Wants(p) ==
  CASE Label(p) \in {"namei", "nameiparent"} -> IF path[p] = <<>> THEN 0 ELSE at[p]
    [] Label(p) \in {"open", "openrw", "create", "link", "unlink", "chdir",
                     "entry"} -> at[p]
    [] Label(p) \in {"fill", "exists", "uncount", "remove", "iput", "use"}
         -> Operand(p)
    [] OTHER -> 0

Ino(s) == IF copy[s] = NotValid THEN dinode[inum[s]] ELSE copy[s]
Typeless(p) == Label(p) # "iput" /\ Wants(p) # 0 /\ Ino(Wants(p)).type = "free"

Runs(p, l) ==
  /\ panicked = "none" /\ Label(p) = l
  /\ Wants(p) # 0 => lock[Wants(p)] = "none"
Step(p, l) == Runs(p, l) /\ ~Typeless(p)

Do(p, is) == todo' = [todo EXCEPT ![p] = is \o Tail(@)]
Fail(p) == call' = [call EXCEPT ![p].failed = TRUE]
Panic(why) == panicked' = why
Fine == UNCHANGED panicked

\* ilock reads the inode into its cache entry.
Loaded(s) == [copy EXCEPT ![s] = Ino(s)]
With(s, v) == [copy EXCEPT ![s] = v]
Update(s, v) == [dinode EXCEPT ![inum[s]] = v]
Linked(v, n) == [v EXCEPT !.nlink = @ + n]

NoType(p) ==
  /\ \E l \in {Label(p)} : Runs(p, l) /\ Typeless(p)
  /\ Panic("ilock: no type")
  /\ UNCHANGED <<fs, icache, copy, lock, call, todo, walk, own>>

-----------------------------------------------------------------------------
(* iget and iput                                                           *)

Cached(i) == {s \in Slots : ref[s] > 0 /\ inum[s] = i}
Unused == {s \in Slots : ref[s] = 0}
SlotOf(i) == IF Cached(i) # {} THEN CHOOSE s \in Cached(i) : TRUE
             ELSE IF Unused # {} THEN Min(Unused) ELSE 0
Kept(s) == ref[s] > 0

\* iget(i), over what an ilock in the same step has read.
Iget(i, copies) ==
  LET s == SlotOf(i) IN
  IF s = 0 THEN Panic("iget: no inodes") /\ UNCHANGED <<inum, ref, copy>>
  ELSE /\ inum' = [inum EXCEPT ![s] = i]
       /\ ref' = [ref EXCEPT ![s] = @ + 1]
       /\ copy' = [copies EXCEPT ![s] = IF Kept(s) THEN @ ELSE NotValid]
       /\ Fine

AnyRef(s) == TRUE
LastRef(s) == ref[s] = 1
Frees(s) == copy[s] # NotValid /\ copy[s].nlink = 0 /\ LastRef(s)

Iput(p) ==
  /\ Runs(p, "iput")
  /\ LET s == Operand(p) IN
       IF Frees(s)
       THEN lock' = [lock EXCEPT ![s] = p] /\ Do(p, <<I("free", s)>>)
       ELSE Do(p, <<I("drop", s)>>) /\ UNCHANGED lock
  /\ UNCHANGED <<fs, icache, copy, call, walk, own, panicked>>

Freed == Dinode("free", 0)

\* itrunc, then type 0 on the disk.
Free(p) ==
  /\ Step(p, "free")
  /\ LET s == Operand(p)   i == inum[s] IN
       /\ dinode' = Update(s, Freed)
       /\ copy' = With(s, Freed)
       /\ dir' = [dir EXCEPT ![i] = NoEntries]
       /\ late' = {e \in late : e[1] # i}
       /\ lost' = [j \in Inums |-> lost[j]
                     + Cardinality({e \in late : e[1] = i /\ dir[i][e[2]] = j})]
       /\ Do(p, <<I("invalid", s)>>)
  /\ UNCHANGED <<icache, lock, call, walk, own, panicked>>

Invalid(p) ==
  /\ Step(p, "invalid")
  /\ copy' = With(Operand(p), NotValid)
  /\ lock' = [lock EXCEPT ![Operand(p)] = "none"]
  /\ Do(p, <<I("drop", Operand(p))>>)
  /\ UNCHANGED <<fs, icache, call, walk, own, panicked>>

Drop(p) ==
  /\ Step(p, "drop")
  /\ ref' = [ref EXCEPT ![Operand(p)] = @ - 1]
  /\ Do(p, <<>>)
  /\ UNCHANGED <<fs, inum, copy, lock, call, walk, own, panicked>>

Release(p) ==
  /\ Step(p, "release")
  /\ lock' = [lock EXCEPT ![Operand(p)] = "none"]
  /\ Do(p, <<>>)
  /\ UNCHANGED <<fs, icache, copy, call, walk, own, panicked>>

-----------------------------------------------------------------------------
(* namex                                                                   *)

Absolute(pth) == pth # <<>> /\ Head(pth) = "/"
From(p, pth) == IF Absolute(pth) THEN ROOT ELSE inum[cwd[p]]

\* The path of the call, 1 for the first and 2 for the second one.
Start(p) ==
  /\ Step(p, "start")
  /\ LET pth == IF Operand(p) = 1 THEN call[p].path ELSE call[p].new IN
       /\ Iget(From(p, pth), copy)
       /\ at' = [at EXCEPT ![p] = SlotOf(From(p, pth))]
       /\ path' = [path EXCEPT ![p] = SelectSeq(pth, LAMBDA n : n # "/")]
  /\ Do(p, <<>>)
  /\ UNCHANGED <<fs, lock, call, own>>

Fails(p, is) == at' = [at EXCEPT ![p] = 0] /\ Do(p, is)
Parent(p) == Label(p) = "nameiparent"

\* No path element is left.
WalkEnds(p) ==
  /\ \E l \in {"namei", "nameiparent"} : Step(p, l)
  /\ path[p] = <<>>
  /\ IF Parent(p) THEN Fails(p, <<I("iput", at[p])>>)
                  ELSE Do(p, <<>>) /\ UNCHANGED at
  /\ UNCHANGED <<fs, icache, copy, lock, call, path, own, panicked>>

Found(p) == dir[inum[at[p]]][Head(path[p])]

WalkOn(p) ==
  /\ \E l \in {"namei", "nameiparent"} : Step(p, l)
  /\ path[p] # <<>>
  /\ LET s == at[p] IN
       \/ /\ Ino(s).type # "dir" \/ (~(Parent(p) /\ Len(path[p]) = 1) /\ Found(p) = 0)
          /\ Fails(p, <<I("iput", s)>>)
          /\ copy' = Loaded(s)
          /\ UNCHANGED <<icache, path, panicked>>
       \/ /\ Ino(s).type = "dir" /\ Parent(p) /\ Len(path[p]) = 1
          /\ copy' = Loaded(s)
          /\ Do(p, <<>>)
          /\ UNCHANGED <<icache, walk, panicked>>
       \/ /\ Ino(s).type = "dir" /\ ~(Parent(p) /\ Len(path[p]) = 1) /\ Found(p) # 0
          /\ Iget(Found(p), Loaded(s))
          /\ at' = [at EXCEPT ![p] = SlotOf(Found(p))]
          /\ path' = [path EXCEPT ![p] = Tail(@)]
          /\ Do(p, <<I("iput", s), Head(todo[p])>>)
  /\ UNCHANGED <<fs, lock, call, own>>

\* A lookup that failed: the call returns -1, link takes its count back.
NotFound(p) ==
  /\ at[p] = 0
  /\ \E l \in {"open", "openrw", "create", "link", "unlink", "chdir", "entry"} :
       Step(p, l)
  /\ Do(p, IF Label(p) = "entry" THEN <<I("uncount", Operand(p))>> ELSE <<>>)
  /\ Fail(p)
  /\ UNCHANGED <<fs, icache, copy, lock, walk, own, panicked>>

Acts(p, l) == Step(p, l) /\ at[p] # 0

-----------------------------------------------------------------------------
(* open and chdir                                                          *)

\* The end of sys_open with ip locked: a file descriptor, or none is free.
Opens(p, s) ==
  IF fd[p] = 0 THEN fd' = [fd EXCEPT ![p] = s] /\ Do(p, <<>>) /\ UNCHANGED call
  ELSE Do(p, <<I("iput", s)>>) /\ Fail(p) /\ UNCHANGED fd

Open(p) ==
  /\ Acts(p, "open") \/ Acts(p, "openrw")
  /\ copy' = Loaded(at[p])
  /\ IF Ino(at[p]).type = "dir" /\ Label(p) = "openrw"
     THEN Do(p, <<I("iput", at[p])>>) /\ Fail(p) /\ UNCHANGED fd
     ELSE Opens(p, at[p])
  /\ UNCHANGED <<fs, icache, lock, walk, cwd, panicked>>

Chdir(p) ==
  /\ Acts(p, "chdir")
  /\ copy' = Loaded(at[p])
  /\ IF Ino(at[p]).type # "dir"
     THEN Do(p, <<I("iput", at[p])>>) /\ Fail(p) /\ UNCHANGED cwd
     ELSE /\ Do(p, <<I("iput", cwd[p])>>) /\ cwd' = [cwd EXCEPT ![p] = at[p]]
          /\ UNCHANGED call
  /\ UNCHANGED <<fs, icache, lock, walk, fd, panicked>>

\* fileread, filewrite and filestat lock the inode of an open file.
Use(p) ==
  /\ Step(p, "use")
  /\ copy' = Loaded(Operand(p))
  /\ Do(p, <<>>)
  /\ UNCHANGED <<fs, icache, lock, call, walk, own, panicked>>

-----------------------------------------------------------------------------
(* create: for open with O_CREATE and for mkdir                            *)

\* The names of i, and for a directory its subdirectories.
NamesOf(i) == {e \in Inums \X Names : dir[e[1]][e[2]] = i}
Subdirs(i) == {n \in Names : dir[i][n] # 0 /\ dinode[dir[i][n]].type = "dir"}
Entered(d, n) == IF NamesOf(d) = {} /\ d # ROOT THEN late \cup {<<d, n>>} ELSE late

FreeInums == {i \in Inums \ {ROOT} : dinode[i].type = "free"}
KindOf(p) == IF call[p].op = "mkdir" THEN "dir" ELSE "file"

Create(p) ==
  /\ Acts(p, "create")
  /\ LET dp == at[p] IN
       \/ /\ Found(p) # 0
          /\ Iget(Found(p), Loaded(dp))
          /\ Do(p, <<I("iput", dp), I("exists", SlotOf(Found(p)))>>)
          /\ UNCHANGED <<dinode, lock>>
       \/ /\ Found(p) = 0 /\ FreeInums # {}
          /\ LET i == Min(FreeInums) IN
               /\ dinode' = [dinode EXCEPT ![i] = Dinode(KindOf(p), 0)]
               /\ Iget(i, Loaded(dp))
               /\ Do(p, <<I("fill", SlotOf(i))>>)
          /\ lock' = [lock EXCEPT ![dp] = p]
       \/ /\ Found(p) = 0 /\ FreeInums = {}
          /\ Panic("ialloc: no inodes")
          /\ UNCHANGED <<dinode, icache, copy, lock, todo>>
  /\ UNCHANGED <<dir, history, call, walk, own>>

Exists(p) ==
  /\ Step(p, "exists")
  /\ LET s == Operand(p) IN
       /\ copy' = Loaded(s)
       /\ IF KindOf(p) = "file" /\ Ino(s).type = "file" THEN Opens(p, s)
          ELSE Do(p, <<I("iput", s)>>) /\ Fail(p) /\ UNCHANGED fd
  /\ UNCHANGED <<fs, icache, lock, walk, cwd, panicked>>

\* The new inode, its dots, and its entry; dp is given up, ip is kept.
Fill(p) ==
  /\ Step(p, "fill")
  /\ LET s == Operand(p)   i == inum[s]   dp == at[p]   d == inum[dp]
         new == Dinode(KindOf(p), 1)
         parent == Linked(Ino(dp), IF KindOf(p) = "dir" THEN 1 ELSE 0) IN
       /\ dinode' = [dinode EXCEPT ![i] = new, ![d] = parent]
       /\ copy' = [copy EXCEPT ![s] = new, ![dp] = parent]
       /\ dir' = [dir EXCEPT
                    ![i] = IF KindOf(p) = "dir" THEN DotsOf(i, d) ELSE NoEntries,
                    ![d] = [@ EXCEPT ![Head(path[p])] = i]]
       /\ late' = Entered(d, Head(path[p]))
       /\ lock' = [lock EXCEPT ![s] = p, ![dp] = "none"]
       /\ Do(p, <<I("iput", dp), I("filled", s)>>)
  /\ UNCHANGED <<lost, icache, call, walk, own, panicked>>

Filled(p) ==
  /\ Step(p, "filled")
  /\ lock' = [lock EXCEPT ![Operand(p)] = "none"]
  /\ IF KindOf(p) = "file" THEN Opens(p, Operand(p))
     ELSE Do(p, <<I("iput", Operand(p))>>) /\ UNCHANGED <<fd, call>>
  /\ UNCHANGED <<fs, icache, copy, walk, cwd, panicked>>

-----------------------------------------------------------------------------
(* link                                                                    *)

Link(p) ==
  /\ Acts(p, "link")
  /\ LET ip == at[p]   v == Linked(Ino(ip), 1) IN
       IF Ino(ip).type = "dir"
       THEN /\ copy' = Loaded(ip) /\ Do(p, <<I("iput", ip)>>) /\ Fail(p)
            /\ UNCHANGED dinode
       ELSE /\ copy' = With(ip, v) /\ dinode' = Update(ip, v)
            /\ Do(p, <<I("start", 2), I("nameiparent", 0), I("entry", ip)>>)
            /\ UNCHANGED call
  /\ UNCHANGED <<dir, history, icache, lock, walk, own, panicked>>

\* dirlink puts an inode that it finds under the name with dp locked.
Entry(p) ==
  /\ Acts(p, "entry")
  /\ LET ip == Operand(p)   dp == at[p] IN
       IF Found(p) # 0
       THEN /\ Iget(Found(p), Loaded(dp))
            /\ lock' = [lock EXCEPT ![dp] = p]
            /\ Do(p, <<I("iput", SlotOf(Found(p))), I("release", dp),
                       I("iput", dp), I("uncount", ip)>>)
            /\ UNCHANGED <<dir, late>>
       ELSE /\ dir' = [dir EXCEPT ![inum[dp]][Head(path[p])] = inum[ip]]
            /\ late' = Entered(inum[dp], Head(path[p]))
            /\ copy' = Loaded(dp)
            /\ Do(p, <<I("iput", dp), I("iput", ip)>>)
            /\ UNCHANGED <<icache, lock, panicked>>
  /\ UNCHANGED <<dinode, lost, call, walk, own>>

Uncount(p) ==
  /\ Step(p, "uncount")
  /\ LET ip == Operand(p)   v == Linked(Ino(ip), -1) IN
       /\ copy' = With(ip, v) /\ dinode' = Update(ip, v)
       /\ Do(p, <<I("iput", ip)>>)
  /\ Fail(p)
  /\ UNCHANGED <<dir, history, icache, lock, walk, own, panicked>>

-----------------------------------------------------------------------------
(* unlink                                                                  *)

OnlyDot(n) == n = "."
Fixed(n) == n \in {".", ".."}

Unlink(p) ==
  /\ Acts(p, "unlink")
  /\ LET dp == at[p] IN
       IF Fixed(Head(path[p])) \/ Found(p) = 0
       THEN /\ copy' = Loaded(dp) /\ Do(p, <<I("iput", dp)>>) /\ Fail(p)
            /\ UNCHANGED <<icache, lock, panicked>>
       ELSE /\ Iget(Found(p), Loaded(dp))
            /\ lock' = [lock EXCEPT ![dp] = p]
            /\ Do(p, <<I("remove", SlotOf(Found(p)))>>) /\ UNCHANGED call
  /\ UNCHANGED <<fs, walk, own>>

AlwaysEmpty(i) == TRUE
IsDirEmpty(i) == \A n \in Names : dir[i][n] = 0

Remove(p) ==
  /\ Step(p, "remove")
  /\ LET ip == Operand(p)   dp == at[p]   isDir == Ino(ip).type = "dir"
         parent == Linked(Ino(dp), IF isDir THEN -1 ELSE 0) IN
       \/ /\ Ino(ip).nlink < 1
          /\ Panic("unlink: nlink < 1")
          /\ UNCHANGED <<dinode, dir, late, copy, lock, call, todo>>
       \/ /\ Ino(ip).nlink >= 1 /\ isDir /\ ~IsDirEmpty(inum[ip])
          /\ copy' = Loaded(ip)
          /\ Do(p, <<I("iput", ip), I("release", dp), I("iput", dp)>>)
          /\ Fail(p)
          /\ UNCHANGED <<dinode, dir, late, lock, panicked>>
       \/ /\ Ino(ip).nlink >= 1 /\ (isDir => IsDirEmpty(inum[ip]))
          /\ dir' = [dir EXCEPT ![inum[dp]][Head(path[p])] = 0]
          /\ late' = late \ {<<inum[dp], Head(path[p])>>}
          /\ dinode' = Update(dp, parent)
          /\ copy' = [Loaded(ip) EXCEPT ![dp] = parent]
          /\ lock' = [lock EXCEPT ![dp] = "none", ![ip] = p]
          /\ Do(p, <<I("iput", dp), I("removed", ip)>>)
          /\ Fine /\ UNCHANGED call
  /\ UNCHANGED <<lost, icache, walk, own>>

Removed(p) ==
  /\ Step(p, "removed")
  /\ LET ip == Operand(p)   v == Linked(Ino(ip), -1) IN
       /\ copy' = With(ip, v) /\ dinode' = Update(ip, v)
       /\ lock' = [lock EXCEPT ![ip] = "none"]
       /\ Do(p, <<I("iput", ip)>>)
  /\ UNCHANGED <<dir, history, icache, call, walk, own, panicked>>

-----------------------------------------------------------------------------
Walks(l, act) == <<I("start", 1), I(l, 0), I(act, 0), I("return", 0)>>
Program(c) ==
  CASE c.op \in {"create", "mkdir"} -> Walks("nameiparent", "create")
    [] c.op = "unlink" -> Walks("nameiparent", "unlink")
    [] OTHER -> Walks("namei", c.op)

Puts(s) == IF s = 0 THEN <<>> ELSE <<I("iput", s)>>

\* Between two calls.
InUserMode(p) == panicked = "none" /\ todo[p] = <<>> /\ cwd[p] # 0
Unscripted(p) == InUserMode(p) /\ program[p] = <<>>
Line(p) == Head(program[p])
Reads(p, o) == InUserMode(p) /\ program[p] # <<>> /\ Line(p).op = o
NextLine(p) == program' = [program EXCEPT ![p] = Tail(@)] /\ UNCHANGED <<scenario, left>>

\* The calls that a process may make now.
Offers(p) ==
  IF program[p] # <<>>
  THEN {c \in {Line(p)} : c.op \notin {"fork", "wait", "exit", "close"}}
  ELSE IF left > 0 THEN This.calls ELSE {}

Syscall(p, c) ==
  /\ InUserMode(p) /\ c \in Offers(p)
  /\ IF Unscripted(p) THEN left' = left - 1 /\ UNCHANGED <<scenario, program>>
                      ELSE NextLine(p)
  /\ call' = [call EXCEPT ![p] = c]
  /\ todo' = [todo EXCEPT ![p] = Program(c)]
  /\ UNCHANGED <<fs, icache, copy, lock, walk, own, panicked>>

Return(p) ==
  /\ Step(p, "return")
  /\ call' = [call EXCEPT ![p] = NoCall]
  /\ path' = [path EXCEPT ![p] = <<>>] /\ at' = [at EXCEPT ![p] = 0]
  /\ Do(p, <<>>)
  /\ UNCHANGED <<fs, icache, copy, lock, own, panicked>>

\* close (-1 when nothing is open) and an access through the file descriptor.
Close(p) ==
  /\ \/ Unscripted(p) /\ fd[p] # 0 /\ UNCHANGED user
     \/ Reads(p, "close") /\ NextLine(p)
  /\ todo' = [todo EXCEPT ![p] = Puts(fd[p])]
  /\ fd' = [fd EXCEPT ![p] = 0]
  /\ UNCHANGED <<fs, icache, copy, lock, call, walk, cwd, panicked>>

Access(p) ==
  /\ Unscripted(p) /\ fd[p] # 0
  /\ todo' = [todo EXCEPT ![p] = <<I("use", fd[p])>>]
  /\ UNCHANGED <<fs, icache, copy, lock, call, walk, own, user, panicked>>

\* fork, exit and wait, as far as inodes go: idup and iput of the directory.
Fork(p, c) ==
  /\ Reads(p, "fork") /\ cwd[c] = 0 /\ todo[c] = <<>>
  /\ program' = [program EXCEPT ![p] = Tail(@), ![c] = Line(p).child]
  /\ cwd' = [cwd EXCEPT ![c] = cwd[p]]
  /\ ref' = [ref EXCEPT ![cwd[p]] = @ + 1]
  /\ UNCHANGED <<fs, inum, copy, lock, call, todo, walk, fd, scenario, left, panicked>>

Exit(p) ==
  /\ Reads(p, "exit") /\ NextLine(p)
  /\ todo' = [todo EXCEPT ![p] = Puts(fd[p]) \o Puts(cwd[p])]
  /\ fd' = [fd EXCEPT ![p] = 0] /\ cwd' = [cwd EXCEPT ![p] = 0]
  /\ UNCHANGED <<fs, icache, copy, lock, call, walk, panicked>>

\* wait, for every child.
Wait(p) ==
  /\ Reads(p, "wait") /\ NextLine(p)
  /\ \A q \in Procs \ {p} : cwd[q] = 0 /\ todo[q] = <<>>
  /\ UNCHANGED <<fs, icache, copy, lock, call, todo, walk, own, panicked>>

Continue(p) ==
  /\ UNCHANGED user
  /\ \/ Start(p) \/ WalkEnds(p) \/ WalkOn(p) \/ NotFound(p) \/ NoType(p)
     \/ Return(p) \/ Iput(p) \/ Free(p) \/ Invalid(p) \/ Drop(p) \/ Release(p)
     \/ Open(p) \/ Chdir(p) \/ Use(p) \/ Create(p) \/ Exists(p) \/ Fill(p)
     \/ Filled(p) \/ Link(p) \/ Entry(p) \/ Uncount(p) \/ Unlink(p)
     \/ Remove(p) \/ Removed(p)

Next == \E p \in Procs :
  \/ Continue(p) \/ Close(p) \/ Access(p) \/ Exit(p) \/ Wait(p)
  \/ \E c \in Procs : Fork(p, c)
  \/ \E c \in Offers(p) : Syscall(p, c)

Spec == Init /\ [][Next]_vars

\* Every process runs on, and a sleep lock that is given up again and again is
\* taken some time.
FairSpec == Spec /\ \A p \in Procs : SF_vars(Continue(p))
-----------------------------------------------------------------------------
(* Properties                                                              *)

\* The steps to come that will enter, count or uncount a name of i.
Pending(p, i) == {k \in DOMAIN todo[p] :
  todo[p][k][1] \in {"entry", "uncount", "removed"} /\ inum[todo[p][k][2]] = i}
InFlight(i) == Cardinality(UNION {{p} \X Pending(p, i) : p \in Procs})

\* "nlink: number of links to inode in file system" (fs.h:33): link counts
\* before it enters the name and takes the count back when it cannot
\* (sysfile.c:140-163), unlink counts after it has removed the name
\* (sysfile.c:218-229), create counts ".." (sysfile.c:270).  The only names
\* that stay counted are those that vanish with a directory which another
\* process had removed before the name was entered.
LinksCounted ==
  panicked = "none" => \A i \in Inums :
    dinode[i].nlink = Cardinality(NamesOf(i)) + Cardinality(Subdirs(i))
                      + (IF i = ROOT THEN 1 ELSE 0) + lost[i]
                      + InFlight(i)

\* An inode is freed only when no directory and no other reference names it
\* (iput, fs.c:331), and an entry of the cache that is valid says what the
\* disk says: no step meets a freed inode, through a path or through an open
\* file, except along ".." out of a directory that was removed in use.
NoneFreedInUse ==
  /\ TypeOK
  /\ \A i \in Inums : dinode[i].type = "free" => NamesOf(i) = {}
  /\ LET used == {s \in Slots : ref[s] > 0} IN
       /\ Cardinality({inum[s] : s \in used}) = Cardinality(used)
       /\ \A s \in used : lock[s] = "none" /\ copy[s] # NotValid
                            => copy[s] = dinode[inum[s]]
  /\ panicked = "ilock: no type" => \E p \in Procs : ".." \in Elements(call[p])
  /\ panicked # "unlink: nlink < 1"

\* "iput() frees if the reference and link counts have fallen to zero"
\* (fs.c:119): no inode without names stays allocated when nobody refers to it.
FreedWhenUnused ==
  \A i \in Inums : dinode[i].type # "free" /\ dinode[i].nlink = 0 => Cached(i) # {}

\* Two processes that open, link and remove one name finish ("linkunlink ok",
\* usertests.c:888): every call returns.
CallsReturn == \A p \in Procs : todo[p] # <<>> ~> todo[p] = <<>>

\* Locks are taken from the parent to the child only (fs.c:153): when
\* processes wait for each other's inodes in a ring, one of them waits in an
\* iput that the code calls with another inode locked.
RingsPassThroughIput ==
  \A ring \in SUBSET Procs :
    /\ ring # {}
    /\ \A p \in ring : Wants(p) # 0 /\ lock[Wants(p)] \in ring
    => \E p \in ring : Label(p) = "iput" /\ \E s \in Slots : lock[s] = p

-----------------------------------------------------------------------------
(* The tests of directories, links and inode references in usertests.c:    *)
(* the programs call by call, with the results that the tests insist on.   *)
(* Names are shortened to those of Names, loops to what tells their rounds *)
(* apart, and what is read and written is left out.                        *)

\* A call that must succeed, one that must fail, one whose result is ignored.
Line3(o, pth, n, x) == [op |-> o, path |-> pth, new |-> n, failed |-> FALSE, test |-> x]
Ok(o, pth) == Line3(o, pth, <<>>, "ok")
No(o, pth) == Line3(o, pth, <<>>, "fails")
Try(o, pth) == Line3(o, pth, <<>>, "any")
OkLink(old, new) == Line3("link", old, new, "ok")
NoLink(old, new) == Line3("link", old, new, "fails")
TryLink(old, new) == Line3("link", old, new, "any")
close == Try("close", <<>>)
wait == Try("wait", <<>>)
exit == Try("exit", <<>>)
fork(lines) == [op |-> "fork", child |-> lines]
Creates(pth) == <<Ok("create", pth), close>>

\* The file README (cat, echo) is there; "a" to "d" are the names of the tests.
README == <<"README">>
A == <<"a">>
B == <<"b">>
C == <<"c">>

iputtest == <<Ok("mkdir", A), Ok("chdir", A), Ok("unlink", <<"..", "a">>),
              Ok("chdir", <<"/">>)>>
exitiputtest == <<fork(SubSeq(iputtest, 1, 3) \o <<exit>>), wait>>

openiputtest == <<Ok("mkdir", A), fork(<<No("openrw", A), exit>>),
                  Ok("unlink", A), wait>>

opentest == <<Ok("open", README), close, No("open", A)>>

createtest == Creates(A) \o Creates(B) \o <<Try("unlink", A), Try("unlink", B)>>
dirtest == <<Ok("mkdir", A), Ok("chdir", A), Ok("chdir", <<"..">>), Ok("unlink", A)>>

\* Each child has three names in its share, and removes the second.
Share(x, y) == Creates(x) \o Creates(y) \o <<Ok("unlink", x), exit>>
createdelete == <<fork(Share(A, B)), fork(Share(C, <<"d">>)), wait,
                  Ok("open", B), close, Ok("open", <<"d">>), close,
                  No("open", A), No("open", C)>>

linktest ==
  <<Try("unlink", A), Try("unlink", B)>> \o Creates(A)
  \o <<OkLink(A, B), Try("unlink", A), No("open", A), Ok("open", B), close,
       NoLink(B, B), Try("unlink", B), NoLink(B, A), NoLink(<<".">>, A)>>

\* A round of each kind, and then the rounds that open and remove.
concreate ==
  Creates(A) \o <<fork(<<Try("link", A), exit>>)>> \o Creates(B)
  \o <<wait, fork(<<Try("open", A), close, Try("unlink", B), exit>>),
       Try("unlink", A), Try("unlink", A), Try("unlink", B), wait,
       No("open", A), No("open", B)>>

bigdir == Creates(A) \o <<OkLink(A, B), OkLink(A, C), Try("unlink", A),
                          Ok("unlink", B), Ok("unlink", C)>>

\* dd is a, ff is b, ffff is c, xx is d.
subdir ==
  <<Try("unlink", B), Ok("mkdir", A)>> \o Creates(<<"a", "b">>)
  \o <<No("unlink", A), Ok("mkdir", <<"/", "a", "a">>)>>
  \o Creates(<<"a", "a", "b">>)
  \o <<Ok("open", <<"a", "a", "..", "b">>), close,
       OkLink(<<"a", "a", "b">>, <<"a", "a", "c">>),
       Ok("unlink", <<"a", "a", "b">>), No("open", <<"a", "a", "b">>),
       Ok("chdir", A), Ok("chdir", <<"a", "..", "..", "a">>),
       Ok("chdir", <<"a", "..", "..", "..", "a">>), Ok("chdir", <<".", "..">>),
       Ok("open", <<"a", "a", "c">>), close, No("open", <<"a", "a", "b">>),
       No("create", <<"a", "b", "b">>), No("create", <<"a", "d", "b">>),
       No("create", A), No("openrw", A),
       NoLink(<<"a", "b", "b">>, <<"a", "a", "d">>),
       NoLink(<<"a", "d", "b">>, <<"a", "a", "d">>),
       NoLink(<<"a", "b">>, <<"a", "a", "c">>),
       No("mkdir", <<"a", "b", "b">>), No("mkdir", <<"a", "d", "b">>),
       No("mkdir", <<"a", "a", "c">>), No("unlink", <<"a", "d", "b">>),
       No("unlink", <<"a", "b", "b">>), No("chdir", <<"a", "b">>),
       No("chdir", <<"a", "d">>), Ok("unlink", <<"a", "a", "c">>),
       Ok("unlink", <<"a", "b">>), No("unlink", A), Ok("unlink", <<"a", "a">>),
       Ok("unlink", A)>>

rmdot == <<Ok("mkdir", A), Ok("chdir", A), No("unlink", <<".">>),
           No("unlink", <<"..">>), Ok("chdir", <<"/">>), No("unlink", <<"a", ".">>),
           No("unlink", <<"a", "..">>), Ok("unlink", A)>>

dirfile ==
  Creates(A)
  \o <<No("chdir", A), No("open", <<"a", "d">>), No("create", <<"a", "d">>),
       No("mkdir", <<"a", "d">>), No("unlink", <<"a", "d">>),
       NoLink(README, <<"a", "d">>), Ok("unlink", A),
       No("openrw", <<".">>), Ok("open", <<".">>), close>>

\* Rounds that leave no reference behind; each goes one directory down.
iref ==
  <<Ok("mkdir", A), Ok("chdir", A), Try("mkdir", <<>>), NoLink(README, <<>>),
    Try("create", <<>>), Try("create", <<"d">>), close, Try("unlink", <<"d">>),
    Ok("mkdir", A), Ok("chdir", A), Try("mkdir", <<>>), Ok("chdir", <<"/">>)>>

Tests == <<iputtest, exitiputtest, openiputtest, opentest, createtest, dirtest,
  createdelete, linktest, concreate, bigdir, subdir, rmdot, dirfile, iref>>

\* All its processes have come to the end of their programs.
Finished == \A p \in Procs : todo[p] = <<>> /\ program[p] = <<>>

\* The tests of usertests.c get the results that they insist on, whatever the
\* order in which the processes of a test run, and at the end the only
\* references are those of the directories that processes are in: sys_open,
\* sys_link, sys_unlink, sys_mkdir, sys_chdir, namex, iput (sysfile.c, fs.c).
TestsPass ==
  /\ This.calls = {} => panicked = "none"
  /\ \A p \in Procs : Label(p) = "return" =>
       /\ call[p].test = "ok" => ~call[p].failed
       /\ call[p].test = "fails" => call[p].failed
  /\ Finished => \A s \in Slots :
       ref[s] = Cardinality({p \in Procs : cwd[p] = s})
                + Cardinality({p \in Procs : fd[p] = s})
=============================================================================
