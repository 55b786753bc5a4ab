----------------------------- MODULE InodeCache -----------------------------
(***************************************************************************)
(* The inode cache, directories and path names (practice5/kernel/fs.c) and *)
(* the system calls that change names or the working directory (sysfile.c: *)
(* open, mkdir, link, unlink, chdir; file.c: close), at the granularity of *)
(* the sections between taking and releasing the sleep lock of an inode,   *)
(* or icache.lock.                                                         *)
(*                                                                         *)
(* An inode in the cache and its entry are identified by the inode number: *)
(* an entry is free while ref is 0.  The cache is write-through, so the    *)
(* fields of a valid entry are those of the disk and are not kept twice.   *)
(* The redo log makes a call atomic (module RedoLog): after a power        *)
(* failure the disk is what it was when no call was under way, and the     *)
(* cache is empty.  Left out are the contents of files, devices, and what  *)
(* fork() and exit() do to a working directory: they take and put a        *)
(* reference as chdir() does.                                              *)
(***************************************************************************)
EXTENDS Integers, Sequences, FiniteSets

CONSTANTS
    Procs,
    Inums,          \* inode numbers
    Root,           \* ROOTINO
    Names,          \* names in directories
    NINODE,         \* entries of the cache
    Requests,       \* bound: what programs call, and the path names they pass
    None

AllCalls == {"open", "create", "mkdir", "link", "unlink", "chdir"}
Elements == Names \cup {".", ".."}
PathNames == [abs : BOOLEAN, elems : Seq(Elements)]     \* abs: it begins with "/"

ASSUME RootAssumption == Root \in Inums
ASSUME NamesAssumption == {".", ".."} \cap Names = {}
ASSUME RequestsAssumption ==
    /\ Requests \subseteq [op : AllCalls, path : PathNames, new : PathNames \cup {None}]
    /\ \A r \in Requests : r.op = "link" => r.new \in PathNames
ASSUME SizeAssumption == NINODE \in Nat \ {0}
ASSUME NoneAssumption == None \notin Inums
ASSUME ProcsAssumption == None \notin Procs
ASSUME FiniteAssumption == IsFiniteSet(Procs) /\ IsFiniteSet(Inums) /\ IsFiniteSet(Names)

VARIABLES
    type, nlink,    \* of the inodes on disk
    ents,           \* the entries of directories, but for "." and ".."
    up,             \* the entry ".." of directories
    ref, valid,     \* of the inodes in the cache
    owner,          \* holder of inode.lock
    call,           \* what each process is at
    fh,             \* the inode of its open file
    cwd,            \* its working directory
    lost,           \* history: the directories whose ".." has been freed since
    strayed,        \* history: an entry was made in a removed directory
    adrift,         \* history: a path has gone through the ".." of a lost directory
    panicked        \* why the kernel panicked, or "no"

disk == <<type, nlink, ents, up, lost>>
vars == <<disk, ref, valid, owner, call, fh, cwd, strayed, adrift, panicked>>

-----------------------------------------------------------------------------
NoEnts == [n \in Names |-> None]

\* A process in user code.  In a call: op and path are what the call is and what
\* is left of the path, new the second argument of link(); cur is the inode
\* namex() is at or has returned, ip the other inode the call refers to; puts
\* are the inodes it has yet to iput() before it goes on at cont.
Idle == [op |-> "none", path |-> <<>>, new |-> None, cur |-> None, ip |-> None,
         puts |-> <<>>, cont |-> "user", pc |-> "user"]

\* The disk that mkfs makes: a root directory, linked by its own "..".  The
\* processes descend from the first one, whose working directory is the root.
Init ==
    /\ type = [i \in Inums |-> IF i = Root THEN "dir" ELSE "free"]
    /\ nlink = [i \in Inums |-> IF i = Root THEN 1 ELSE 0]
    /\ ents = [i \in Inums |-> NoEnts]
    /\ up = [i \in Inums |-> IF i = Root THEN Root ELSE None]
    /\ lost = {}
    /\ ref = [i \in Inums |-> IF i = Root THEN Cardinality(Procs) ELSE 0]
    /\ valid = [i \in Inums |-> FALSE]
    /\ owner = [i \in Inums |-> None]
    /\ call = [p \in Procs |-> Idle]
    /\ fh = [p \in Procs |-> None]
    /\ cwd = [p \in Procs |-> Root]
    /\ strayed = FALSE
    /\ adrift = FALSE
    /\ panicked = "no"

-----------------------------------------------------------------------------
(* Parts of actions *)

At(p, c) == call[p].pc = c
Cur(p) == call[p].cur
Ip(p) == call[p].ip

\* What dirlookup() finds for the next element of the path.
Entry(p) ==
    LET d == Cur(p)
        n == Head(call[p].path)
    IN  CASE n = ".."    -> up[d]
          [] n = "."     -> IF up[d] = None THEN None ELSE d
          [] n \in Names -> ents[d][n]
Drifts(p) == Head(call[p].path) = ".." /\ Cur(p) \in lost

\* Where namex() starts.
Start(p, path) == IF path.abs THEN Root ELSE cwd[p]

Goto(p, c) == call' = [call EXCEPT ![p].pc = c]

\* p drops its reference to cur and goes to c.
PutCur(p, c) ==
    call' = [call EXCEPT ![p] = [@ EXCEPT !.pc = "put", !.puts = <<Cur(p)>>,
                                           !.cur = None, !.cont = c]]
PutIp(p, c) ==
    call' = [call EXCEPT ![p] = [@ EXCEPT !.pc = "put", !.puts = <<Ip(p)>>,
                                           !.ip = None, !.cont = c]]

Unlocked(i) == owner[i] = None
ReadIn(i) == [valid EXCEPT ![i] = TRUE]         \* by ilock()

\* iget() of g, while ilock() has read in l: the entry of g may be a new one.
Got(g) == [ref EXCEPT ![g] = @ + 1]
Validity(g, l) ==
    [i \in Inums |-> IF i = l THEN TRUE ELSE valid[i] /\ ~(i = g /\ ref[i] = 0)]

\* The panics of ilock() of l and of iget() of g.
Panic(l, g) ==
    panicked' =
        IF l # None /\ type[l] = "free" THEN "ilock"
        ELSE IF g # None /\ ref[g] = 0 /\ Cardinality({i \in Inums : ref[i] > 0}) >= NINODE
        THEN "iget" ELSE panicked

-----------------------------------------------------------------------------
(* Calls begin and end *)

\* begin_op(); namex() takes the root or the working directory.  Bound: no call
\* begins once an entry was made in a removed directory, for then link counts may
\* grow for ever, or once a path has gone through an entry to a freed inode.
Begin(p, r) ==
    LET s == Start(p, r.path)
    IN  /\ At(p, "user") /\ ~strayed /\ ~adrift
        /\ r.op \in {"open", "create"} => fh[p] = None     \* bound: one open file
        /\ call' = [call EXCEPT ![p] = [Idle EXCEPT !.op = r.op, !.path = r.path.elems,
                                                    !.new = r.new, !.cur = s, !.pc = "walk"]]
        /\ ref' = Got(s) /\ valid' = Validity(s, None) /\ Panic(None, s)
        /\ UNCHANGED <<disk, owner, fh, cwd, strayed, adrift>>

\* fileclose() of the last descriptor of a file.
Close(p) ==
    /\ At(p, "user") /\ fh[p] # None
    /\ fh' = [fh EXCEPT ![p] = None]
    /\ call' = [call EXCEPT ![p] = [Idle EXCEPT !.op = "close", !.pc = "put",
                                                !.puts = <<fh[p]>>, !.cont = "user"]]
    /\ UNCHANGED <<disk, ref, valid, owner, cwd, strayed, adrift, panicked>>

-----------------------------------------------------------------------------
(* iput *)

\* itrunc(), and type 0.
Free(i) ==
    /\ type' = [type EXCEPT ![i] = "free"]
    /\ ents' = [ents EXCEPT ![i] = NoEnts]
    /\ up' = [up EXCEPT ![i] = None]
    /\ lost' = (lost \cup {d \in Inums : up[d] = i}) \ {i}
    /\ UNCHANGED nlink

\* Mutant: iput() does not look at the references of others.
PutCheckAlone(p) ==
    LET i == Head(call[p].puts)
        last == valid[i] /\ nlink[i] = 0
    IN  /\ At(p, "put") /\ Unlocked(i)
        /\ IF last THEN Free(i) ELSE UNCHANGED disk
        /\ valid' = [valid EXCEPT ![i] = @ /\ ~last]
        /\ Goto(p, "drop")
        /\ UNCHANGED <<ref, owner, fh, cwd, strayed, adrift, panicked>>

\* The first half, with inode.lock: an inode without links is truncated and
\* freed if this is the only reference to it.
PutCheck(p) ==
    LET i == Head(call[p].puts)
        last == valid[i] /\ nlink[i] = 0 /\ ref[i] = 1
    IN  /\ At(p, "put") /\ Unlocked(i)
        /\ IF last THEN Free(i) ELSE UNCHANGED disk
        /\ valid' = [valid EXCEPT ![i] = @ /\ ~last]
        /\ Goto(p, "drop")
        /\ UNCHANGED <<ref, owner, fh, cwd, strayed, adrift, panicked>>

\* The second half, with icache.lock.
PutDrop(p) ==
    LET rest == Tail(call[p].puts)
    IN  /\ At(p, "drop")
        /\ ref' = [ref EXCEPT ![Head(call[p].puts)] = @ - 1]
        /\ call' = [call EXCEPT ![p] =
                IF rest = <<>> /\ @.cont = "user" THEN Idle
                ELSE [@ EXCEPT !.puts = rest,
                               !.pc = IF rest = <<>> THEN call[p].cont ELSE "put"]]
        /\ UNCHANGED <<disk, valid, owner, fh, cwd, strayed, adrift, panicked>>

-----------------------------------------------------------------------------
(* Path names *)

\* link() looks up the parent of the new name with op "linknew".
WantsParent(p) == call[p].op \in {"create", "mkdir", "unlink", "linknew"}
Found(p) == IF call[p].op = "mkdir" THEN "create" ELSE call[p].op
NotFound(p) == IF call[p].op = "linknew" THEN "linkbad" ELSE "user"

\* namex() of a path without elements: "/", or "".
NoElement(p) ==
    /\ At(p, "walk") /\ call[p].path = <<>>
    /\ IF WantsParent(p) THEN PutCur(p, NotFound(p)) ELSE Goto(p, Found(p))
    /\ UNCHANGED <<disk, ref, valid, owner, fh, cwd, strayed, adrift, panicked>>

\* One turn of the loop of namex(): p locks cur, looks up the next element,
\* unlocks cur, and gives it back unless it is the parent that is asked for.
Walk(p) ==
    LET rest == call[p].path
        d == Cur(p)
        arrived == WantsParent(p) /\ Len(rest) = 1
        i == IF type[d] # "dir" \/ arrived THEN None ELSE Entry(p)
    IN  /\ At(p, "walk") /\ rest # <<>> /\ Unlocked(d)
        /\ Panic(d, i)
        /\ adrift' = (adrift \/ (i # None /\ Drifts(p)))
        /\ \/ /\ type[d] = "dir" /\ arrived
              /\ Goto(p, Found(p))
              /\ UNCHANGED ref /\ valid' = ReadIn(d)
           \/ /\ i # None
              /\ ref' = Got(i) /\ valid' = Validity(i, d)
              /\ call' = [call EXCEPT ![p] = [@ EXCEPT !.pc = "put", !.puts = <<d>>,
                                  !.cur = i, !.path = Tail(rest),
                                  !.cont = IF Len(rest) = 1 THEN Found(p) ELSE "walk"]]
           \/ /\ type[d] # "dir" \/ (~arrived /\ i = None)
              /\ PutCur(p, NotFound(p))
              /\ UNCHANGED ref /\ valid' = ReadIn(d)
        /\ UNCHANGED <<disk, owner, fh, cwd, strayed>>

-----------------------------------------------------------------------------
(* open and create *)

\* Mutant: the failure path of sys_open() forgets the iput().
OpenKeeps(p) ==
    /\ At(p, "open") /\ Unlocked(Cur(p))
    /\ valid' = ReadIn(Cur(p)) /\ Panic(Cur(p), None)
    /\ fh' = fh \/ fh' = [fh EXCEPT ![p] = Cur(p)]
    /\ call' = [call EXCEPT ![p] = Idle]
    /\ UNCHANGED <<disk, ref, owner, cwd, strayed, adrift>>

\* sys_open() of a path that exists: it fails for want of a struct file or a
\* descriptor, or because a directory is to be written.
Open(p) ==
    /\ At(p, "open") /\ Unlocked(Cur(p))
    /\ valid' = ReadIn(Cur(p)) /\ Panic(Cur(p), None)
    /\ \/ PutCur(p, "user") /\ UNCHANGED fh
       \/ /\ fh' = [fh EXCEPT ![p] = Cur(p)]
          /\ call' = [call EXCEPT ![p] = Idle]
    /\ UNCHANGED <<disk, ref, owner, cwd, strayed, adrift>>

\* create() locks the parent and finds the name there, or else allocates an
\* inode and keeps the parent locked.  (Only a directory that is yet to be made
\* has no "." and "..", and no path comes to it unless adrift.)
Create(p) ==
    LET d == Cur(p)
        i == Entry(p)
        free == {j \in Inums : type[j] = "free"}
    IN  /\ At(p, "create") /\ Unlocked(d)
        /\ i = None => Head(call[p].path) \in Names
        /\ adrift' = (adrift \/ Drifts(p))
        /\ \/ /\ i # None
              /\ ref' = Got(i) /\ valid' = Validity(i, d) /\ Panic(d, i)
              /\ call' = [call EXCEPT ![p] = [@ EXCEPT !.pc = "put", !.puts = <<d>>,
                                                     !.cur = None, !.ip = i, !.cont = "exists"]]
              /\ UNCHANGED <<type, nlink, owner>>
           \/ /\ i = None
              /\ \E j \in free :
                    /\ type' = [type EXCEPT ![j] = IF call[p].op = "mkdir" THEN "dir"
                                                                           ELSE "file"]
                    /\ nlink' = [nlink EXCEPT ![j] = 0]
                    /\ ref' = Got(j) /\ valid' = Validity(j, d) /\ Panic(d, j)
                    /\ owner' = [owner EXCEPT ![d] = p]
                    /\ call' = [call EXCEPT ![p] = [@ EXCEPT !.pc = "make", !.ip = j]]
           \/ /\ i = None /\ free = {}
              /\ panicked' = "ialloc"
              /\ UNCHANGED <<type, nlink, ref, valid, owner, call>>
        /\ UNCHANGED <<ents, up, lost, fh, cwd, strayed>>

\* What sys_open() and sys_mkdir() do with the inode that create() returns
\* locked; they unlock it.
Opened(p) ==
    \/ PutIp(p, "user") /\ UNCHANGED fh
    \/ /\ call[p].op = "create" /\ type[Ip(p)] = "file"
       /\ fh' = [fh EXCEPT ![p] = Ip(p)]
       /\ call' = [call EXCEPT ![p] = Idle]

\* The name was there.
Exists(p) ==
    /\ At(p, "exists") /\ Unlocked(Ip(p))
    /\ valid' = ReadIn(Ip(p)) /\ Panic(Ip(p), None)
    /\ Opened(p)
    /\ UNCHANGED <<disk, ref, owner, cwd, strayed, adrift>>

\* create() gives the new inode its first link, unlocks the parent and puts it,
\* while it keeps the new inode locked.
Make(p) ==
    LET d == Cur(p)
        i == Ip(p)
        isDir == type[i] = "dir"
    IN  /\ At(p, "make") /\ Unlocked(i)
        /\ valid' = ReadIn(i) /\ Panic(i, None)
        /\ nlink' = [nlink EXCEPT ![i] = 1, ![d] = IF isDir THEN @ + 1 ELSE @]
        /\ IF isDir THEN up' = [up EXCEPT ![i] = d] /\ lost' = lost \ {i}
                    ELSE UNCHANGED <<up, lost>>
        /\ ents' = [ents EXCEPT ![d][Head(call[p].path)] = i]
        /\ strayed' = (strayed \/ nlink[d] = 0)
        /\ owner' = [owner EXCEPT ![d] = None, ![i] = p]
        /\ PutCur(p, "made")
        /\ UNCHANGED <<type, ref, fh, cwd, adrift>>

Made(p) ==
    /\ At(p, "made")
    /\ owner' = [owner EXCEPT ![Ip(p)] = None]
    /\ Opened(p)
    /\ UNCHANGED <<disk, ref, valid, cwd, strayed, adrift, panicked>>

-----------------------------------------------------------------------------
(* link and unlink *)

\* sys_link() counts the link that it is going to make, and looks for the
\* parent of the new name.
Link(p) ==
    LET i == Cur(p)
        s == Start(p, call[p].new)
    IN  /\ At(p, "link") /\ Unlocked(i)
        /\ \/ /\ type[i] = "dir"
              /\ PutCur(p, "user")
              /\ valid' = ReadIn(i) /\ Panic(i, None)
              /\ UNCHANGED <<nlink, ref>>
           \/ /\ type[i] # "dir"
              /\ nlink' = [nlink EXCEPT ![i] = @ + 1]
              /\ ref' = Got(s) /\ valid' = Validity(s, i) /\ Panic(i, s)
              /\ call' = [call EXCEPT ![p] =
                            [@ EXCEPT !.op = "linknew", !.path = call[p].new.elems,
                                      !.cur = s, !.ip = i, !.pc = "walk"]]
        /\ UNCHANGED <<type, ents, up, lost, owner, fh, cwd, strayed, adrift>>

\* dirlink(): the name is taken, and the inode that has it is put; or not.
LinkNew(p) ==
    LET d == Cur(p)
        i == Entry(p)
    IN  /\ At(p, "linknew") /\ Unlocked(d)
        /\ i = None => Head(call[p].path) \in Names
        /\ Panic(d, i)
        /\ adrift' = (adrift \/ Drifts(p))
        /\ \/ /\ i # None
              /\ ref' = Got(i) /\ valid' = Validity(i, d)
              /\ owner' = [owner EXCEPT ![d] = p]
              /\ call' = [call EXCEPT ![p] = [@ EXCEPT !.pc = "put", !.puts = <<i>>,
                                                     !.cont = "release"]]
              /\ UNCHANGED <<ents, strayed>>
           \/ /\ i = None
              /\ ents' = [ents EXCEPT ![d][Head(call[p].path)] = Ip(p)]
              /\ strayed' = (strayed \/ nlink[d] = 0)
              /\ call' = [call EXCEPT ![p] = [@ EXCEPT !.pc = "put", !.puts = <<d, Ip(p)>>,
                                                     !.cur = None, !.ip = None, !.cont = "user"]]
              /\ valid' = ReadIn(d)
              /\ UNCHANGED <<ref, owner>>
        /\ UNCHANGED <<type, nlink, up, lost, fh, cwd>>

\* Mutant: the failure path of link() forgets the link it counted.
LinkBadKeeps(p) ==
    /\ At(p, "linkbad") /\ Unlocked(Ip(p))
    /\ PutIp(p, "user")
    /\ valid' = ReadIn(Ip(p)) /\ Panic(Ip(p), None)
    /\ UNCHANGED <<disk, ref, owner, fh, cwd, strayed, adrift>>

\* The failure path of link() takes the link back.
LinkBad(p) ==
    /\ At(p, "linkbad") /\ Unlocked(Ip(p))
    /\ nlink' = [nlink EXCEPT ![Ip(p)] = @ - 1]
    /\ PutIp(p, "user")
    /\ valid' = ReadIn(Ip(p)) /\ Panic(Ip(p), None)
    /\ UNCHANGED <<type, ents, up, lost, ref, owner, fh, cwd, strayed, adrift>>

\* Mutant: unlink() does not keep the parent locked.
UnlinkUnlocked(p) ==
    LET d == Cur(p)
        i == IF Head(call[p].path) \in Names THEN Entry(p) ELSE None
    IN  /\ At(p, "unlink") /\ Unlocked(d)
        /\ Panic(d, i)
        /\ \/ /\ i = None
              /\ PutCur(p, "user")
              /\ valid' = ReadIn(d)
              /\ UNCHANGED ref
           \/ /\ i # None
              /\ ref' = Got(i) /\ valid' = Validity(i, d)
              /\ call' = [call EXCEPT ![p] = [@ EXCEPT !.pc = "erase", !.ip = i]]
        /\ UNCHANGED <<disk, owner, fh, cwd, strayed, adrift>>

\* sys_unlink() locks the parent and looks up the name, unless it is "." or "..".
Unlink(p) ==
    LET d == Cur(p)
        i == IF Head(call[p].path) \in Names THEN Entry(p) ELSE None
    IN  /\ At(p, "unlink") /\ Unlocked(d)
        /\ Panic(d, i)
        /\ \/ /\ i = None
              /\ PutCur(p, "user")
              /\ valid' = ReadIn(d)
              /\ UNCHANGED <<ref, owner>>
           \/ /\ i # None
              /\ ref' = Got(i) /\ valid' = Validity(i, d)
              /\ owner' = [owner EXCEPT ![d] = p]
              /\ call' = [call EXCEPT ![p] = [@ EXCEPT !.pc = "erase", !.ip = i]]
        /\ UNCHANGED <<disk, fh, cwd, strayed, adrift>>

\* It locks the inode, too, erases the entry and puts the parent; or it finds a
\* directory that is not empty.
Erase(p) ==
    LET d == Cur(p)
        i == Ip(p)
        isDir == type[i] = "dir"
    IN  /\ At(p, "erase") /\ Unlocked(i)
        /\ valid' = ReadIn(i)
        /\ \/ /\ nlink[i] < 1
              /\ panicked' = "unlink"
              /\ UNCHANGED <<nlink, ents, owner, call>>
           \/ /\ isDir /\ ents[i] # NoEnts
              /\ Panic(i, None)
              /\ PutIp(p, "release")
              /\ UNCHANGED <<nlink, ents, owner>>
           \/ /\ nlink[i] >= 1 /\ (isDir => ents[i] = NoEnts)
              /\ Panic(i, None)
              /\ ents' = [ents EXCEPT ![d][Head(call[p].path)] = None]
              /\ nlink' = [nlink EXCEPT ![d] = IF isDir THEN @ - 1 ELSE @]
              /\ owner' = [owner EXCEPT ![d] = None, ![i] = p]
              /\ PutCur(p, "erased")
        /\ UNCHANGED <<type, up, lost, ref, fh, cwd, strayed, adrift>>

\* The inode loses the link, still locked since its entry was erased.
Erased(p) ==
    /\ At(p, "erased")
    /\ nlink' = [nlink EXCEPT ![Ip(p)] = @ - 1]
    /\ owner' = [owner EXCEPT ![Ip(p)] = None]
    /\ PutIp(p, "user")
    /\ UNCHANGED <<type, ents, up, lost, ref, valid, fh, cwd, strayed, adrift, panicked>>

\* The failure paths of link() and unlink() unlock the parent and put it.
Release(p) ==
    /\ At(p, "release")
    /\ owner' = [owner EXCEPT ![Cur(p)] = None]
    /\ PutCur(p, NotFound(p))
    /\ UNCHANGED <<disk, ref, valid, fh, cwd, strayed, adrift, panicked>>

-----------------------------------------------------------------------------
(* chdir *)

\* sys_chdir() changes the working directory and puts the old one.
Chdir(p) ==
    /\ At(p, "chdir") /\ Unlocked(Cur(p))
    /\ valid' = ReadIn(Cur(p)) /\ Panic(Cur(p), None)
    /\ \/ type[Cur(p)] # "dir" /\ PutCur(p, "user") /\ UNCHANGED cwd
       \/ /\ type[Cur(p)] = "dir"
          /\ cwd' = [cwd EXCEPT ![p] = Cur(p)]
          /\ call' = [call EXCEPT ![p] = [@ EXCEPT !.pc = "put", !.puts = <<cwd[p]>>,
                                                 !.cur = None, !.cont = "user"]]
    /\ UNCHANGED <<disk, ref, owner, fh, strayed, adrift>>

-----------------------------------------------------------------------------
KernelStep(p) ==
    \/ PutCheck(p) \/ PutDrop(p) \/ NoElement(p) \/ Walk(p)
    \/ Open(p) \/ Create(p) \/ Exists(p) \/ Make(p) \/ Made(p)
    \/ Link(p) \/ LinkNew(p) \/ LinkBad(p)
    \/ Unlink(p) \/ Erase(p) \/ Erased(p) \/ Release(p) \/ Chdir(p)

Next ==
    /\ panicked = "no"
    /\ \E p \in Procs : KernelStep(p) \/ Close(p) \/ \E r \in Requests : Begin(p, r)

Spec == Init /\ [][Next]_vars

-----------------------------------------------------------------------------
(* Properties *)

\* The values of the variables.
TypeOK ==
    /\ type \in [Inums -> {"free", "file", "dir"}]
    /\ nlink \in [Inums -> Nat] /\ ref \in [Inums -> Nat]
    /\ ents \in [Inums -> [Names -> Inums \cup {None}]]
    /\ up \in [Inums -> Inums \cup {None}] /\ cwd \in [Procs -> Inums]
    /\ valid \in [Inums -> BOOLEAN]
    /\ owner \in [Inums -> Procs \cup {None}]
    /\ \A p \in Procs : {Cur(p), Ip(p), fh[p]} \subseteq Inums \cup {None}
    /\ panicked \in {"no", "ilock", "iget", "ialloc", "unlink"}

\* What p puts now, and what it puts next.
Put(p, k) == IF k \in DOMAIN call[p].puts THEN call[p].puts[k] ELSE None

\* The references of processes to i: in fh, cwd, cur, ip and puts.
Refs(i) ==
    Cardinality({p \in Procs : fh[p] = i}) + Cardinality({p \in Procs : cwd[p] = i})
    + Cardinality({p \in Procs : Cur(p) = i}) + Cardinality({p \in Procs : Ip(p) = i})
    + Cardinality({p \in Procs : Put(p, 1) = i}) + Cardinality({p \in Procs : Put(p, 2) = i})

\* Every reference is counted once, on the paths through namex(), create(),
\* link() and unlink() that fail as well as on those that succeed.
RefsExact == \A i \in Inums : ref[i] = Refs(i)

Entries(i) == {x \in Inums \X Names : ents[x[1]][x[2]] = i}
Subdirs(i) == {n \in Names : ents[i][n] # None /\ type[ents[i][n]] = "dir"}
Quiet == \A p \in Procs : call[p] = Idle

\* When no call is under way, which is when the log commits, the link counts on
\* disk are those of the directories, whatever calls ran at the same time, as
\* long as nobody has made an entry in a removed directory or gone adrift.
LinksExact ==
    Quiet /\ ~strayed /\ ~adrift =>
        \A i \in Inums :
            nlink[i] = Cardinality(Entries(i)) + (IF i = Root THEN 1 ELSE 0)
                       + Cardinality(Subdirs(i))

\* A removed directory that is somebody's working directory keeps its "..", and
\* unlink() and iput() free the parent regardless: a path through that ".." goes
\* adrift.  Until one does, no inode is freed under anybody: neither an entry of a
\* directory nor a reference of a process (but the one that frees it) leads to a
\* free inode, and ".." in a directory that has a name leads to where the name is.
NothingDangles ==
    ~adrift =>
        /\ \A d \in Inums, n \in Names :
               LET i == ents[d][n]
               IN  i # None => /\ type[i] # "free"
                               /\ type[i] = "dir" => up[i] = d /\ i \notin lost
        /\ \A p \in Procs : \A i \in {fh[p], cwd[p], Cur(p), Ip(p)} \ {None} :
               type[i] # "free"

\* The panics "ilock: no type" and "unlink: nlink < 1" happen only to who has gone
\* adrift: mkdir a, mkdir a/b, chdir a/b, unlink both, open ".." does.
NoInconsistency == panicked \in {"ilock", "unlink"} => adrift

\* The inode whose lock p is about to take, if any.
Wants(p) ==
    CASE At(p, "put") -> Head(call[p].puts)
      [] call[p].pc \in {"walk", "open", "create", "link", "linknew", "unlink",
                    "chdir"} -> Cur(p)
      [] call[p].pc \in {"exists", "make", "erase", "linkbad"} -> Ip(p)
      [] OTHER -> None

WaitsFor(p, q) == Wants(p) # None /\ owner[Wants(p)] = q

\* Concurrent link(), unlink() and create() of one name do not deadlock: no two
\* processes wait for each other's inode locks.  (usertests.c has a test "to look
\* for deadlocks".)  The code violates it: iput() takes the lock of the parent
\* while create() and unlink() hold that of the inode below it.
NoDeadlock == \A p, q \in Procs : ~(WaitsFor(p, q) /\ WaitsFor(q, p))

\* "iput() frees if the reference and link counts have fallen to zero."  The code
\* violates it: two concurrent iput()s both see the reference of the other.
FreedWhenUnused ==
    \A i \in Inums : ref[i] = 0 /\ nlink[i] = 0 => type[i] = "free"

=============================================================================
