---------------------------- MODULE LegacyProofs ----------------------------
(***************************************************************************)
(* No reader can open a half-written record, by whichever of its files:    *)
(* PartialIsFenced for any records, directories, operations and processes, *)
(* and any number of deaths and edits.                                     *)
(*                                                                         *)
(* It is not inductive.  An operation that is not fenced, and not wholly   *)
(* written, shows in none of its files; but a later operation that read    *)
(* one of them may be taken back, and what it puts back is what it read.   *)
(* The invariant therefore says that such an operation is not below what   *)
(* its files say: Clear gives a set of contents that is closed under       *)
(* taking back and does not have the operation in it.                      *)
(*                                                                         *)
(* The last part shows that the writer implements AtomicRecords, for       *)
(* records that share no file and for others while OneAtATime holds.       *)
(***************************************************************************)
EXTENDS LegacyTransaction, TLAPS, SequenceTheorems, WellFoundedInduction

Rest(s) == {s[i] : i \in 1 .. Len(s)}

Guarded(o) ==
    /\ \A d \in Replicas(about[o]) : o \in guard[d]
    /\ Replicas(about[o]) # {} => o \in ready

(* Taking back what wrote c, and what wrote what is below, never brings o. *)
Clear(f, c, o) ==
    \E S \in SUBSET Contents :
        /\ c \in S /\ o \notin S
        /\ \A w \in S \cap Ops :
               saw[w] # Nil /\ f \in members[about[w]] => saw[w][f] \in S

(* What a process that has not yet written its journal will publish. *)
Early(p) == run[p].way = "write" /\ run[p].at \in {"read", "prepared", "check"}

Nowhere(o) ==
    /\ ~Pending(o) /\ o \notin landed
    /\ \A f \in Files : content[f] # o
    /\ \A u \in Ops : saw[u] # Nil => \A f \in members[about[u]] : saw[u][f] # o

(* What was not published is nowhere, and one process has it. *)
Unborn ==
    /\ \A o \in Ops : saw[o] = Nil => Nowhere(o)
    /\ \A p \in Procs : Early(p) => Nowhere(run[p].op)
    /\ \A p, q \in Procs : p # q /\ Early(p) => run[q].op # run[p].op

(* A journal is that of an operation on its record. *)
Journals ==
    \A r \in Records :
        journal[r] # Nil => about[journal[r]] = r /\ saw[journal[r]] # Nil

(* No operation is below what it read. *)
Ordered ==
    \A o \in Ops : saw[o] # Nil =>
        \A f \in members[about[o]] : Clear(f, saw[o][f], o)

(* Half-written, or not written: fenced, or in none of its files. *)
Hidden ==
    \A o \in Ops : Pending(o) /\ o \notin landed /\ ~Guarded(o) =>
        \A f \in Touched(o) : Clear(f, content[f], o)

(* An exclusive lock is alone on its directory. *)
Exclusion ==
    \A p, q \in Procs : p # q =>
        \A d \in Dirs : held[p][d] = "exclusive" => held[q][d] = "none"

(* The locks that a process has by where it is. *)
Holds(p) ==
    /\ run[p].at \in Locking =>
           \A d \in Directories(run[p].record) \ run[p].dirs : held[p][d] = Mode(p)
    /\ run[p].at \in Changing =>
           \A d \in Directories(run[p].record) : held[p][d] = "exclusive"

(* What a process is about. *)
Shape(p) ==
    /\ run[p].at = "idle" => run[p].op = Nil
    /\ run[p].at # "idle" =>
           run[p].record \in Records /\ run[p].dirs \subseteq Directories(run[p].record)
    /\ run[p].op # Nil => run[p].record = about[run[p].op]
    /\ run[p].at = "read" => run[p].way \in {"look", "write"}
    /\ run[p].at = "read" /\ run[p].way = "write" => saw[run[p].op] = Nil
    /\ run[p].at \in {"prepared", "check"} => run[p].way = "write" /\ saw[run[p].op] # Nil
    /\ run[p].at = "recheck" => run[p].way \in {"after", "before"}
    /\ run[p].at \in Changing => run[p].op # Nil

(* What a process has established that writes a journal, guards or files. *)
Progress(p) ==
    LET o == run[p].op IN
    /\ run[p].at \in Changing => journal[run[p].record] = o
    /\ run[p].at = "guards" => \A d \in Replicas(run[p].record) \ run[p].dirs : o \in guard[d]
    /\ run[p].at = "apply" => Guarded(o)
    /\ run[p].at \in {"guards", "apply"} =>
           \A f \in Touched(o) : content[f] \in {saw[o][f], o}
    /\ run[p].at = "apply" => \A f \in Touched(o) \ Rest(run[p].files) : content[f] = Image(p, f)
    /\ run[p].at = "apply" => Rest(run[p].files) \subseteq Touched(o)
    /\ run[p].at = "apply" /\ run[p].way # "before" /\ run[p].files = <<>> => o \in landed
    /\ run[p].at \in Changing \ {"guards", "apply"} =>
           o \in landed \/ \A f \in Touched(o) : content[f] = saw[o][f]

IInv ==
    /\ TypeOK /\ Unborn /\ Journals /\ Ordered /\ Hidden /\ Exclusion
    /\ \A p \in Procs : Holds(p) /\ Shape(p) /\ Progress(p)

Runs == [at : {"idle", "prepared"} \cup Locking \cup Changing, way : Ways,
         record : Records \cup {Nil}, op : Ops \cup {Nil}, dirs : SUBSET Dirs,
         files : Seq(Files)]

(* Who may change a record's journal and files. *)
Owns(p) ==
    \/ run[p].at \in Changing
    \/ run[p].at \in {"check", "recheck"} /\ run[p].dirs = {}

-----------------------------------------------------------------------------
(* Facts about the constants. *)

(* There is a next directory in path order. *)
LEMMA FirstExists ==
    ASSUME NEW S, S \subseteq Dirs, S # {}
    PROVE  First(S) \in S
<1>1. S \subseteq Nat BY ConstantsAssumption
<1> DEFINE R == {e \in Nat \X Nat : e[1] < e[2]}
<1>2. R = OpToRel(<, Nat) BY DEF OpToRel
<1>3. IsWellFoundedOn(R, Nat) BY <1>2, NatLessThanWellFounded, Zenon
<1>4. \E d \in S : \A e \in S : <<e, d>> \notin R
  <2> HIDE DEF R
  <2>1. QED BY <1>1, <1>3, WFMin
<1>5. \E d \in S : \A e \in S : d <= e
  <2>1. PICK d \in S : \A e \in S : <<e, d>> \notin R BY <1>4
  <2>2. ASSUME NEW e \in S PROVE d <= e
    <3>1. d \in Nat /\ e \in Nat BY <1>1
    <3>2. ~(e < d) BY <2>1, <3>1
    <3>3. QED BY <3>1, <3>2
  <2>3. QED BY <2>2
<1>6. QED BY <1>5 DEF First

LEMMA DirectoryFacts ==
    ASSUME NEW r \in Records
    PROVE  /\ members[r] \subseteq Files
           /\ Directories(r) \subseteq Dirs
           /\ Home(r) \in Directories(r)
           /\ Replicas(r) \subseteq Directories(r)
BY ConstantsAssumption DEF Directories, Home, Replicas

LEMMA OperationFacts ==
    ASSUME NEW o \in Ops
    PROVE  /\ about[o] \in Records
           /\ images[o] \in Seq(Files)
           /\ Touched(o) \subseteq members[about[o]]
           /\ Touched(o) # {}
           /\ o # Nil
BY ConstantsAssumption

LEMMA TouchedIsRest ==
    ASSUME NEW o \in Ops
    PROVE  Rest(images[o]) = Touched(o)
<1>1. DOMAIN images[o] = 1 .. Len(images[o]) BY OperationFacts
<1>2. QED BY <1>1 DEF Rest, Touched

LEMMA RestOfTail ==
    ASSUME NEW s \in Seq(Files), s # <<>>
    PROVE  /\ Head(s) \in Files /\ Tail(s) \in Seq(Files)
           /\ Rest(s) = {Head(s)} \cup Rest(Tail(s))
<1>1. /\ Head(s) \in Files /\ Tail(s) \in Seq(Files) /\ Len(Tail(s)) = Len(s) - 1
      /\ \A i \in 1 .. Len(Tail(s)) : Tail(s)[i] = s[i + 1]
  BY HeadTailProperties
<1>2. Len(s) \in Nat /\ Len(s) # 0 /\ Head(s) = s[1] BY EmptySeq
<1>3. ASSUME NEW x \in Rest(s) PROVE x \in {Head(s)} \cup Rest(Tail(s))
  <2>1. PICK i \in 1 .. Len(s) : x = s[i] BY DEF Rest
  <2>2. CASE i = 1 BY <1>2, <2>1, <2>2
  <2>3. CASE i # 1
    <3>1. i - 1 \in 1 .. Len(Tail(s)) BY <1>1, <1>2, <2>1, <2>3
    <3>2. Tail(s)[i - 1] = s[i] BY <1>1, <3>1, <2>1
    <3>3. QED BY <2>1, <3>1, <3>2 DEF Rest
  <2>4. QED BY <2>2, <2>3
<1>4. ASSUME NEW x \in {Head(s)} \cup Rest(Tail(s)) PROVE x \in Rest(s)
  <2>1. CASE x = Head(s)
    <3>1. 1 \in 1 .. Len(s) BY <1>2
    <3>2. QED BY <1>2, <2>1, <3>1 DEF Rest
  <2>2. CASE x \in Rest(Tail(s))
    <3>1. PICK i \in 1 .. Len(Tail(s)) : x = Tail(s)[i] BY <2>2 DEF Rest
    <3>2. i + 1 \in 1 .. Len(s) BY <1>1, <1>2, <3>1
    <3>3. QED BY <1>1, <3>1, <3>2 DEF Rest
  <2>3. QED BY <1>4, <2>1, <2>2
<1>5. QED BY <1>1, <1>3, <1>4

-----------------------------------------------------------------------------
(* Facts about processes. *)

LEMMA RunFacts ==
    ASSUME TypeOK, NEW p \in Procs
    PROVE  /\ run[p] \in Runs
           /\ run[p].op \in Ops \cup {Nil}
           /\ run[p].way # "look" <=> run[p].op # Nil
           /\ DOMAIN run = Procs /\ DOMAIN held = Procs
           /\ held[p] \in [Dirs -> {"none", "shared", "exclusive"}]
BY DEF TypeOK, Runs

LEMMA OwnsFacts ==
    ASSUME IInv, NEW p \in Procs, Owns(p)
    PROVE  /\ run[p].op \in Ops /\ run[p].record \in Records
           /\ run[p].record = about[run[p].op]
           /\ \A d \in Directories(run[p].record) : held[p][d] = "exclusive"
<1>1. Holds(p) /\ Shape(p) /\ run[p].op \in Ops \cup {Nil} /\ (run[p].way # "look" <=> run[p].op # Nil)
  BY RunFacts DEF IInv
<1>2. run[p].op # Nil /\ run[p].at # "idle"
  BY <1>1 DEF Owns, Shape, Changing
<1>3. CASE run[p].at \in Changing
  BY <1>1, <1>2, <1>3 DEF Holds, Shape
<1>4. CASE run[p].at \in {"check", "recheck"} /\ run[p].dirs = {}
  BY <1>1, <1>2, <1>4 DEF Holds, Shape, Mode, Locking
<1>5. QED BY <1>3, <1>4 DEF Owns

(* Two processes that may change things are about different files. *)
LEMMA Apart ==
    ASSUME IInv, NEW p \in Procs, NEW q \in Procs, p # q, Owns(p), Owns(q)
    PROVE  /\ Directories(run[p].record) \cap Directories(run[q].record) = {}
           /\ run[p].record # run[q].record
           /\ run[p].op # run[q].op
           /\ members[run[p].record] \cap members[run[q].record] = {}
<1>1. /\ run[p].record \in Records /\ run[q].record \in Records
      /\ run[p].record = about[run[p].op] /\ run[q].record = about[run[q].op]
      /\ \A d \in Directories(run[p].record) : held[p][d] = "exclusive"
      /\ \A d \in Directories(run[q].record) : held[q][d] = "exclusive"
  BY OwnsFacts
<1>2. Directories(run[p].record) \cap Directories(run[q].record) = {}
  BY <1>1, DirectoryFacts DEF IInv, Exclusion
<1>3. run[p].record # run[q].record BY <1>1, <1>2, DirectoryFacts
<1>4. members[run[p].record] \cap members[run[q].record] = {}
  BY <1>2 DEF Directories
<1>5. QED BY <1>1, <1>2, <1>3, <1>4

(* What the others have established stays, as long as it is left alone. *)
LEMMA ProgressStays ==
    ASSUME NEW q \in Procs, Shape(q), Progress(q), run'[q] = run[q],
           run[q].at \in Changing =>
               /\ journal'[run[q].record] = journal[run[q].record]
               /\ saw'[run[q].op] = saw[run[q].op]
               /\ \A f \in Touched(run[q].op) : content'[f] = content[f]
               /\ run[q].op \in landed => run[q].op \in landed'
               /\ \A d \in Replicas(run[q].record) :
                      run[q].op \in guard[d] => run[q].op \in guard'[d]
               /\ run[q].op \in ready => run[q].op \in ready'
    PROVE  Progress(q)'
<1>1. CASE run[q].at \notin Changing
  BY <1>1 DEF Progress, Changing
<1>2. CASE run[q].at \in Changing
  <2>1. run[q].record = about[run[q].op] BY <1>2 DEF Shape
  <2>2. run[q].at = "apply" => Guarded(run[q].op)'
    BY <1>2, <2>1 DEF Progress, Guarded
  <2>3. run[q].at = "guards" => \A d \in Replicas(run[q].record) \ run[q].dirs : run[q].op \in guard'[d]
    BY <1>2 DEF Progress
  <2>4. run[q].at = "apply" => \A f \in Touched(run[q].op) \ Rest(run[q].files) : content'[f] = Image(q, f)'
    BY <1>2 DEF Progress, Image
  <2>5. run[q].at \in {"guards", "apply"} =>
           \A f \in Touched(run[q].op) : content'[f] \in {saw'[run[q].op][f], run[q].op}
    BY <1>2 DEF Progress
  <2>6. run[q].at \in Changing \ {"guards", "apply"} =>
           run[q].op \in landed' \/ \A f \in Touched(run[q].op) : content'[f] = saw'[run[q].op][f]
    BY <1>2 DEF Progress
  <2>7. QED BY <1>2, <2>2, <2>3, <2>4, <2>5, <2>6 DEF Progress
<1>3. QED BY <1>1, <1>2

LEMMA ShapeStays ==
    ASSUME NEW q \in Procs, Shape(q), TypeOK, run'[q] = run[q],
           run[q].op # Nil => (saw'[run[q].op] = Nil <=> saw[run[q].op] = Nil)
    PROVE  Shape(q)'
<1>1. run[q].way # "look" => run[q].op # Nil BY RunFacts
<1>2. QED BY <1>1 DEF Shape

LEMMA HoldsStays ==
    ASSUME NEW q \in Procs, Holds(q), run'[q] = run[q], held'[q] = held[q]
    PROVE  Holds(q)'
BY DEF Holds, Mode

-----------------------------------------------------------------------------
(* Steps that change no file. *)

LEMMA QuietTypes ==
    ASSUME TypeOK, UNCHANGED <<disk, saw, landed>>, crashes' \in 0 .. MaxCrashes,
           run' \in [Procs -> Runs],
           \A q \in Procs : run'[q].way # "look" <=> run'[q].op # Nil,
           held' \in [Procs -> [Dirs -> {"none", "shared", "exclusive"}]]
    PROVE  TypeOK'
<1>1. UNCHANGED <<content, journal, guard, ready, saw, landed>> BY DEF disk
<1>2. \A o \in Ops : saw'[o] = Nil \/ saw'[o] \in [members[about[o]] -> Contents]
  BY <1>1 DEF TypeOK
<1>3. QED BY <1>1, <1>2 DEF TypeOK, Runs

LEMMA QuietInv ==
    ASSUME IInv, NEW p \in Procs, UNCHANGED <<disk, saw, landed>>,
           \A q \in Procs \ {p} : run'[q] = run[q] /\ held'[q] = held[q],
           TypeOK', Exclusion', Holds(p)', Shape(p)', Progress(p)',
           Early(p)' => Nowhere(run'[p].op) /\ \A q \in Procs \ {p} : run[q].op # run'[p].op,
           \A q \in Procs \ {p} : Early(q) => run'[p].op # run[q].op
    PROVE  IInv'
<1>1. UNCHANGED <<content, journal, guard, ready, saw, landed>> BY DEF disk
<1>2. \A q \in Procs : Holds(q)' /\ Shape(q)' /\ Progress(q)'
  <2>1. ASSUME NEW q \in Procs, q # p PROVE Holds(q)' /\ Shape(q)' /\ Progress(q)'
    <3>1. Holds(q)' BY <2>1, HoldsStays DEF IInv
    <3>2. Shape(q)' BY <1>1, <2>1, ShapeStays DEF IInv
    <3>3. Progress(q)' BY <1>1, <2>1, ProgressStays DEF IInv
    <3>4. QED BY <3>1, <3>2, <3>3
  <2>2. QED BY <2>1
<1>3. \A o : Nowhere(o)' <=> Nowhere(o) BY <1>1 DEF Nowhere, Pending
<1>4. Unborn'
  <2>1. \A o \in Ops : saw'[o] = Nil => Nowhere(o)' BY <1>1, <1>3 DEF IInv, Unborn
  <2>2. ASSUME NEW q \in Procs, Early(q)' PROVE Nowhere(run[q].op)'
    <3>1. CASE q = p BY <1>1, <2>2, <3>1 DEF Nowhere, Pending
    <3>2. CASE q # p
      <4>1. run'[q] = run[q] /\ Early(q) BY <2>2, <3>2 DEF Early
      <4>2. Nowhere(run[q].op) BY <4>1 DEF IInv, Unborn
      <4>3. QED BY <1>1, <4>1, <4>2 DEF Nowhere, Pending
    <3>3. QED BY <3>1, <3>2
  <2>3. ASSUME NEW q \in Procs, NEW r \in Procs, q # r, Early(q)'
        PROVE  run'[r].op # run'[q].op
    BY <2>3 DEF IInv, Unborn, Early
  <2>4. QED BY <2>1, <2>2, <2>3 DEF Unborn
<1>5. Journals' BY <1>1 DEF IInv, Journals
<1>6. Ordered' BY <1>1 DEF IInv, Ordered, Clear
<1>7. Hidden' BY <1>1 DEF IInv, Hidden, Clear, Pending, Guarded
<1>8. QED BY <1>2, <1>4, <1>5, <1>6, <1>7 DEF IInv

(* The same for a step that stays with its operation. *)
LEMMA QuietStepInv ==
    ASSUME IInv, NEW p \in Procs, UNCHANGED <<disk, saw, landed>>,
           \A q \in Procs \ {p} : run'[q] = run[q] /\ held'[q] = held[q],
           TypeOK', Exclusion', Holds(p)', Shape(p)', Progress(p)',
           run'[p].op = run[p].op, Early(p)' => Early(p)
    PROVE  IInv'
BY QuietInv DEF IInv, Unborn

LEMMA LeaveExclusion ==
    ASSUME TypeOK, Exclusion, NEW p \in Procs, held' = [held EXCEPT ![p] = NoLocks]
    PROVE  /\ Exclusion'
           /\ held' \in [Procs -> [Dirs -> {"none", "shared", "exclusive"}]]
BY DEF Exclusion, TypeOK, NoLocks

LEMMA IdleRun == Idle \in Runs
<1>1. <<>> \in Seq(Files) BY EmptySeq
<1>2. QED BY <1>1 DEF Idle, Runs, Ways

LEMMA LeaveInv ==
    ASSUME IInv, NEW p \in Procs, Leave(p), UNCHANGED <<disk, saw, landed>>,
           crashes' \in 0 .. MaxCrashes
    PROVE  IInv'
<1>1. DOMAIN run = Procs /\ TypeOK BY RunFacts DEF IInv
<1>2. run'[p] = Idle /\ \A q \in Procs \ {p} : run'[q] = run[q] BY <1>1 DEF Leave
<1>3. \A q \in Procs \ {p} : held'[q] = held[q] BY <1>1, RunFacts DEF Leave
<1>4. Exclusion' /\ held' \in [Procs -> [Dirs -> {"none", "shared", "exclusive"}]]
  BY LeaveExclusion DEF IInv, Leave
<1>5. TypeOK'
  <2>1. run' \in [Procs -> Runs] BY <1>1, IdleRun DEF Leave, TypeOK, Runs
  <2>2. \A q \in Procs : run'[q].way # "look" <=> run'[q].op # Nil
    <3>1. \A q \in Procs : run[q].way # "look" <=> run[q].op # Nil BY <1>1, RunFacts
    <3>2. Idle.way = "look" /\ Idle.op = Nil BY DEF Idle
    <3>3. QED BY <1>2, <3>1, <3>2
  <2>3. QED BY <1>1, <1>4, <2>1, <2>2, QuietTypes
<1>6. Holds(p)' /\ Shape(p)' /\ Progress(p)' /\ ~Early(p)'
  BY <1>2 DEF Holds, Shape, Progress, Early, Idle, Locking, Changing
<1>7. \A q \in Procs \ {p} : Early(q) => run'[p].op # run[q].op
  BY <1>1, <1>2, RunFacts DEF Early, Idle
<1>8. QED BY <1>2, <1>3, <1>4, <1>5, <1>6, <1>7, QuietInv

LEMMA StartReadInv ==
    ASSUME IInv, NEW p \in Procs, NEW r \in Records, NEW way \in {"look", "write"},
           NEW o \in Ops \cup {Nil}, StartRead(p, r, way, o),
           way = "look" <=> o = Nil,
           way = "write" => about[o] = r /\ saw[o] = Nil /\ \A q \in Procs : run[q].op # o
    PROVE  IInv'
<1> DEFINE new == [Idle EXCEPT !.at = "read", !.way = way, !.record = r,
                               !.op = o, !.dirs = Directories(r)]
<1>1. DOMAIN run = Procs /\ TypeOK BY RunFacts DEF IInv
<1>2. /\ new.at = "read" /\ new.way = way /\ new.record = r /\ new.op = o
      /\ new.dirs = Directories(r) /\ new \in Runs
  <2>1. <<>> \in Seq(Files) BY EmptySeq
  <2>2. QED BY <2>1, DirectoryFacts DEF Idle, Runs, Ways, Locking
<1>3. run'[p] = new /\ \A q \in Procs \ {p} : run'[q] = run[q] BY <1>1 DEF StartRead
<1>4. TypeOK'
  <2> HIDE DEF new
  <2>1. run' = [run EXCEPT ![p] = new] BY DEF StartRead, new
  <2>2. run' \in [Procs -> Runs] BY <1>1, <1>2, <2>1 DEF TypeOK, Runs
  <2>3. \A q \in Procs : run'[q].way # "look" <=> run'[q].op # Nil
    <3>1. \A q \in Procs : run[q].way # "look" <=> run[q].op # Nil BY <1>1, RunFacts
    <3>2. new.way # "look" <=> new.op # Nil BY <1>2, OperationFacts
    <3>3. QED BY <1>3, <3>1, <3>2
  <2>4. UNCHANGED <<disk, saw, landed, held, crashes>> BY DEF StartRead
  <2>5. held' \in [Procs -> [Dirs -> {"none", "shared", "exclusive"}]]
        /\ crashes' \in 0 .. MaxCrashes
    BY <1>1, <2>4 DEF TypeOK
  <2>6. QED BY <1>1, <2>2, <2>3, <2>4, <2>5, QuietTypes
<1> HIDE DEF new
<1>5. Exclusion' BY DEF StartRead, IInv, Exclusion
<1>6. Holds(p)' BY <1>2, <1>3 DEF Holds, Changing
<1>7. Shape(p)' BY <1>2, <1>3 DEF Shape, Changing, StartRead
<1>8. Progress(p)' BY <1>2, <1>3 DEF Progress, Changing
<1>9. ASSUME Early(p)'
      PROVE  Nowhere(run'[p].op) /\ \A q \in Procs \ {p} : run[q].op # run'[p].op
  <2>1. way = "write" BY <1>2, <1>3, <1>9 DEF Early
  <2>2. o \in Ops BY <2>1
  <2>3. QED BY <1>2, <1>3, <2>1, <2>2 DEF IInv, Unborn
<1>10. \A q \in Procs \ {p} : Early(q) => run'[p].op # run[q].op
  BY <1>1, <1>2, <1>3, RunFacts DEF Early
<1>11. UNCHANGED <<disk, saw, landed>> /\ held' = held BY DEF StartRead
<1>12. QED BY <1>3, <1>4, <1>5, <1>6, <1>7, <1>8, <1>9, <1>10, <1>11, QuietInv

LEMMA RecoverInv ==
    ASSUME IInv, NEW p \in Procs, NEW r \in Records, NEW way \in {"after", "before"},
           Recover(p, r, way)
    PROVE  IInv'
<1> DEFINE new == [Idle EXCEPT !.at = "recheck", !.way = way, !.record = r,
                               !.op = journal[r], !.dirs = Directories(r)]
<1>1. DOMAIN run = Procs /\ TypeOK BY RunFacts DEF IInv
<1>2. journal[r] \in Ops /\ about[journal[r]] = r /\ Pending(journal[r])
  BY <1>1 DEF Recover, IInv, TypeOK, Journals, Pending
<1>3. /\ new.at = "recheck" /\ new.way = way /\ new.record = r /\ new.op = journal[r]
      /\ new.dirs = Directories(r) /\ new \in Runs
  <2>1. <<>> \in Seq(Files) BY EmptySeq
  <2>2. QED BY <1>2, <2>1, DirectoryFacts DEF Idle, Runs, Ways, Locking
<1>4. run'[p] = new /\ \A q \in Procs \ {p} : run'[q] = run[q] BY <1>1 DEF Recover
<1>5. journal[r] # Nil BY <1>2, OperationFacts
<1>6. TypeOK'
  <2> HIDE DEF new
  <2>1. run' = [run EXCEPT ![p] = new] BY DEF Recover, new
  <2>2. run' \in [Procs -> Runs] BY <1>1, <1>3, <2>1 DEF TypeOK, Runs
  <2>3. \A q \in Procs : run'[q].way # "look" <=> run'[q].op # Nil
    BY <1>1, <1>3, <1>4, <1>5 DEF TypeOK
  <2>4. UNCHANGED <<disk, saw, landed, held, crashes>> BY DEF Recover
  <2>5. held' \in [Procs -> [Dirs -> {"none", "shared", "exclusive"}]]
        /\ crashes' \in 0 .. MaxCrashes
    BY <1>1, <2>4 DEF TypeOK
  <2>6. QED BY <1>1, <2>2, <2>3, <2>4, <2>5, QuietTypes
<1> HIDE DEF new
<1>7. Exclusion' BY DEF Recover, IInv, Exclusion
<1>8. Holds(p)' BY <1>3, <1>4 DEF Holds, Changing
<1>9. Shape(p)' BY <1>2, <1>3, <1>4 DEF Shape, Changing, Recover
<1>10. Progress(p)' BY <1>3, <1>4 DEF Progress, Changing
<1>11. ~Early(p)' BY <1>3, <1>4 DEF Early
<1>12. \A q \in Procs \ {p} : Early(q) => run'[p].op # run[q].op
  BY <1>2, <1>3, <1>4 DEF IInv, Unborn, Nowhere
<1>13. UNCHANGED <<disk, saw, landed>> /\ held' = held BY DEF Recover
<1>14. QED BY <1>4, <1>6, <1>7, <1>8, <1>9, <1>10, <1>11, <1>12, <1>13, QuietInv

LEMMA LockDirectoryInv ==
    ASSUME IInv, NEW p \in Procs, LockDirectory(p)
    PROVE  IInv'
<1> DEFINE d == First(run[p].dirs)
<1>1. /\ DOMAIN run = Procs /\ TypeOK /\ run[p] \in Runs /\ DOMAIN held = Procs
      /\ held[p] \in [Dirs -> {"none", "shared", "exclusive"}]
  BY RunFacts DEF IInv
<1>2. run[p].at \in Locking /\ run[p].dirs # {} BY DEF LockDirectory
<1>3. run[p].dirs \subseteq Dirs BY <1>1 DEF Runs
<1>4. d \in run[p].dirs BY <1>2, <1>3, FirstExists
<1> HIDE DEF d
<1>5. /\ Compatible(p, d)
      /\ held' = [held EXCEPT ![p][d] = Mode(p)]
      /\ run' = [run EXCEPT ![p].dirs = @ \ {d}]
      /\ UNCHANGED <<disk, saw, landed, crashes>>
  BY DEF LockDirectory, d
<1>6. /\ run'[p].at = run[p].at /\ run'[p].way = run[p].way
      /\ run'[p].record = run[p].record /\ run'[p].op = run[p].op
      /\ run'[p].dirs = run[p].dirs \ {d} /\ run'[p].files = run[p].files
      /\ run'[p] \in Runs
      /\ \A q \in Procs \ {p} : run'[q] = run[q]
  BY <1>1, <1>5 DEF Runs
<1>7. /\ held'[p][d] = Mode(p) /\ \A e \in Dirs \ {d} : held'[p][e] = held[p][e]
      /\ \A q \in Procs \ {p} : held'[q] = held[q]
  BY <1>1, <1>3, <1>4, <1>5
<1>8. Mode(p) \in {"shared", "exclusive"} BY DEF Mode
<1>9. TypeOK'
  <2>1. run' \in [Procs -> Runs] BY <1>1, <1>5, <1>6 DEF TypeOK, Runs
  <2>2. ASSUME NEW q \in Procs PROVE run'[q].way # "look" <=> run'[q].op # Nil
    <3>1. run[q].way # "look" <=> run[q].op # Nil BY <1>1, RunFacts
    <3>2. CASE q = p BY <1>6, <3>1, <3>2
    <3>3. CASE q # p BY <1>6, <3>1, <3>3
    <3>4. QED BY <3>2, <3>3
  <2>3. held' \in [Procs -> [Dirs -> {"none", "shared", "exclusive"}]]
    BY <1>1, <1>5, <1>8 DEF TypeOK
  <2>4. crashes' \in 0 .. MaxCrashes BY <1>1, <1>5 DEF TypeOK
  <2>5. QED BY <1>1, <1>5, <2>1, <2>2, <2>3, <2>4, QuietTypes
<1>10. Exclusion'
  <2>1. ASSUME NEW q \in Procs, q # p
        PROVE  /\ held[q][d] = "none" \/ (held[q][d] = "shared" /\ held'[p][d] = "shared")
               /\ held'[q][d] = held[q][d]
    BY <1>5, <1>7, <2>1 DEF Compatible
  <2>2. ASSUME NEW q \in Procs, NEW r \in Procs, q # r, NEW e \in Dirs,
               held'[q][e] = "exclusive"
        PROVE  held'[r][e] = "none"
    <3>1. CASE q # p /\ r # p BY <1>7, <2>2, <3>1 DEF IInv, Exclusion
    <3>2. CASE e # d BY <1>7, <2>2, <3>2 DEF IInv, Exclusion
    <3>3. CASE e = d /\ q = p BY <2>1, <2>2, <3>3
    <3>4. CASE e = d /\ r = p BY <2>1, <2>2, <3>4
    <3>5. QED BY <3>1, <3>2, <3>3, <3>4
  <2>3. QED BY <2>2 DEF Exclusion
<1>11. Shape(p) /\ Holds(p) /\ run[p].at \notin Changing
  BY <1>2 DEF IInv, Locking, Changing
<1>12. Directories(run[p].record) \subseteq Dirs /\ run[p].dirs \subseteq Directories(run[p].record)
  BY <1>2, <1>11, DirectoryFacts DEF Shape, Locking
<1>13. Holds(p)'
  <2>1. Mode(p)' = Mode(p) BY <1>6 DEF Mode
  <2>2. \A e \in Directories(run[p].record) \ (run[p].dirs \ {d}) : held'[p][e] = Mode(p)
    BY <1>2, <1>7, <1>11, <1>12 DEF Holds
  <2>3. QED BY <1>2, <1>6, <1>11, <2>1, <2>2 DEF Holds
<1>14. Shape(p)' BY <1>5, <1>6, <1>11, <1>12 DEF Shape
<1>15. Progress(p)' BY <1>2, <1>6 DEF Progress, Changing, Locking
<1>16. Early(p)' => Early(p) BY <1>6 DEF Early
<1>17. QED BY <1>5, <1>6, <1>7, <1>9, <1>10, <1>13, <1>14, <1>15, <1>16, QuietStepInv

-----------------------------------------------------------------------------
(* A process that moves on keeps its operation. *)

Moved(p) ==
    /\ run' \in [Procs -> Runs]
    /\ \A q \in Procs : run'[q].way # "look" <=> run'[q].op # Nil
    /\ \A q \in Procs \ {p} : run'[q] = run[q]
    /\ run'[p].way = run[p].way /\ run'[p].record = run[p].record
    /\ run'[p].op = run[p].op

LEMMA MovedToDirs ==
    ASSUME TypeOK, NEW p \in Procs, NEW at \in {"idle", "prepared"} \cup Locking \cup Changing,
           NEW D \in SUBSET Dirs, run' = [run EXCEPT ![p].at = at, ![p].dirs = D]
    PROVE  /\ Moved(p)
           /\ run'[p].at = at /\ run'[p].dirs = D /\ run'[p].files = run[p].files
<1>1. DOMAIN run = Procs /\ run \in [Procs -> Runs] BY RunFacts DEF TypeOK, Runs
<1>2. \A q \in Procs : run[q].way # "look" <=> run[q].op # Nil BY RunFacts
<1>3. /\ run'[p].at = at /\ run'[p].way = run[p].way /\ run'[p].record = run[p].record
      /\ run'[p].op = run[p].op /\ run'[p].dirs = D /\ run'[p].files = run[p].files
      /\ run'[p] \in Runs /\ \A q \in Procs \ {p} : run'[q] = run[q]
  BY <1>1 DEF Runs
<1>4. run' \in [Procs -> Runs] BY <1>1, <1>3
<1>5. \A q \in Procs : run'[q].way # "look" <=> run'[q].op # Nil BY <1>2, <1>3
<1>6. QED BY <1>3, <1>4, <1>5 DEF Moved

LEMMA MovedInDirs ==
    ASSUME TypeOK, NEW p \in Procs, NEW d, run' = [run EXCEPT ![p].dirs = @ \ {d}]
    PROVE  /\ Moved(p)
           /\ run'[p].at = run[p].at /\ run'[p].dirs = run[p].dirs \ {d}
           /\ run'[p].files = run[p].files
<1>1. DOMAIN run = Procs /\ run \in [Procs -> Runs] BY RunFacts DEF TypeOK, Runs
<1>2. \A q \in Procs : run[q].way # "look" <=> run[q].op # Nil BY RunFacts
<1>3. /\ run'[p].at = run[p].at /\ run'[p].way = run[p].way /\ run'[p].record = run[p].record
      /\ run'[p].op = run[p].op /\ run'[p].dirs = run[p].dirs \ {d}
      /\ run'[p].files = run[p].files
      /\ run'[p] \in Runs /\ \A q \in Procs \ {p} : run'[q] = run[q]
  BY <1>1 DEF Runs
<1>4. run' \in [Procs -> Runs] BY <1>1, <1>3
<1>5. \A q \in Procs : run'[q].way # "look" <=> run'[q].op # Nil BY <1>2, <1>3
<1>6. QED BY <1>3, <1>4, <1>5 DEF Moved

LEMMA MovedToFiles ==
    ASSUME TypeOK, NEW p \in Procs, NEW at \in {"idle", "prepared"} \cup Locking \cup Changing,
           NEW s \in Seq(Files), run' = [run EXCEPT ![p].at = at, ![p].files = s]
    PROVE  /\ Moved(p)
           /\ run'[p].at = at /\ run'[p].dirs = run[p].dirs /\ run'[p].files = s
<1>1. DOMAIN run = Procs /\ run \in [Procs -> Runs] BY RunFacts DEF TypeOK, Runs
<1>2. \A q \in Procs : run[q].way # "look" <=> run[q].op # Nil BY RunFacts
<1>3. /\ run'[p].at = at /\ run'[p].way = run[p].way /\ run'[p].record = run[p].record
      /\ run'[p].op = run[p].op /\ run'[p].dirs = run[p].dirs /\ run'[p].files = s
      /\ run'[p] \in Runs /\ \A q \in Procs \ {p} : run'[q] = run[q]
  BY <1>1 DEF Runs
<1>4. run' \in [Procs -> Runs] BY <1>1, <1>3
<1>5. \A q \in Procs : run'[q].way # "look" <=> run'[q].op # Nil BY <1>2, <1>3
<1>6. QED BY <1>3, <1>4, <1>5 DEF Moved

LEMMA MovedInFiles ==
    ASSUME TypeOK, NEW p \in Procs, Tail(run[p].files) \in Seq(Files),
           run' = [run EXCEPT ![p].files = Tail(@)]
    PROVE  /\ Moved(p)
           /\ run'[p].at = run[p].at /\ run'[p].dirs = run[p].dirs
           /\ run'[p].files = Tail(run[p].files)
<1>1. DOMAIN run = Procs /\ run \in [Procs -> Runs] BY RunFacts DEF TypeOK, Runs
<1>2. \A q \in Procs : run[q].way # "look" <=> run[q].op # Nil BY RunFacts
<1>3. /\ run'[p].at = run[p].at /\ run'[p].way = run[p].way /\ run'[p].record = run[p].record
      /\ run'[p].op = run[p].op /\ run'[p].dirs = run[p].dirs
      /\ run'[p].files = Tail(run[p].files)
      /\ run'[p] \in Runs /\ \A q \in Procs \ {p} : run'[q] = run[q]
  BY <1>1 DEF Runs
<1>4. run' \in [Procs -> Runs] BY <1>1, <1>3
<1>5. \A q \in Procs : run'[q].way # "look" <=> run'[q].op # Nil BY <1>2, <1>3
<1>6. QED BY <1>3, <1>4, <1>5 DEF Moved

LEMMA MovedTo ==
    ASSUME TypeOK, NEW p \in Procs, NEW at \in {"idle", "prepared"} \cup Locking \cup Changing,
           run' = [run EXCEPT ![p].at = at]
    PROVE  /\ Moved(p)
           /\ run'[p].at = at /\ run'[p].dirs = run[p].dirs
           /\ run'[p].files = run[p].files
<1>1. DOMAIN run = Procs /\ run \in [Procs -> Runs] BY RunFacts DEF TypeOK, Runs
<1>2. \A q \in Procs : run[q].way # "look" <=> run[q].op # Nil BY RunFacts
<1>3. /\ run'[p].at = at /\ run'[p].way = run[p].way /\ run'[p].record = run[p].record
      /\ run'[p].op = run[p].op /\ run'[p].dirs = run[p].dirs
      /\ run'[p].files = run[p].files
      /\ run'[p] \in Runs /\ \A q \in Procs \ {p} : run'[q] = run[q]
  BY <1>1 DEF Runs
<1>4. run' \in [Procs -> Runs] BY <1>1, <1>3
<1>5. \A q \in Procs : run'[q].way # "look" <=> run'[q].op # Nil BY <1>2, <1>3
<1>6. QED BY <1>3, <1>4, <1>5 DEF Moved

(* Of a step that moves a process on without changing a file or a lock, what is
   left is where it has come to. *)
LEMMA QuietMoveInv ==
    ASSUME IInv, NEW p \in Procs, Moved(p), UNCHANGED <<disk, saw, held, landed, crashes>>,
           Holds(p)', Shape(p)', Progress(p)', Early(p)' => Early(p)
    PROVE  IInv'
<1>1. TypeOK' BY QuietTypes DEF IInv, TypeOK, Moved
<1>2. Exclusion' BY DEF IInv, Exclusion
<1>3. QED BY <1>1, <1>2, QuietStepInv DEF Moved

LEMMA PublishInv ==
    ASSUME IInv, NEW p \in Procs, Publish(p)
    PROVE  IInv'
<1>1. Shape(p) /\ TypeOK BY DEF IInv
<1>2. run[p].record \in Records BY <1>1 DEF Publish, Shape
<1>3. Directories(run[p].record) \in SUBSET Dirs BY <1>2, DirectoryFacts
<1>4. /\ Moved(p) /\ run'[p].at = "check" /\ run'[p].dirs = Directories(run[p].record)
  <2>1. "check" \in {"idle", "prepared"} \cup Locking \cup Changing BY DEF Locking, Changing
  <2>2. run' = [run EXCEPT ![p].at = "check", ![p].dirs = Directories(run[p].record)]
    BY DEF Publish
  <2>3. QED BY <1>1, <1>3, <2>1, <2>2, MovedToDirs
<1>5. UNCHANGED <<disk, saw, held, landed, crashes>> BY DEF Publish
<1>6. Holds(p)' BY <1>4 DEF Holds, Moved, Changing
<1>7. Shape(p)' BY <1>1, <1>4, <1>5 DEF Publish, Shape, Moved, Changing
<1>8. Progress(p)' BY <1>4 DEF Progress, Changing
<1>9. Early(p) BY <1>1 DEF Publish, Shape, Early
<1>10. QED BY <1>4, <1>5, <1>6, <1>7, <1>8, <1>9, QuietMoveInv

LEMMA AppliedInv ==
    ASSUME IInv, NEW p \in Procs, Applied(p)
    PROVE  IInv'
<1>1. Holds(p) /\ Shape(p) /\ Progress(p) /\ TypeOK BY DEF IInv
<1>2. run[p].at = "apply" /\ run[p].at \in Changing BY DEF Applied, Changing
<1>3. run[p].record \in Records BY <1>1, <1>2 DEF Shape, Changing
<1>4. Replicas(run[p].record) \in SUBSET Dirs BY <1>3, DirectoryFacts
<1>5. /\ Moved(p) /\ run'[p].at = "unguard" /\ run'[p].dirs = Replicas(run[p].record)
  <2>1. "unguard" \in {"idle", "prepared"} \cup Locking \cup Changing BY DEF Locking, Changing
  <2>2. run' = [run EXCEPT ![p].at = "unguard", ![p].dirs = Replicas(run[p].record)]
    BY DEF Applied
  <2>3. QED BY <1>1, <1>4, <2>1, <2>2, MovedToDirs
<1>6. UNCHANGED <<content, journal, guard, ready, saw, held, landed>> BY DEF Applied, disk
<1>7. Holds(p)' BY <1>1, <1>2, <1>5, <1>6 DEF Holds, Moved, Locking
<1>8. Shape(p)'
  BY <1>1, <1>2, <1>3, <1>5, <1>6, DirectoryFacts DEF Shape, Moved, Changing
<1>9. run[p].op \in landed \/ \A f \in Touched(run[p].op) : content[f] = saw[run[p].op][f]
  <2>1. Rest(run[p].files) = {} BY DEF Applied, Rest
  <2>2. CASE run[p].way = "before"
    BY <1>1, <1>2, <2>1, <2>2 DEF Progress, Image
  <2>3. CASE run[p].way # "before"
    BY <1>1, <1>2, <2>3 DEF Progress, Applied
  <2>4. QED BY <2>2, <2>3
<1>10. Progress(p)'
  BY <1>1, <1>2, <1>5, <1>6, <1>9 DEF Progress, Moved
<1>11. ~Early(p)' BY <1>5 DEF Early
<1>12. QED BY <1>5, <1>7, <1>8, <1>10, <1>11, QuietMoveInv DEF Applied

LEMMA CancelInv ==
    ASSUME IInv, NEW p \in Procs, Cancel(p)
    PROVE  IInv'
<1>1. Shape(p) /\ TypeOK BY DEF IInv
<1>2. Owns(p) BY DEF Cancel, Inside, Owns
<1>3. /\ run[p].op \in Ops /\ run[p].record \in Records /\ run[p].record = about[run[p].op]
      /\ \A d \in Directories(run[p].record) : held[p][d] = "exclusive"
  BY <1>2, OwnsFacts
<1>4. Replicas(run[p].record) \in SUBSET Dirs BY <1>3, DirectoryFacts
<1>5. /\ Moved(p) /\ run'[p].at = "unguard" /\ run'[p].dirs = Replicas(run[p].record)
  <2>1. "unguard" \in {"idle", "prepared"} \cup Locking \cup Changing BY DEF Locking, Changing
  <2>2. run' = [run EXCEPT ![p].at = "unguard", ![p].dirs = Replicas(run[p].record)]
    BY DEF Cancel
  <2>3. QED BY <1>1, <1>4, <2>1, <2>2, MovedToDirs
<1>6. UNCHANGED <<content, journal, guard, ready, saw, held, landed>> BY DEF Cancel, disk
<1>7. Holds(p)' BY <1>3, <1>5, <1>6 DEF Holds, Moved, Locking
<1>8. Shape(p)'
  BY <1>3, <1>5, DirectoryFacts, OperationFacts DEF Shape, Moved, Changing
<1>9. \A f \in Touched(run[p].op) : content[f] = saw[run[p].op][f]
  BY <1>3, OperationFacts DEF Cancel, AsSeen
<1>10. journal[run[p].record] = run[p].op BY DEF Cancel
<1>11. Progress(p)' BY <1>5, <1>6, <1>9, <1>10 DEF Progress, Moved
<1>12. ~Early(p)' BY <1>5 DEF Early
<1>13. QED BY <1>5, <1>7, <1>8, <1>11, <1>12, QuietMoveInv DEF Cancel

LEMMA RecoverCheckInv ==
    ASSUME IInv, NEW p \in Procs, RecoverCheck(p)
    PROVE  IInv'
<1>1. Shape(p) /\ TypeOK BY DEF IInv
<1>2. Owns(p) BY DEF RecoverCheck, Inside, Owns
<1>3. /\ run[p].op \in Ops /\ run[p].record \in Records /\ run[p].record = about[run[p].op]
      /\ \A d \in Directories(run[p].record) : held[p][d] = "exclusive"
  BY <1>2, OwnsFacts
<1>4. Replicas(run[p].record) \in SUBSET Dirs BY <1>3, DirectoryFacts
<1>5. /\ Moved(p) /\ run'[p].at = "guards" /\ run'[p].dirs = Replicas(run[p].record)
  <2>1. "guards" \in {"idle", "prepared"} \cup Locking \cup Changing BY DEF Locking, Changing
  <2>2. run' = [run EXCEPT ![p].at = "guards", ![p].dirs = Replicas(run[p].record)]
    BY DEF RecoverCheck, Guarding
  <2>3. QED BY <1>1, <1>4, <2>1, <2>2, MovedToDirs
<1>6. UNCHANGED <<content, journal, guard, ready, saw, held, landed>> BY DEF RecoverCheck, disk
<1>7. Holds(p)' BY <1>3, <1>5, <1>6 DEF Holds, Moved, Locking
<1>8. Shape(p)'
  BY <1>3, <1>5, DirectoryFacts, OperationFacts DEF Shape, Moved, Changing
<1>9. \A f \in Touched(run[p].op) : content[f] \in {saw[run[p].op][f], run[p].op}
  BY <1>3, OperationFacts DEF RecoverCheck, Untangled
<1>10. journal[run[p].record] = run[p].op BY DEF RecoverCheck
<1>11. Progress(p)' BY <1>5, <1>6, <1>9, <1>10 DEF Progress, Moved
<1>12. ~Early(p)' BY <1>5 DEF Early
<1>13. QED BY <1>5, <1>7, <1>8, <1>11, <1>12, QuietMoveInv DEF RecoverCheck

-----------------------------------------------------------------------------
(* Steps that change journals, guards and markers of the own operation. *)

LEMMA JournalStepInv ==
    ASSUME IInv, NEW p \in Procs, Owns(p), UNCHANGED <<content, saw, landed>>,
           \A q \in Procs \ {p} : run'[q] = run[q] /\ held'[q] = held[q],
           \A r \in Records \ {run[p].record} : journal'[r] = journal[r],
           journal'[run[p].record] \in {run[p].op, Nil}, saw[run[p].op] # Nil,
           \A o \in Ops \ {run[p].op} :
               /\ \A d \in Dirs : o \in guard'[d] <=> o \in guard[d]
               /\ o \in ready' <=> o \in ready,
           run'[p].op \in {run[p].op, Nil}, ~Early(p)',
           TypeOK', Exclusion', Holds(p)', Shape(p)', Progress(p)',
           \A o \in Ops : o = run[p].op /\ Pending(o)' /\ o \notin landed /\ ~Guarded(o)' =>
               \A f \in Touched(o) : Clear(f, content[f], o)
    PROVE  IInv'
<1>1. /\ run[p].op \in Ops /\ run[p].record \in Records
      /\ run[p].record = about[run[p].op] /\ run[p].op # Nil /\ TypeOK
  BY OwnsFacts, OperationFacts DEF IInv
<1>2. \A q \in Procs : Holds(q)' /\ Shape(q)' /\ Progress(q)'
  <2>1. ASSUME NEW q \in Procs, q # p PROVE Holds(q)' /\ Shape(q)' /\ Progress(q)'
    <3>1. Holds(q)' BY <2>1, HoldsStays DEF IInv
    <3>2. Shape(q)' BY <2>1, ShapeStays DEF IInv
    <3>3. Progress(q)'
      <4>1. Shape(q) /\ Progress(q) /\ run'[q] = run[q] BY <2>1 DEF IInv
      <4>2. CASE run[q].at \in Changing
        <5>1. Owns(q) BY <4>2 DEF Owns
        <5>2. run[q].record # run[p].record /\ run[q].op # run[p].op
          BY <2>1, <5>1, Apart
        <5>3. run[q].record \in Records /\ run[q].op \in Ops BY <5>1, OwnsFacts
        <5>4. Replicas(run[q].record) \subseteq Dirs BY <5>3, DirectoryFacts
        <5>5. journal'[run[q].record] = journal[run[q].record] BY <5>2, <5>3
        <5>6. /\ \A d \in Replicas(run[q].record) :
                     run[q].op \in guard[d] => run[q].op \in guard'[d]
              /\ run[q].op \in ready => run[q].op \in ready'
          BY <5>2, <5>3, <5>4
        <5>7. QED BY <4>1, <5>5, <5>6, ProgressStays
      <4>3. CASE run[q].at \notin Changing BY <4>1, <4>3, ProgressStays
      <4>4. QED BY <4>2, <4>3
    <3>4. QED BY <3>1, <3>2, <3>3
  <2>2. QED BY <2>1
<1>3. ASSUME NEW o \in Ops, o # run[p].op
      PROVE  /\ Pending(o)' => Pending(o)
             /\ Guarded(o)' <=> Guarded(o)
             /\ Nowhere(o) => Nowhere(o)'
  <2>1. about[o] \in Records /\ Replicas(about[o]) \subseteq Dirs /\ o # Nil
    BY OperationFacts, DirectoryFacts
  <2>2. Pending(o)' => Pending(o) BY <1>3, <2>1 DEF Pending
  <2>3. Guarded(o)' <=> Guarded(o) BY <1>3, <2>1 DEF Guarded
  <2>4. Nowhere(o) => Nowhere(o)' BY <2>2 DEF Nowhere
  <2>5. QED BY <2>2, <2>3, <2>4
<1>4. Unborn'
  <2>1. \A o \in Ops : saw'[o] = Nil => Nowhere(o)' BY <1>3 DEF IInv, Unborn
  <2>2. ASSUME NEW q \in Procs, Early(q)'
        PROVE  /\ q # p /\ Early(q) /\ run'[q].op = run[q].op
               /\ run[q].op \in Ops /\ run[q].op # run[p].op
    <3>1. q # p BY <2>2
    <3>2. Early(q) /\ run'[q].op = run[q].op BY <2>2, <3>1 DEF Early
    <3>3. run[q].op \in Ops BY <1>1, <3>2, RunFacts DEF Early
    <3>4. run[q].op # run[p].op BY <3>1, <3>2 DEF IInv, Unborn
    <3>5. QED BY <3>1, <3>2, <3>3, <3>4
  <2>3. ASSUME NEW q \in Procs, Early(q)' PROVE Nowhere(run[q].op)'
    <3>1. Nowhere(run[q].op) BY <2>2, <2>3 DEF IInv, Unborn
    <3>2. QED BY <1>1, <1>3, <2>2, <2>3, <3>1 DEF Nowhere, Pending
  <2>4. ASSUME NEW q \in Procs, NEW r \in Procs, q # r, Early(q)'
        PROVE  run'[r].op # run'[q].op
    <3>1. CASE r = p BY <2>2, <2>4, <3>1, OperationFacts
    <3>2. CASE r # p BY <2>2, <2>4, <3>2 DEF IInv, Unborn
    <3>3. QED BY <3>1, <3>2
  <2>5. QED BY <2>1, <2>3, <2>4 DEF Unborn
<1>5. Journals' BY <1>1 DEF IInv, Journals
<1>6. Ordered' BY DEF IInv, Ordered, Clear
<1>7. Hidden'
  <2>1. ASSUME NEW o \in Ops, Pending(o)', o \notin landed', ~Guarded(o)'
        PROVE  \A f \in Touched(o) : Clear(f, content[f], o)
    <3>1. CASE o = run[p].op BY <2>1, <3>1
    <3>2. CASE o # run[p].op BY <1>3, <2>1, <3>2 DEF IInv, Hidden
    <3>3. QED BY <3>1, <3>2
  <2>2. QED BY <2>1 DEF Hidden, Clear
<1>8. QED BY <1>2, <1>4, <1>5, <1>6, <1>7 DEF IInv

(* What was read is not above the operation that read it. *)
LEMMA AsReadIsClear ==
    ASSUME IInv, NEW o \in Ops, saw[o] # Nil,
           \A f \in Touched(o) : content[f] = saw[o][f]
    PROVE  \A f \in Touched(o) : Clear(f, content[f], o)
BY OperationFacts DEF IInv, Ordered

LEMMA MoveTypes ==
    ASSUME TypeOK, NEW p \in Procs, Moved(p), UNCHANGED <<content, saw, held, landed, crashes>>,
           journal' \in [Records -> Ops \cup {Nil}], guard' \in [Dirs -> SUBSET Ops],
           ready' \subseteq Ops
    PROVE  TypeOK'
<1>1. \A o \in Ops : saw'[o] = Nil \/ saw'[o] \in [members[about[o]] -> Contents]
  BY DEF TypeOK
<1>2. QED BY <1>1 DEF TypeOK, Runs, Moved

LEMMA WriteJournalInv ==
    ASSUME IInv, NEW p \in Procs, WriteJournal(p)
    PROVE  IInv'
<1> DEFINE o == run[p].op
<1>1. Shape(p) /\ TypeOK BY DEF IInv
<1>2. Owns(p) /\ run[p].at = "check" BY DEF WriteJournal, Inside, Owns
<1>3. /\ o \in Ops /\ run[p].record \in Records /\ run[p].record = about[o]
      /\ \A d \in Directories(run[p].record) : held[p][d] = "exclusive"
  BY <1>2, OwnsFacts
<1>4. Replicas(run[p].record) \in SUBSET Dirs BY <1>3, DirectoryFacts
<1>5. /\ Moved(p) /\ run'[p].at = "guards" /\ run'[p].dirs = Replicas(run[p].record)
  <2>1. "guards" \in {"idle", "prepared"} \cup Locking \cup Changing BY DEF Changing
  <2>2. run' = [run EXCEPT ![p].at = "guards", ![p].dirs = Replicas(run[p].record)]
    BY DEF WriteJournal, Guarding
  <2>3. QED BY <1>1, <1>4, <2>1, <2>2, MovedToDirs
<1>6. /\ UNCHANGED <<content, guard, ready, saw, held, landed, crashes>>
      /\ journal' = [journal EXCEPT ![run[p].record] = o]
  BY DEF WriteJournal
<1>7. DOMAIN journal = Records BY <1>1 DEF TypeOK
<1>8. saw[o] # Nil BY <1>1, <1>2 DEF Shape
<1>9. \A f \in Touched(o) : content[f] = saw[o][f]
  BY <1>3, OperationFacts DEF WriteJournal, AsSeen
<1>10. TypeOK'
  <2>1. journal' \in [Records -> Ops \cup {Nil}] BY <1>1, <1>3, <1>6 DEF TypeOK
  <2>2. guard' \in [Dirs -> SUBSET Ops] /\ ready' \subseteq Ops BY <1>1, <1>6 DEF TypeOK
  <2>3. QED BY <1>1, <1>5, <1>6, <2>1, <2>2, MoveTypes
<1>11. Exclusion' BY <1>6 DEF IInv, Exclusion
<1>12. Holds(p)' BY <1>3, <1>5, <1>6 DEF Holds, Moved, Locking
<1>13. Shape(p)'
  BY <1>3, <1>5, DirectoryFacts, OperationFacts DEF Shape, Moved, Changing
<1>14. Progress(p)' BY <1>3, <1>5, <1>6, <1>7, <1>9 DEF Progress, Moved
<1>15. ~Early(p)' BY <1>5 DEF Early
<1>16. \A f \in Touched(o) : Clear(f, content[f], o) BY <1>3, <1>8, <1>9, AsReadIsClear
<1>17. /\ \A r \in Records \ {run[p].record} : journal'[r] = journal[r]
       /\ journal'[run[p].record] = o
  BY <1>3, <1>6, <1>7
<1>18. QED
  BY <1>2, <1>5, <1>6, <1>8, <1>10, <1>11, <1>12, <1>13, <1>14, <1>15, <1>16, <1>17,
     JournalStepInv DEF Moved

LEMMA WriteGuardInv ==
    ASSUME IInv, NEW p \in Procs, WriteGuard(p)
    PROVE  IInv'
<1> DEFINE o == run[p].op
           d == First(run[p].dirs)
<1>1. Holds(p) /\ Shape(p) /\ Progress(p) /\ TypeOK BY DEF IInv
<1>2. Owns(p) /\ run[p].at = "guards" /\ run[p].at \in Changing
  BY DEF WriteGuard, Owns, Changing
<1>3. /\ o \in Ops /\ run[p].record \in Records /\ run[p].record = about[o]
  BY <1>2, OwnsFacts
<1>4. run[p].dirs \subseteq Directories(run[p].record) BY <1>1, <1>2 DEF Shape, Changing
<1>5. d \in run[p].dirs /\ d \in Dirs
  BY <1>3, <1>4, DirectoryFacts, FirstExists DEF WriteGuard
<1> HIDE DEF d
<1>6. /\ guard' = [guard EXCEPT ![d] = @ \cup {o}]
      /\ run' = [run EXCEPT ![p].dirs = @ \ {d}]
      /\ UNCHANGED <<content, journal, ready, saw, held, landed, crashes>>
  BY DEF WriteGuard, d
<1>7. /\ Moved(p) /\ run'[p].at = "guards" /\ run'[p].dirs = run[p].dirs \ {d}
  BY <1>1, <1>2, <1>6, MovedInDirs
<1>8. DOMAIN guard = Dirs /\ guard \in [Dirs -> SUBSET Ops] BY <1>1 DEF TypeOK
<1>9. journal[run[p].record] = o /\ saw[o] # Nil
  BY <1>1, <1>2, <1>3, OperationFacts DEF Progress, IInv, Journals
<1>10. TypeOK'
  <2>1. journal' \in [Records -> Ops \cup {Nil}] /\ ready' \subseteq Ops BY <1>1, <1>6 DEF TypeOK
  <2>2. guard' \in [Dirs -> SUBSET Ops] BY <1>3, <1>6, <1>8
  <2>3. QED BY <1>1, <1>6, <1>7, <2>1, <2>2, MoveTypes
<1>11. Exclusion' BY <1>6 DEF IInv, Exclusion
<1>12. Holds(p)' BY <1>1, <1>2, <1>6, <1>7 DEF Holds, Moved, Locking
<1>13. Shape(p)' BY <1>1, <1>2, <1>6, <1>7 DEF Shape, Moved, Changing
<1>14. \A e \in Dirs : guard[e] \subseteq guard'[e] BY <1>6, <1>8
<1>15. o \in guard'[d] BY <1>5, <1>6, <1>8
<1>16. Replicas(run[p].record) \subseteq Dirs BY <1>3, DirectoryFacts
<1>17. Progress(p)'
  <2>1. \A e \in Replicas(run[p].record) \ run'[p].dirs : o \in guard'[e]
    BY <1>1, <1>2, <1>7, <1>14, <1>15, <1>16 DEF Progress
  <2>2. \A f \in Touched(o) : content[f] \in {saw[o][f], o} BY <1>1, <1>2 DEF Progress
  <2>3. QED BY <1>6, <1>7, <1>9, <2>1, <2>2 DEF Progress, Moved
<1>18. ~Early(p)' BY <1>7 DEF Early
<1>19. ASSUME NEW u \in Ops, u = o, Guarded(u) PROVE Guarded(u)'
  BY <1>3, <1>6, <1>14, <1>16, <1>19 DEF Guarded
<1>20. ASSUME NEW u \in Ops, u = o, Pending(u)', u \notin landed, ~Guarded(u)'
       PROVE  \A f \in Touched(u) : Clear(f, content[f], u)
  BY <1>6, <1>19, <1>20 DEF IInv, Hidden, Pending
<1>21. \A u \in Ops \ {o} : \A e \in Dirs : u \in guard'[e] <=> u \in guard[e]
  BY <1>6, <1>8
<1>22. QED
  BY <1>2, <1>6, <1>7, <1>9, <1>10, <1>11, <1>12, <1>13, <1>17, <1>18, <1>20, <1>21,
     JournalStepInv DEF Moved

LEMMA WriteReadyInv ==
    ASSUME IInv, NEW p \in Procs, WriteReady(p)
    PROVE  IInv'
<1> DEFINE o == run[p].op
<1>1. Holds(p) /\ Shape(p) /\ Progress(p) /\ TypeOK BY DEF IInv
<1>2. Owns(p) /\ run[p].at = "guards" /\ run[p].dirs = {} /\ run[p].at \in Changing
  BY DEF WriteReady, Owns, Changing
<1>3. /\ o \in Ops /\ run[p].record \in Records /\ run[p].record = about[o]
  BY <1>2, OwnsFacts
<1>4. images[o] \in Seq(Files) /\ Rest(images[o]) = Touched(o)
  BY <1>3, OperationFacts, TouchedIsRest
<1>5. /\ Moved(p) /\ run'[p].at = "apply" /\ run'[p].dirs = run[p].dirs
      /\ run'[p].files = images[o]
  <2>1. "apply" \in {"idle", "prepared"} \cup Locking \cup Changing BY DEF Changing
  <2>2. run' = [run EXCEPT ![p].at = "apply", ![p].files = images[o]]
    BY DEF WriteReady, Applying
  <2>3. images[o] \in Seq(Files) /\ TypeOK BY <1>1, <1>4
  <2> DEFINE s == images[o]
             at == "apply"
  <2>4. /\ s \in Seq(Files) /\ run' = [run EXCEPT ![p].at = at, ![p].files = s]
        /\ at \in {"idle", "prepared"} \cup Locking \cup Changing
    BY <2>1, <2>2, <2>3
  <2> HIDE DEF s, at
  <2>5. /\ Moved(p) /\ run'[p].at = at /\ run'[p].dirs = run[p].dirs
        /\ run'[p].files = s
    BY <2>3, <2>4, MovedToFiles
  <2>6. QED BY <2>5 DEF s, at
<1>6. /\ ready' = IF Replicas(run[p].record) = {} THEN ready ELSE ready \cup {o}
      /\ UNCHANGED <<content, journal, guard, saw, held, landed, crashes>>
  BY DEF WriteReady
<1>7. journal[run[p].record] = o /\ saw[o] # Nil
  BY <1>1, <1>2, <1>3, OperationFacts DEF Progress, IInv, Journals
<1>8. TypeOK'
  <2>1. /\ journal' \in [Records -> Ops \cup {Nil}] /\ guard' \in [Dirs -> SUBSET Ops]
        /\ ready' \subseteq Ops
    BY <1>1, <1>3, <1>6 DEF TypeOK
  <2>2. QED BY <1>1, <1>5, <1>6, <2>1, MoveTypes
<1>9. Exclusion' BY <1>6 DEF IInv, Exclusion
<1>10. Holds(p)' BY <1>1, <1>2, <1>5, <1>6 DEF Holds, Moved, Locking, Changing
<1>11. Shape(p)' BY <1>1, <1>2, <1>5, <1>6 DEF Shape, Moved, Changing
<1>12. ASSUME NEW u \in Ops, u = o PROVE Guarded(u)'
  <2>1. \A d \in Replicas(about[u]) : u \in guard[d] BY <1>1, <1>2, <1>3, <1>12 DEF Progress
  <2>2. QED BY <1>3, <1>6, <1>12, <2>1 DEF Guarded
<1>13. Progress(p)'
  <2>1. Touched(o) # {} BY <1>3, OperationFacts
  <2>2. images[o] # <<>> BY <1>4, <2>1 DEF Rest
  <2>3. \A f \in Touched(o) : content[f] \in {saw[o][f], o} BY <1>1, <1>2 DEF Progress
  <2>4. run'[p].op = o /\ run'[p].record = run[p].record BY <1>5 DEF Moved
  <2>5. Guarded(run[p].op)' BY <1>3, <1>12, <2>4 DEF Guarded
  <2>6. QED BY <1>4, <1>5, <1>6, <1>7, <2>2, <2>3, <2>4, <2>5 DEF Progress
<1>14. ~Early(p)' BY <1>5 DEF Early
<1>15. \A u \in Ops \ {o} : u \in ready' <=> u \in ready BY <1>6
<1>16. QED
  BY <1>2, <1>5, <1>6, <1>7, <1>8, <1>9, <1>10, <1>11, <1>12, <1>13, <1>14, <1>15,
     JournalStepInv DEF Moved

(* What a process that removes guards and marker knows of its operation. *)
LEMMA Settled ==
    ASSUME IInv, NEW p \in Procs, run[p].at \in Changing \ {"guards", "apply"}
    PROVE  /\ Owns(p) /\ run[p].op \in Ops /\ run[p].record \in Records
           /\ run[p].record = about[run[p].op]
           /\ journal[run[p].record] = run[p].op /\ saw[run[p].op] # Nil
           /\ \A o \in Ops : o = run[p].op /\ o \notin landed =>
                  \A f \in Touched(o) : Clear(f, content[f], o)
<1>1. Progress(p) /\ Owns(p) /\ run[p].at \in Changing BY DEF IInv, Owns
<1>2. run[p].op \in Ops /\ run[p].record \in Records /\ run[p].record = about[run[p].op]
  BY <1>1, OwnsFacts
<1>3. journal[run[p].record] = run[p].op /\ saw[run[p].op] # Nil
  BY <1>1, <1>2, OperationFacts DEF Progress, IInv, Journals
<1>4. run[p].op \notin landed => \A f \in Touched(run[p].op) : content[f] = saw[run[p].op][f]
  BY <1>1 DEF Progress
<1>5. QED BY <1>1, <1>2, <1>3, <1>4, AsReadIsClear

LEMMA RemoveGuardInv ==
    ASSUME IInv, NEW p \in Procs, RemoveGuard(p)
    PROVE  IInv'
<1> DEFINE o == run[p].op
           d == First(run[p].dirs)
<1>1. Holds(p) /\ Shape(p) /\ Progress(p) /\ TypeOK BY DEF IInv
<1>2. run[p].at = "unguard" /\ run[p].at \in Changing \ {"guards", "apply"}
  BY DEF RemoveGuard, Changing
<1>3. /\ Owns(p) /\ o \in Ops /\ run[p].record \in Records
      /\ run[p].record = about[o] /\ journal[run[p].record] = o /\ saw[o] # Nil
      /\ \A u \in Ops : u = o /\ u \notin landed => \A f \in Touched(u) : Clear(f, content[f], u)
  BY <1>2, Settled
<1> HIDE DEF d
<1>4. /\ guard' = [guard EXCEPT ![d] = @ \ {o}]
      /\ run' = [run EXCEPT ![p].dirs = @ \ {d}]
      /\ UNCHANGED <<content, journal, ready, saw, held, landed, crashes>>
  BY DEF RemoveGuard, d
<1>5. /\ Moved(p) /\ run'[p].at = "unguard" /\ run'[p].dirs = run[p].dirs \ {d}
  BY <1>1, <1>2, <1>4, MovedInDirs
<1>6. DOMAIN guard = Dirs /\ guard \in [Dirs -> SUBSET Ops] BY <1>1 DEF TypeOK
<1>7. TypeOK'
  <2>1. journal' \in [Records -> Ops \cup {Nil}] /\ ready' \subseteq Ops BY <1>1, <1>4 DEF TypeOK
  <2>2. guard' \in [Dirs -> SUBSET Ops] BY <1>4, <1>6
  <2>3. QED BY <1>1, <1>4, <1>5, <2>1, <2>2, MoveTypes
<1>8. Exclusion' BY <1>4 DEF IInv, Exclusion
<1>9. Holds(p)' BY <1>1, <1>2, <1>4, <1>5 DEF Holds, Moved, Locking
<1>10. Shape(p)' BY <1>1, <1>2, <1>4, <1>5 DEF Shape, Moved, Changing
<1>11. Progress(p)' BY <1>1, <1>2, <1>4, <1>5 DEF Progress, Moved
<1>12. ~Early(p)' BY <1>5 DEF Early
<1>13. \A u \in Ops \ {o} : \A e \in Dirs : u \in guard'[e] <=> u \in guard[e]
  BY <1>4, <1>6
<1>14. QED
  BY <1>3, <1>4, <1>5, <1>7, <1>8, <1>9, <1>10, <1>11, <1>12, <1>13,
     JournalStepInv DEF Moved

LEMMA RemoveReadyInv ==
    ASSUME IInv, NEW p \in Procs, RemoveReady(p)
    PROVE  IInv'
<1> DEFINE o == run[p].op
<1>1. Holds(p) /\ Shape(p) /\ Progress(p) /\ TypeOK BY DEF IInv
<1>2. run[p].at = "unguard" /\ run[p].at \in Changing \ {"guards", "apply"}
  BY DEF RemoveReady, Inside, Changing
<1>3. /\ Owns(p) /\ o \in Ops /\ run[p].record \in Records
      /\ run[p].record = about[o] /\ journal[run[p].record] = o /\ saw[o] # Nil
      /\ \A u \in Ops : u = o /\ u \notin landed => \A f \in Touched(u) : Clear(f, content[f], u)
  BY <1>2, Settled
<1>4. /\ ready' = ready \ {o}
      /\ run' = [run EXCEPT ![p].at = "close"]
      /\ UNCHANGED <<content, journal, guard, saw, held, landed, crashes>>
  BY DEF RemoveReady
<1>5. /\ Moved(p) /\ run'[p].at = "close" /\ run'[p].dirs = run[p].dirs
  <2>1. "close" \in {"idle", "prepared"} \cup Locking \cup Changing BY DEF Changing
  <2>2. QED BY <1>1, <1>4, <2>1, MovedTo
<1>6. TypeOK'
  <2>1. /\ journal' \in [Records -> Ops \cup {Nil}] /\ guard' \in [Dirs -> SUBSET Ops]
        /\ ready' \subseteq Ops
    BY <1>1, <1>4 DEF TypeOK
  <2>2. QED BY <1>1, <1>4, <1>5, <2>1, MoveTypes
<1>7. Exclusion' BY <1>4 DEF IInv, Exclusion
<1>8. Holds(p)' BY <1>1, <1>2, <1>4, <1>5 DEF Holds, Moved, Locking, Changing
<1>9. Shape(p)' BY <1>1, <1>2, <1>4, <1>5 DEF Shape, Moved, Changing
<1>10. Progress(p)' BY <1>1, <1>2, <1>4, <1>5 DEF Progress, Moved
<1>11. ~Early(p)' BY <1>5 DEF Early
<1>12. \A u \in Ops \ {o} : u \in ready' <=> u \in ready BY <1>4
<1>13. QED
  BY <1>3, <1>4, <1>5, <1>6, <1>7, <1>8, <1>9, <1>10, <1>11, <1>12,
     JournalStepInv DEF Moved

LEMMA RemoveJournalInv ==
    ASSUME IInv, NEW p \in Procs, RemoveJournal(p)
    PROVE  IInv'
<1> DEFINE o == run[p].op
<1>1. DOMAIN run = Procs /\ TypeOK BY RunFacts DEF IInv
<1>2. run[p].at = "close" /\ run[p].at \in Changing \ {"guards", "apply"}
  BY DEF RemoveJournal, Changing
<1>3. /\ Owns(p) /\ o \in Ops /\ run[p].record \in Records
      /\ run[p].record = about[o] /\ journal[run[p].record] = o /\ saw[o] # Nil
      /\ \A u \in Ops : u = o /\ u \notin landed => \A f \in Touched(u) : Clear(f, content[f], u)
  BY <1>2, Settled
<1>4. /\ journal' = [journal EXCEPT ![run[p].record] = Nil]
      /\ run' = [run EXCEPT ![p] = Idle] /\ held' = [held EXCEPT ![p] = NoLocks]
      /\ UNCHANGED <<content, guard, ready, saw, landed, crashes>>
  BY DEF RemoveJournal, Leave
<1>5. run'[p] = Idle /\ \A q \in Procs \ {p} : run'[q] = run[q] BY <1>1, <1>4
<1>6. \A q \in Procs \ {p} : held'[q] = held[q] BY <1>1, <1>4, RunFacts
<1>7. Exclusion' /\ held' \in [Procs -> [Dirs -> {"none", "shared", "exclusive"}]]
  BY <1>4, LeaveExclusion DEF IInv
<1>8. TypeOK'
  <2>1. run' \in [Procs -> Runs] BY <1>1, <1>4, IdleRun DEF TypeOK, Runs
  <2>2. \A q \in Procs : run'[q].way # "look" <=> run'[q].op # Nil
    <3>1. \A q \in Procs : run[q].way # "look" <=> run[q].op # Nil BY <1>1, RunFacts
    <3>2. Idle.way = "look" /\ Idle.op = Nil BY DEF Idle
    <3>3. QED BY <1>5, <3>1, <3>2
  <2>3. journal' \in [Records -> Ops \cup {Nil}] BY <1>1, <1>4 DEF TypeOK
  <2>4. \A u \in Ops : saw'[u] = Nil \/ saw'[u] \in [members[about[u]] -> Contents]
    BY <1>1, <1>4 DEF TypeOK
  <2>5. QED BY <1>1, <1>4, <1>7, <2>1, <2>2, <2>3, <2>4 DEF TypeOK, Runs
<1>9. Holds(p)' /\ Shape(p)' /\ Progress(p)' /\ ~Early(p)'
  BY <1>5 DEF Holds, Shape, Progress, Early, Idle, Locking, Changing
<1>10. DOMAIN journal = Records BY <1>1 DEF TypeOK
<1>11. /\ \A r \in Records \ {run[p].record} : journal'[r] = journal[r]
       /\ journal'[run[p].record] = Nil
  BY <1>3, <1>4, <1>10
<1>12. run'[p].op = Nil BY <1>5 DEF Idle
<1>13. QED
  BY <1>3, <1>4, <1>5, <1>6, <1>7, <1>8, <1>9, <1>11, <1>12, JournalStepInv

-----------------------------------------------------------------------------
(* What was nowhere is above nothing: it may be read over without harm. *)
LEMMA ClearStays ==
    ASSUME TypeOK, NEW o \in Ops, Nowhere(o), NEW f \in Files, NEW c, c # o,
           \A w \in Ops \ {o} : saw'[w] = saw[w],
           NEW u \in Ops, Clear(f, c, u)
    PROVE  Clear(f, c, u)'
<1>1. PICK S \in SUBSET Contents :
          /\ c \in S /\ u \notin S
          /\ \A w \in S \cap Ops :
                 saw[w] # Nil /\ f \in members[about[w]] => saw[w][f] \in S
  BY DEF Clear
<1>2. ASSUME NEW w \in (S \ {o}) \cap Ops, saw'[w] # Nil, f \in members[about[w]]
      PROVE  saw'[w][f] \in S \ {o}
  <2>1. saw'[w] = saw[w] /\ saw[w] # Nil BY <1>2
  <2>2. saw[w][f] \in S BY <1>1, <1>2, <2>1
  <2>3. saw[w][f] # o BY <1>2, <2>1 DEF Nowhere
  <2>4. QED BY <2>1, <2>2, <2>3
<1>3. S \ {o} \in SUBSET Contents' /\ c \in S \ {o} /\ u \notin S \ {o} BY <1>1 DEF Contents
<1>4. QED BY <1>2, <1>3 DEF Clear

LEMMA PrepareInv ==
    ASSUME IInv, NEW p \in Procs, Prepare(p)
    PROVE  IInv'
<1>0. PICK o : o = run[p].op OBVIOUS
<1>1. Shape(p) /\ TypeOK /\ DOMAIN run = Procs /\ DOMAIN held = Procs /\ DOMAIN saw = Ops
  BY RunFacts DEF IInv, TypeOK
<1>2. run[p].at = "read" /\ run[p].way = "write" /\ Early(p)
  BY DEF Prepare, Inside, Early
<1>3. /\ o \in Ops /\ run[p].record \in Records /\ run[p].record = about[o] /\ saw[o] = Nil
      /\ o # Nil
  BY <1>0, <1>1, <1>2, RunFacts, OperationFacts DEF Shape
<1>4. Nowhere(o) /\ \A q \in Procs \ {p} : run[q].op # o
  BY <1>0, <1>2 DEF IInv, Unborn
<1>5. /\ saw' = [saw EXCEPT ![o] = [f \in members[about[o]] |-> content[f]]]
      /\ run' = [run EXCEPT ![p].at = "prepared"]
      /\ held' = [held EXCEPT ![p] = NoLocks]
      /\ UNCHANGED <<content, journal, guard, ready, landed, crashes>>
  BY <1>0, <1>3 DEF Prepare, disk
<1>6. /\ Moved(p) /\ run'[p].at = "prepared" /\ run'[p].dirs = run[p].dirs
  <2>1. "prepared" \in {"idle", "prepared"} \cup Locking \cup Changing OBVIOUS
  <2>2. QED BY <1>1, <1>5, <2>1, MovedTo
<1>7. members[about[o]] \subseteq Files BY <1>3, DirectoryFacts
<1>8. /\ \A f \in members[about[o]] : saw'[o][f] = content[f]
      /\ \A w \in Ops \ {o} : saw'[w] = saw[w]
      /\ DOMAIN saw' = Ops /\ saw'[o] \in [members[about[o]] -> Contents]
  <2>1. saw'[o] = [f \in members[about[o]] |-> content[f]] BY <1>1, <1>3, <1>5
  <2>2. content \in [Files -> Contents] BY <1>1 DEF TypeOK
  <2>3. saw'[o] \in [members[about[o]] -> Contents] BY <1>7, <2>1, <2>2
  <2>4. QED BY <1>1, <1>5, <2>1, <2>3
<1>9. saw'[o] # Nil
  <2>1. Nil \notin [members[about[o]] -> Contents] BY <1>3, ConstantsAssumption DEF Contents
  <2>2. QED BY <1>8, <2>1
<1>10. Exclusion' /\ held' \in [Procs -> [Dirs -> {"none", "shared", "exclusive"}]]
  BY <1>1, <1>5, LeaveExclusion DEF IInv
<1>11. TypeOK'
  <2>1. \A u \in Ops : saw'[u] = Nil \/ saw'[u] \in [members[about[u]] -> Contents]
    BY <1>1, <1>8 DEF TypeOK
  <2>2. run' \in [Procs -> Runs] /\ \A q \in Procs : run'[q].way # "look" <=> run'[q].op # Nil
    BY <1>6 DEF Moved
  <2>3. QED BY <1>1, <1>5, <1>8, <1>10, <2>1, <2>2 DEF TypeOK, Runs
<1>12. \A q \in Procs \ {p} : run'[q] = run[q] /\ held'[q] = held[q]
  BY <1>1, <1>5, <1>6 DEF Moved
<1>13. \A q \in Procs : Holds(q)' /\ Shape(q)' /\ Progress(q)'
  <2>1. Holds(p)' /\ Progress(p)' BY <1>6 DEF Holds, Progress, Locking, Changing
  <2>2. Shape(p)'
    BY <1>0, <1>1, <1>2, <1>3, <1>5, <1>6, <1>9 DEF Shape, Moved, Changing
  <2>3. ASSUME NEW q \in Procs, q # p PROVE Holds(q)' /\ Shape(q)' /\ Progress(q)'
    <3>1. Holds(q) /\ Shape(q) /\ Progress(q) /\ run'[q] = run[q] /\ held'[q] = held[q]
      BY <1>12, <2>3 DEF IInv
    <3>2. run[q].op # Nil => saw'[run[q].op] = saw[run[q].op]
      BY <1>1, <1>4, <1>8, <2>3, RunFacts
    <3>3. run[q].at \in Changing => run[q].op # Nil BY <3>1 DEF Shape
    <3>4. Holds(q)' BY <3>1, HoldsStays
    <3>5. Shape(q)' BY <1>1, <3>1, <3>2, ShapeStays
    <3>6. Progress(q)' BY <1>5, <3>1, <3>2, <3>3, ProgressStays
    <3>7. QED BY <3>4, <3>5, <3>6
  <2>4. QED BY <2>1, <2>2, <2>3
<1>14. ASSUME NEW u \in Ops, Nowhere(u) PROVE Nowhere(u)'
  <2>1. ASSUME NEW w \in Ops, saw'[w] # Nil, NEW f \in members[about[w]]
        PROVE  saw'[w][f] # u
    <3>1. CASE w = o BY <1>7, <1>8, <1>14, <2>1, <3>1 DEF Nowhere
    <3>2. CASE w # o BY <1>8, <1>14, <2>1, <3>2 DEF Nowhere
    <3>3. QED BY <3>1, <3>2
  <2>2. QED BY <1>5, <1>14, <2>1 DEF Nowhere, Pending
<1>15. Unborn'
  <2>1. \A u \in Ops : saw'[u] = Nil => Nowhere(u)'
    BY <1>8, <1>9, <1>14 DEF IInv, Unborn
  <2>2. ASSUME NEW q \in Procs, Early(q)'
        PROVE  Early(q) /\ run'[q].op = run[q].op /\ run[q].op \in Ops
    <3>1. run'[q].op = run[q].op BY <1>6, <1>12 DEF Moved
    <3>2. Early(q) BY <1>2, <1>12, <2>2 DEF Early
    <3>3. run[q].op \in Ops BY <1>1, <3>2, RunFacts DEF Early
    <3>4. QED BY <3>1, <3>2, <3>3
  <2>3. ASSUME NEW q \in Procs, Early(q)' PROVE Nowhere(run[q].op)'
    <3>1. PICK u \in Ops : u = run[q].op /\ u = run'[q].op BY <2>2, <2>3
    <3>2. Nowhere(u) BY <2>2, <2>3, <3>1 DEF IInv, Unborn
    <3>3. Nowhere(u)' BY <1>14, <3>2
    <3>4. QED BY <3>1, <3>3 DEF Nowhere, Pending
  <2>4. ASSUME NEW q \in Procs, NEW r \in Procs, q # r, Early(q)'
        PROVE  run'[r].op # run'[q].op
    <3>1. run'[r].op = run[r].op BY <1>6, <1>12 DEF Moved
    <3>2. QED BY <2>2, <2>4, <3>1 DEF IInv, Unborn
  <2>5. QED BY <2>1, <2>3, <2>4 DEF Unborn
<1>16. Journals'
  BY <1>1, <1>5, <1>8, <1>9 DEF IInv, Journals, TypeOK
<1>17. Ordered'
  <2>1. ASSUME NEW f \in members[about[o]] PROVE Clear(f, content[f], o)'
    <3>1. content[f] \in Contents \ {o}
      BY <1>1, <1>4, <1>7, <2>1 DEF Nowhere, TypeOK
    <3>2. ASSUME NEW w \in (Contents \ {o}) \cap Ops, saw'[w] # Nil, f \in members[about[w]]
          PROVE  saw'[w][f] \in Contents \ {o}
      <4>1. saw'[w] = saw[w] BY <1>8, <3>2
      <4>2. saw[w][f] # o BY <1>4, <3>2, <4>1 DEF Nowhere
      <4>3. saw[w][f] \in Contents BY <1>1, <3>2, <4>1 DEF TypeOK
      <4>4. QED BY <4>1, <4>2, <4>3
    <3>3. Contents' = Contents BY DEF Contents
    <3>4. content'[f] = content[f] BY <1>5
    <3>5. QED BY <3>1, <3>2, <3>3, <3>4 DEF Clear
  <2>2. ASSUME NEW u \in Ops, u # o, saw'[u] # Nil, NEW f \in members[about[u]]
        PROVE  Clear(f, saw[u][f], u)'
    <3>1. PICK c : c = saw[u][f] OBVIOUS
    <3>2. saw'[u] = saw[u] /\ saw[u] # Nil BY <1>8, <2>2
    <3>3. Clear(f, c, u) BY <2>2, <3>1, <3>2 DEF IInv, Ordered
    <3>4. c # o BY <1>4, <2>2, <3>1, <3>2 DEF Nowhere
    <3>5. f \in Files BY <2>2, OperationFacts, DirectoryFacts
    <3>6. Clear(f, c, u)' BY <1>1, <1>3, <1>4, <1>8, <3>3, <3>4, <3>5, ClearStays
    <3>7. QED BY <3>1, <3>2, <3>6 DEF Clear
  <2>3. ASSUME NEW u \in Ops, saw'[u] # Nil, NEW f \in members[about[u]]
        PROVE  Clear(f, saw[u][f], u)'
    <3>1. CASE u = o BY <1>5, <1>8, <2>1, <2>3, <3>1 DEF Clear
    <3>2. CASE u # o BY <2>2, <2>3, <3>2
    <3>3. QED BY <3>1, <3>2
  <2>4. QED BY <2>3 DEF Ordered
<1>18. Hidden'
  <2>1. ASSUME NEW u \in Ops, Pending(u)', u \notin landed', ~Guarded(u)', NEW f \in Touched(u)
        PROVE  Clear(f, content[f], u)'
    <3>1. PICK c : c = content[f] OBVIOUS
    <3>2. Pending(u) /\ u \notin landed /\ ~Guarded(u)
      BY <1>5, <2>1 DEF Pending, Guarded
    <3>3. Clear(f, c, u) BY <2>1, <3>1, <3>2 DEF IInv, Hidden
    <3>4. f \in Files BY <2>1, OperationFacts, DirectoryFacts
    <3>5. c # o BY <1>4, <3>1, <3>4 DEF Nowhere
    <3>6. Clear(f, c, u)' BY <1>1, <1>3, <1>4, <1>8, <3>3, <3>4, <3>5, ClearStays
    <3>7. QED BY <1>5, <3>1, <3>6 DEF Clear
  <2>2. QED BY <2>1 DEF Hidden
<1>19. QED BY <1>10, <1>11, <1>13, <1>15, <1>16, <1>17, <1>18 DEF IInv

-----------------------------------------------------------------------------
(* Steps that change files. *)

(* What wrote a file is above what it replaced, and putting that back goes no
   further down than it. *)
LEMMA ClearFollows ==
    ASSUME TypeOK, NEW o \in Ops, saw[o] # Nil, NEW f \in members[about[o]],
           NEW c \in {saw[o][f], o}, NEW v \in {saw[o][f], o},
           NEW u \in Ops \ {o}, Clear(f, c, u)
    PROVE  Clear(f, v, u)
<1>1. PICK S \in SUBSET Contents :
          /\ c \in S /\ u \notin S
          /\ \A w \in S \cap Ops :
                 saw[w] # Nil /\ f \in members[about[w]] => saw[w][f] \in S
  BY DEF Clear
<1>2. saw[o][f] \in S BY <1>1
<1>3. S \cup {o} \in SUBSET Contents /\ u \notin S \cup {o} /\ v \in S \cup {o}
  BY <1>1, <1>2 DEF Contents
<1>4. \A w \in (S \cup {o}) \cap Ops :
          saw[w] # Nil /\ f \in members[about[w]] => saw[w][f] \in S \cup {o}
  BY <1>1, <1>2
<1>5. QED BY <1>3, <1>4 DEF Clear

LEMMA ApplyInv ==
    ASSUME IInv, NEW p \in Procs, Apply(p)
    PROVE  IInv'
<1>0. PICK o : o = run[p].op OBVIOUS
<1>1. Holds(p) /\ Shape(p) /\ Progress(p) /\ TypeOK BY DEF IInv
<1>2. Owns(p) /\ run[p].at = "apply" /\ run[p].at \in Changing
  BY DEF Apply, Owns, Changing
<1>3. /\ o \in Ops /\ run[p].record \in Records /\ run[p].record = about[o]
      /\ o # Nil /\ Touched(o) \subseteq members[about[o]] /\ members[about[o]] \subseteq Files
  BY <1>0, <1>2, OwnsFacts, OperationFacts, DirectoryFacts
<1>4. /\ journal[about[o]] = o /\ saw[o] # Nil /\ Guarded(o)
      /\ \A g \in Touched(o) : content[g] \in {saw[o][g], o}
      /\ \A g \in Touched(o) \ Rest(run[p].files) : content[g] = Image(p, g)
      /\ Rest(run[p].files) \subseteq Touched(o)
  BY <1>0, <1>1, <1>2, <1>3 DEF Progress, IInv, Journals
<1> DEFINE f == Head(run[p].files)
           v == Image(p, f)
<1>5. /\ f \in Files /\ Tail(run[p].files) \in Seq(Files)
      /\ Rest(run[p].files) = {f} \cup Rest(Tail(run[p].files))
  <2>1. run[p].files \in Seq(Files) BY <1>1, RunFacts DEF Runs
  <2>2. run[p].files # <<>> BY DEF Apply
  <2>3. QED BY <2>1, <2>2, RestOfTail
<1>6. f \in Touched(o) BY <1>4, <1>5
<1>7. /\ content' = [content EXCEPT ![f] = v]
      /\ run' = [run EXCEPT ![p].files = Tail(@)]
      /\ landed' = IF \A g \in Touched(o) : content'[g] = o
                     THEN landed \cup {o} ELSE landed \ {o}
      /\ UNCHANGED <<journal, guard, ready, saw, held, crashes>>
  BY <1>0 DEF Apply
<1>8. /\ Moved(p) /\ run'[p].at = "apply" /\ run'[p].dirs = run[p].dirs
      /\ run'[p].files = Tail(run[p].files)
  BY <1>1, <1>2, <1>5, <1>7, MovedInFiles
<1>9. v \in {saw[o][f], o} /\ v \in Contents
  <2>1. saw[o][f] \in Contents BY <1>1, <1>3, <1>4, <1>6 DEF TypeOK
  <2>2. v \in {saw[o][f], o} BY <1>0 DEF Image
  <2>3. QED BY <1>3, <2>1, <2>2 DEF Contents
<1>10. /\ content' \in [Files -> Contents] /\ content'[f] = v
       /\ \A g \in Files \ {f} : content'[g] = content[g]
  <2> HIDE DEF f, v
  <2>1. content \in [Files -> Contents] BY <1>1 DEF TypeOK
  <2>2. QED BY <1>5, <1>7, <1>9, <2>1
<1> HIDE DEF f
<1>11. landed' \subseteq landed \cup {o} /\ landed \subseteq landed' \cup {o} BY <1>7
<1>12. TypeOK'
  <2>1. \A u \in Ops : saw'[u] = Nil \/ saw'[u] \in [members[about[u]] -> Contents]
    BY <1>1, <1>7 DEF TypeOK
  <2>2. run' \in [Procs -> Runs] /\ \A q \in Procs : run'[q].way # "look" <=> run'[q].op # Nil
    BY <1>8 DEF Moved
  <2>3. landed' \subseteq Ops BY <1>1, <1>3, <1>11 DEF TypeOK
  <2>4. QED BY <1>1, <1>7, <1>10, <2>1, <2>2, <2>3 DEF TypeOK, Runs
<1>13. \A q \in Procs \ {p} : run'[q] = run[q] /\ held'[q] = held[q]
  BY <1>7, <1>8 DEF Moved
<1>14. Progress(p)'
  <2>1. run'[p].op = o /\ run'[p].record = about[o] /\ run'[p].way = run[p].way
    BY <1>0, <1>3, <1>8 DEF Moved
  <2>2. Guarded(run[p].op)' BY <1>4, <1>7, <2>1 DEF Guarded
  <2>3. \A g \in Touched(o) : content'[g] \in {saw'[o][g], o}
    <3>1. ASSUME NEW g \in Touched(o) PROVE content'[g] \in {saw'[o][g], o}
      <4>1. CASE g = f BY <1>7, <1>9, <1>10, <4>1
      <4>2. CASE g # f BY <1>3, <1>4, <1>7, <1>10, <4>2
      <4>3. QED BY <4>1, <4>2
    <3>2. QED BY <3>1
  <2>4. \A g \in Files : Image(p, g)' = Image(p, g)
    BY <1>0, <1>7, <2>1 DEF Image
  <2>5. ASSUME NEW g \in Touched(o) \ Rest(Tail(run[p].files))
        PROVE  content'[g] = Image(p, g)'
    <3>1. g \in Files BY <1>3
    <3>2. CASE g = f BY <1>10, <2>4, <3>1, <3>2
    <3>3. CASE g # f
      <4>1. g \in Touched(o) \ Rest(run[p].files) BY <1>5, <3>3
      <4>2. content[g] = Image(p, g) BY <1>4, <4>1
      <4>3. QED BY <1>10, <2>4, <3>1, <3>3, <4>2
    <3>4. QED BY <3>2, <3>3
  <2>6. ASSUME run[p].way # "before", Tail(run[p].files) = <<>> PROVE o \in landed'
    <3>1. Rest(Tail(run[p].files)) = {} BY <2>6 DEF Rest
    <3>2. \A g \in Touched(o) : Image(p, g)' = o BY <1>3, <2>1, <2>6 DEF Image
    <3>3. \A g \in Touched(o) : content'[g] = o BY <2>5, <3>1, <3>2
    <3>4. QED BY <1>7, <3>3
  <2>7. Rest(Tail(run[p].files)) \subseteq Touched(o) BY <1>4, <1>5
  <2>8. journal'[about[o]] = o BY <1>4, <1>7
  <2>9. QED BY <1>8, <2>1, <2>2, <2>3, <2>5, <2>6, <2>7, <2>8 DEF Progress
<1>15. \A q \in Procs : Holds(q)' /\ Shape(q)' /\ Progress(q)'
  <2>1. Holds(p)' BY <1>1, <1>2, <1>7, <1>8 DEF Holds, Moved, Locking, Changing
  <2>2. Shape(p)' BY <1>1, <1>2, <1>7, <1>8 DEF Shape, Moved, Changing
  <2>3. ASSUME NEW q \in Procs, q # p PROVE Holds(q)' /\ Shape(q)' /\ Progress(q)'
    <3>1. Holds(q) /\ Shape(q) /\ Progress(q) /\ run'[q] = run[q] /\ held'[q] = held[q]
      BY <1>13, <2>3 DEF IInv
    <3>2. Holds(q)' BY <3>1, HoldsStays
    <3>3. Shape(q)' BY <1>1, <1>7, <3>1, ShapeStays
    <3>4. Progress(q)'
      <4>1. CASE run[q].at \in Changing
        <5>1. Owns(q) BY <4>1 DEF Owns
        <5>2. /\ run[q].op # o /\ run[q].op \in Ops /\ run[q].record = about[run[q].op]
              /\ members[about[o]] \cap members[run[q].record] = {}
          BY <1>0, <1>2, <1>3, <2>3, <5>1, Apart, OwnsFacts
        <5>3. \A g \in Touched(run[q].op) : content'[g] = content[g]
          BY <1>3, <1>6, <1>10, <5>2, OperationFacts, DirectoryFacts
        <5>4. run[q].op \in landed => run[q].op \in landed' BY <1>11, <5>2
        <5>5. QED BY <1>7, <3>1, <5>3, <5>4, ProgressStays
      <4>2. CASE run[q].at \notin Changing BY <3>1, <4>2, ProgressStays
      <4>3. QED BY <4>1, <4>2
    <3>5. QED BY <3>2, <3>3, <3>4
  <2>4. QED BY <1>14, <2>1, <2>2, <2>3
<1>16. ASSUME NEW u \in Ops, u # o, Nowhere(u) PROVE Nowhere(u)'
  <2>1. saw[o][f] # u BY <1>3, <1>4, <1>6, <1>16 DEF Nowhere
  <2>2. \A g \in Files : content'[g] # u BY <1>9, <1>10, <1>16, <2>1 DEF Nowhere
  <2>3. u \notin landed' BY <1>11, <1>16 DEF Nowhere
  <2>4. QED BY <1>7, <1>16, <2>2, <2>3 DEF Nowhere, Pending
<1>17. Unborn'
  <2>1. \A u \in Ops : saw'[u] = Nil => Nowhere(u)'
    BY <1>4, <1>7, <1>16 DEF IInv, Unborn
  <2>2. ASSUME NEW q \in Procs, Early(q)'
        PROVE  /\ q # p /\ Early(q) /\ run'[q].op = run[q].op
               /\ run[q].op \in Ops /\ run[q].op # o
    <3>1. q # p BY <1>8, <2>2 DEF Early
    <3>2. Early(q) /\ run'[q].op = run[q].op BY <1>13, <2>2, <3>1 DEF Early
    <3>3. run[q].op \in Ops BY <1>1, <3>2, RunFacts DEF Early
    <3>4. run[q].op # o BY <1>0, <3>1, <3>2 DEF IInv, Unborn
    <3>5. QED BY <3>1, <3>2, <3>3, <3>4
  <2>3. ASSUME NEW q \in Procs, Early(q)' PROVE Nowhere(run[q].op)'
    <3>1. PICK u \in Ops : u = run[q].op /\ u = run'[q].op /\ u # o BY <2>2, <2>3
    <3>2. Nowhere(u) BY <2>2, <2>3, <3>1 DEF IInv, Unborn
    <3>3. Nowhere(u)' BY <1>16, <3>1, <3>2
    <3>4. QED BY <3>1, <3>3 DEF Nowhere, Pending
  <2>4. ASSUME NEW q \in Procs, NEW r \in Procs, q # r, Early(q)'
        PROVE  run'[r].op # run'[q].op
    <3>1. run'[r].op = run[r].op BY <1>8, <1>13 DEF Moved
    <3>2. QED BY <2>2, <2>4, <3>1 DEF IInv, Unborn
  <2>5. QED BY <2>1, <2>3, <2>4 DEF Unborn
<1>18. Journals' BY <1>7 DEF IInv, Journals
<1>19. Ordered' BY <1>7 DEF IInv, Ordered, Clear
<1>20. Hidden'
  <2>1. ASSUME NEW u \in Ops, Pending(u)', u \notin landed', ~Guarded(u)', NEW g \in Touched(u)
        PROVE  Clear(g, content'[g], u)
    <3>1. Pending(u) /\ ~Guarded(u) BY <1>7, <2>1 DEF Pending, Guarded
    <3>2. u # o /\ u \notin landed BY <1>4, <1>11, <2>1, <3>1
    <3>3. Clear(g, content[g], u) BY <2>1, <3>1, <3>2 DEF IInv, Hidden
    <3>4. g \in Files BY <2>1, OperationFacts, DirectoryFacts
    <3>5. CASE g # f BY <1>10, <3>3, <3>4, <3>5
    <3>6. CASE g = f
      <4>1. PICK c \in {saw[o][f], o} : c = content[f] BY <1>4, <1>6
      <4>2. PICK w \in {saw[o][f], o} : w = content'[f] BY <1>9, <1>10
      <4>3. Clear(f, c, u) BY <3>3, <3>6, <4>1
      <4>4. f \in members[about[o]] /\ u \in Ops \ {o} BY <1>3, <1>6, <3>2
      <4>5. Clear(f, w, u) BY <1>1, <1>3, <1>4, <4>3, <4>4, ClearFollows
      <4>6. QED BY <3>6, <4>2, <4>5
    <3>7. QED BY <3>5, <3>6
  <2>2. QED BY <1>7, <2>1 DEF Hidden, Clear
<1>21. Exclusion' BY <1>7 DEF IInv, Exclusion
<1>22. QED BY <1>12, <1>15, <1>17, <1>18, <1>19, <1>20, <1>21 DEF IInv

LEMMA EditInv ==
    ASSUME IInv, NEW f \in Files, NEW h \in Hands, Edit(f, h)
    PROVE  IInv'
<1>1. TypeOK BY DEF IInv
<1>2. /\ content' = [content EXCEPT ![f] = h]
      /\ UNCHANGED <<journal, guard, ready, saw, held, run, landed, crashes>>
      /\ \A q \in Procs : run[q].at \in Changing => f \notin members[run[q].record]
  BY DEF Edit
<1>3. h \in Contents /\ h \notin Ops BY ConstantsAssumption DEF Contents
<1>4. /\ content' \in [Files -> Contents] /\ content'[f] = h
      /\ \A g \in Files \ {f} : content'[g] = content[g]
  BY <1>1, <1>2, <1>3 DEF TypeOK
<1>5. TypeOK'
  <2>1. \A u \in Ops : saw'[u] = Nil \/ saw'[u] \in [members[about[u]] -> Contents]
    BY <1>1, <1>2 DEF TypeOK
  <2>2. QED BY <1>1, <1>2, <1>4, <2>1 DEF TypeOK
<1>6. \A q \in Procs : Holds(q)' /\ Shape(q)' /\ Progress(q)'
  <2>1. ASSUME NEW q \in Procs PROVE Holds(q)' /\ Shape(q)' /\ Progress(q)'
    <3>1. Holds(q) /\ Shape(q) /\ Progress(q) /\ run'[q] = run[q] /\ held'[q] = held[q]
      BY <1>2 DEF IInv
    <3>2. Holds(q)' BY <3>1, HoldsStays
    <3>3. Shape(q)' BY <1>1, <1>2, <3>1, ShapeStays
    <3>4. Progress(q)'
      <4>1. CASE run[q].at \in Changing
        <5>1. Owns(q) BY <4>1 DEF Owns
        <5>2. run[q].op \in Ops /\ run[q].record = about[run[q].op] BY <5>1, OwnsFacts
        <5>3. \A g \in Touched(run[q].op) : content'[g] = content[g]
          BY <1>2, <1>4, <4>1, <5>2, OperationFacts, DirectoryFacts
        <5>4. QED BY <1>2, <3>1, <5>3, ProgressStays
      <4>2. CASE run[q].at \notin Changing BY <3>1, <4>2, ProgressStays
      <4>3. QED BY <4>1, <4>2
    <3>5. QED BY <3>2, <3>3, <3>4
  <2>2. QED BY <2>1
<1>7. ASSUME NEW u \in Ops, Nowhere(u) PROVE Nowhere(u)'
  <2>1. \A g \in Files : content'[g] # u BY <1>3, <1>4, <1>7 DEF Nowhere
  <2>2. QED BY <1>2, <1>7, <2>1 DEF Nowhere, Pending
<1>8. Unborn'
  <2>1. \A u \in Ops : saw'[u] = Nil => Nowhere(u)' BY <1>2, <1>7 DEF IInv, Unborn
  <2>2. ASSUME NEW q \in Procs, Early(q)' PROVE Nowhere(run[q].op)'
    <3>1. Early(q) BY <1>2, <2>2 DEF Early
    <3>2. PICK u \in Ops : u = run[q].op /\ u = run'[q].op
      BY <1>1, <1>2, <3>1, RunFacts DEF Early
    <3>3. Nowhere(u) BY <3>1, <3>2 DEF IInv, Unborn
    <3>4. Nowhere(u)' BY <1>7, <3>3
    <3>5. QED BY <3>2, <3>4 DEF Nowhere, Pending
  <2>3. \A q, r \in Procs : q # r /\ Early(q)' => run'[r].op # run'[q].op
    BY <1>2 DEF IInv, Unborn, Early
  <2>4. QED BY <2>1, <2>2, <2>3 DEF Unborn
<1>9. Journals' /\ Exclusion' BY <1>2 DEF IInv, Journals, Exclusion
<1>10. Ordered' BY <1>2 DEF IInv, Ordered, Clear
<1>11. Hidden'
  <2>1. ASSUME NEW u \in Ops, Pending(u)', u \notin landed', ~Guarded(u)', NEW g \in Touched(u)
        PROVE  Clear(g, content'[g], u)
    <3>1. Pending(u) /\ ~Guarded(u) /\ u \notin landed
      BY <1>2, <2>1 DEF Pending, Guarded
    <3>2. g \in Files BY <2>1, OperationFacts, DirectoryFacts
    <3>3. CASE g # f BY <1>4, <2>1, <3>1, <3>2, <3>3 DEF IInv, Hidden
    <3>4. CASE g = f
      <4>1. {h} \in SUBSET Contents /\ u \notin {h} /\ {h} \cap Ops = {} BY <1>3
      <4>2. Clear(g, h, u) BY <4>1 DEF Clear
      <4>3. QED BY <1>4, <3>4, <4>2
    <3>5. QED BY <3>3, <3>4
  <2>2. QED BY <1>2, <2>1 DEF Hidden, Clear
<1>12. QED BY <1>5, <1>6, <1>8, <1>9, <1>10, <1>11 DEF IInv

-----------------------------------------------------------------------------
(* The invariant holds from the start and through every step. *)

LEMMA InitInv ==
    ASSUME Init
    PROVE  IInv
<1>1. TypeOK
  <2>1. Idle \in Runs /\ Idle.way = "look" /\ Idle.op = Nil BY IdleRun DEF Idle
  <2>2. run \in [Procs -> Runs] /\ \A p \in Procs : run[p].way # "look" <=> run[p].op # Nil
    BY <2>1 DEF Init
  <2>3. content \in [Files -> Contents] /\ journal \in [Records -> Ops \cup {Nil}]
    BY DEF Init, Contents
  <2>4. /\ guard \in [Dirs -> SUBSET Ops] /\ ready \subseteq Ops /\ landed \subseteq Ops
        /\ held \in [Procs -> [Dirs -> {"none", "shared", "exclusive"}]]
    BY DEF Init, NoLocks
  <2>5. DOMAIN saw = Ops /\ \A o \in Ops : saw[o] = Nil BY DEF Init
  <2>6. crashes \in 0 .. MaxCrashes BY ConstantsAssumption DEF Init
  <2>7. QED BY <2>2, <2>3, <2>4, <2>5, <2>6 DEF TypeOK, Runs
<1>2. \A o \in Ops : o # Nil BY OperationFacts
<1>3. \A p \in Procs : run[p].at = "idle" /\ run[p].way = "look" /\ run[p].op = Nil
  BY DEF Init, Idle
<1>4. \A o \in Ops : Nowhere(o)
  <2>1. ASSUME NEW o \in Ops PROVE Nowhere(o)
    <3>1. about[o] \in Records /\ o # Nil BY OperationFacts
    <3>2. QED BY <3>1 DEF Init, Nowhere, Pending
  <2>2. QED BY <2>1
<1>5. Unborn BY <1>3, <1>4 DEF Unborn, Early
<1>6. Journals /\ Ordered BY DEF Init, Journals, Ordered
<1>7. Hidden BY <1>4 DEF Hidden, Nowhere
<1>8. Exclusion BY DEF Init, Exclusion, NoLocks
<1>9. \A p \in Procs : Holds(p) /\ Shape(p) /\ Progress(p)
  BY <1>3 DEF Holds, Shape, Progress, Locking, Changing
<1>10. QED BY <1>1, <1>5, <1>6, <1>7, <1>8, <1>9 DEF IInv

LEMMA StutterInv ==
    ASSUME IInv, UNCHANGED vars
    PROVE  IInv'
<1>1. UNCHANGED <<content, journal, guard, ready, saw, held, run, landed, crashes>>
  BY DEF vars, disk
<1>2. TypeOK' BY <1>1 DEF IInv, TypeOK
<1>3. \A q \in Procs : Holds(q)' /\ Shape(q)' /\ Progress(q)'
  BY <1>1 DEF IInv, Holds, Mode, Shape, Progress, Guarded, Image
<1>4. Unborn' BY <1>1 DEF IInv, Unborn, Early, Nowhere, Pending
<1>5. Journals' /\ Exclusion' BY <1>1 DEF IInv, Journals, Exclusion
<1>6. Ordered' /\ Hidden' BY <1>1 DEF IInv, Ordered, Hidden, Clear, Pending, Guarded
<1>7. QED BY <1>2, <1>3, <1>4, <1>5, <1>6 DEF IInv

LEMMA StartInv ==
    ASSUME IInv, NEW p \in Procs, Start(p)
    PROVE  IInv'
<1>1. ASSUME NEW r \in Records, Look(p, r) PROVE IInv'
  <2>1. StartRead(p, r, "look", Nil) BY <1>1 DEF Look
  <2>2. QED BY <2>1, StartReadInv
<1>2. ASSUME NEW o \in Ops, Write(p, o) PROVE IInv'
  <2>1. /\ StartRead(p, about[o], "write", o) /\ about[o] \in Records /\ o # Nil
        /\ saw[o] = Nil /\ \A q \in Procs : run[q].op # o
    BY <1>2, OperationFacts DEF Write
  <2>2. QED BY <2>1, StartReadInv
<1>3. ASSUME NEW r \in Records, NEW way \in {"after", "before"}, Recover(p, r, way)
      PROVE  IInv'
  BY <1>3, RecoverInv
<1>4. QED BY <1>1, <1>2, <1>3 DEF Start

(* Who leaves without having changed anything. *)
LEMMA GiveUpInv ==
    ASSUME IInv, NEW p \in Procs,
           ReadRefused(p) \/ ReadDone(p) \/ PublishRefused(p) \/ RecoverRefused(p) \/ Die(p)
    PROVE  IInv'
<1>1. crashes \in Nat /\ MaxCrashes \in Nat /\ crashes \in 0 .. MaxCrashes
  BY ConstantsAssumption DEF IInv, TypeOK
<1>2. Leave(p) /\ UNCHANGED <<disk, saw, landed>>
  BY DEF ReadRefused, ReadDone, PublishRefused, RecoverRefused, Die
<1>3. crashes' \in 0 .. MaxCrashes
  BY <1>1 DEF ReadRefused, ReadDone, PublishRefused, RecoverRefused, Die
<1>4. QED BY <1>2, <1>3, LeaveInv

LEMMA StepInv ==
    ASSUME IInv, NEW p \in Procs, Step(p)
    PROVE  IInv'
<1>1. CASE ReadRefused(p) \/ ReadDone(p) \/ PublishRefused(p) \/ RecoverRefused(p)
  BY <1>1, GiveUpInv
<1>2. CASE Prepare(p) BY <1>2, PrepareInv
<1>3. CASE Publish(p) BY <1>3, PublishInv
<1>4. CASE WriteJournal(p) BY <1>4, WriteJournalInv
<1>5. CASE WriteGuard(p) BY <1>5, WriteGuardInv
<1>6. CASE WriteReady(p) BY <1>6, WriteReadyInv
<1>7. CASE Apply(p) BY <1>7, ApplyInv
<1>8. CASE Applied(p) BY <1>8, AppliedInv
<1>9. CASE RemoveGuard(p) BY <1>9, RemoveGuardInv
<1>10. CASE RemoveReady(p) BY <1>10, RemoveReadyInv
<1>11. CASE RemoveJournal(p) BY <1>11, RemoveJournalInv
<1>12. CASE Cancel(p) BY <1>12, CancelInv
<1>13. CASE RecoverCheck(p) BY <1>13, RecoverCheckInv
<1>14. QED
  BY <1>1, <1>2, <1>3, <1>4, <1>5, <1>6, <1>7, <1>8, <1>9, <1>10, <1>11, <1>12, <1>13
  DEF Step

LEMMA NextStep ==
    ASSUME IInv, [Next]_vars
    PROVE  IInv'
<1>1. ASSUME NEW p \in Procs, Start(p) PROVE IInv' BY <1>1, StartInv
<1>2. ASSUME NEW p \in Procs, LockDirectory(p) PROVE IInv' BY <1>2, LockDirectoryInv
<1>3. ASSUME NEW p \in Procs, Step(p) PROVE IInv' BY <1>3, StepInv
<1>4. ASSUME NEW p \in Procs, Die(p) PROVE IInv' BY <1>4, GiveUpInv
<1>5. ASSUME NEW f \in Files, NEW h \in Hands, Edit(f, h) PROVE IInv' BY <1>5, EditInv
<1>6. CASE UNCHANGED vars BY <1>6, StutterInv
<1>7. QED BY <1>1, <1>2, <1>3, <1>4, <1>5, <1>6 DEF Next

LEMMA Invariance == Spec => []IInv
<1>1. Init => IInv BY InitInv
<1>2. IInv /\ [Next]_vars => IInv' BY NextStep
<1>3. QED BY <1>1, <1>2, PTL DEF Spec

(* The state of publish_legacy and recover_legacy keeps its shape for any
   records, directories, processes and operations. *)
THEOREM LegacyTypes == Spec => []TypeOK
<1>1. IInv => TypeOK BY DEF IInv
<1>2. QED BY <1>1, Invariance, PTL

LEMMA HiddenIsFenced ==
    ASSUME IInv
    PROVE  PartialIsFenced
<1>1. ASSUME NEW o \in Ops, Pending(o), o \notin landed, NEW f \in Touched(o), content[f] = o
      PROVE  Guarded(o)
  <2>1. ~Clear(f, o, o) BY DEF Clear
  <2>2. QED BY <1>1, <2>1 DEF IInv, Hidden
<1>2. QED BY <1>1 DEF PartialIsFenced, Guarded

(* No half of a publication is ever without its guards: whatever dies, is
   recovered or edited, and whichever other records its files belong to, who
   opens one of them is refused until the publication is completed or taken
   back (publish_legacy, recover_legacy). *)
THEOREM PartialIsAlwaysFenced == Spec => []PartialIsFenced
<1>1. IInv => PartialIsFenced BY HiddenIsFenced
<1>2. QED BY <1>1, Invariance, PTL

(* What check_member_journals lets a reader see of a pending operation: all of
   it or nothing. *)
ReadIsWhole ==
    \A r \in Records : Readable(r) =>
        \A o \in Ops : Pending(o) /\ o \notin landed =>
            \A f \in members[r] \cap Touched(o) : content[f] # o

LEMMA FencedIsWhole ==
    ASSUME PartialIsFenced
    PROVE  ReadIsWhole
<1>1. ASSUME NEW r \in Records, Readable(r),
             NEW o \in Ops, Pending(o), o \notin landed,
             NEW f \in members[r] \cap Touched(o), content[f] = o
      PROVE  FALSE
  <2>1. f \in members[about[o]] /\ about[o] \in Records BY <1>1, OperationFacts
  <2>2. dir[f] \in Directories(about[o]) BY <2>1 DEF Directories
  <2>3. dir[f] \in Replicas(about[o]) => o \in guard[dir[f]] BY <1>1 DEF PartialIsFenced
  <2>4. dir[f] \notin Replicas(about[o]) => journal[about[o]] = o /\ Home(about[o]) = dir[f]
    BY <1>1, <2>2 DEF Replicas, Pending
  <2>5. Fenced(f) BY <2>1, <2>3, <2>4 DEF Fenced
  <2>6. QED BY <1>1, <2>5 DEF Readable
<1>2. QED BY <1>1 DEF ReadIsWhole

(* A record that load accepts, by whichever entry it is opened, has no file in
   it of a publication that is not whole (check_member_journals). *)
THEOREM ReadersSeeWholes == Spec => []ReadIsWhole
<1>1. PartialIsFenced => ReadIsWhole BY FencedIsWhole
<1>2. QED BY <1>1, PartialIsAlwaysFenced, PTL

-----------------------------------------------------------------------------
(* One moment for each operation.  Of two operations whose records share a
   file, one may be prepared before the other is cut short, and published while
   that one is pending.  It has then read, or written over, what recovery takes
   back later; with one operation at a time nobody stands on what may still go. *)

(* No two operations are pending whose records share a file. *)
OneAtATime ==
    \A o, u \in Ops :
        o # u /\ Pending(o) /\ Pending(u) => members[about[o]] \cap members[about[u]] = {}

(* What a file says was written by somebody who changes that file. *)
WroteOwn ==
    /\ \A f \in Files : content[f] \in Ops => f \in Touched(content[f])
    /\ \A o \in Ops : saw[o] # Nil =>
           \A f \in members[about[o]] : saw[o][f] \in Ops => f \in Touched(saw[o][f])

(* What has landed and is pending can be told from what it replaced. *)
Replaced ==
    \A o \in Ops : Pending(o) /\ o \in landed =>
        \A f \in Touched(o) : content[f] # saw[o][f]

(* A file that is only read says at the writing what it said at the reading. *)
Premise(p) ==
    run[p].at \in {"guards", "apply"} =>
        \A f \in members[about[run[p].op]] \ Touched(run[p].op) :
            content[f] = saw[run[p].op][f]

RInv == WroteOwn /\ Replaced /\ \A p \in Procs : Premise(p)

(* A file of the record of a pending operation, said as if it were whole. *)
LEMMA LogicalOfPending ==
    ASSUME WroteOwn, OneAtATime, NEW o \in Ops, Pending(o),
           NEW f \in members[about[o]], f \in Files, content[f] \in {saw[o][f], o}
    PROVE  /\ o \notin landed => logical[f] = saw[o][f]
           /\ content[f] = saw[o][f] /\ f \notin Touched(o) => logical[f] = saw[o][f]
           /\ content[f] = o /\ o \in landed => logical[f] = o
<1>1. logical[f] = IF content[f] \in Ops /\ Pending(content[f]) /\ content[f] \notin landed
                     THEN saw[content[f]][f] ELSE content[f]
  BY DEF logical
<1>2. ASSUME content[f] \in Ops, Pending(content[f]) PROVE content[f] = o
  <2>1. PICK u \in Ops : u = content[f] BY <1>2
  <2>2. f \in members[about[u]] BY <2>1, OperationFacts DEF WroteOwn
  <2>3. QED BY <1>2, <2>1, <2>2 DEF OneAtATime
<1>3. content[f] = o => f \in Touched(o) BY DEF WroteOwn
<1>4. QED BY <1>1, <1>2, <1>3

(* The same after a step. *)
LEMMA LaterOfPending ==
    ASSUME WroteOwn', OneAtATime', NEW o \in Ops, Pending(o)',
           NEW f \in members[about[o]], f \in Files, content'[f] \in {saw'[o][f], o}
    PROVE  /\ o \notin landed' => logical'[f] = saw'[o][f]
           /\ content'[f] = saw'[o][f] /\ f \notin Touched(o) => logical'[f] = saw'[o][f]
           /\ content'[f] = o /\ o \in landed' => logical'[f] = o
<1>1. logical'[f] = IF content'[f] \in Ops /\ journal'[about[content'[f]]] = content'[f]
                       /\ content'[f] \notin landed'
                      THEN saw'[content'[f]][f] ELSE content'[f]
  BY DEF logical, Pending
<1>2. ASSUME content'[f] \in Ops, journal'[about[content'[f]]] = content'[f]
      PROVE  content'[f] = o
  <2>1. PICK u \in Ops : u = content'[f] BY <1>2
  <2>2. f \in members[about[u]] BY <2>1, OperationFacts DEF WroteOwn
  <2>3. QED BY <1>2, <2>1, <2>2 DEF OneAtATime, Pending
<1>3. content'[f] = o => f \in Touched(o) BY DEF WroteOwn
<1>4. QED BY <1>1, <1>2, <1>3 DEF Pending

(* A step that changes no file, journal or reading, and begins no writing. *)
Calm(p) ==
    /\ UNCHANGED <<content, journal, saw, landed>>
    /\ \A q \in Procs \ {p} : run'[q] = run[q]
    /\ \/ run'[p].at \notin {"guards", "apply"}
       \/ run[p].at \in {"guards", "apply"} /\ run'[p].op = run[p].op
       \/ run'[p].op = run[p].op /\ run[p].op \in Ops /\ Untangled(run[p].op)

LEMMA CalmInv ==
    ASSUME RInv, NEW p \in Procs, Calm(p)
    PROVE  RInv' /\ UNCHANGED <<logical, saw>>
<1>1. WroteOwn' BY DEF RInv, WroteOwn, Calm
<1>2. Replaced' BY DEF RInv, Replaced, Pending, Calm
<1>3. ASSUME NEW q \in Procs PROVE Premise(q)'
  <2>1. CASE q = p
    <3>1. CASE run'[p].at \notin {"guards", "apply"} BY <2>1, <3>1 DEF Premise
    <3>2. CASE run[p].at \in {"guards", "apply"} /\ run'[p].op = run[p].op
      BY <2>1, <3>2 DEF Premise, RInv, Calm
    <3>3. CASE run'[p].op = run[p].op /\ run[p].op \in Ops /\ Untangled(run[p].op)
      BY <2>1, <3>3 DEF Premise, Untangled, Calm
    <3>4. QED BY <3>1, <3>2, <3>3 DEF Calm
  <2>2. CASE q # p BY <2>2 DEF Premise, RInv, Calm
  <2>3. QED BY <2>1, <2>2
<1>4. logical' = logical BY DEF logical, Pending, Calm
<1>5. QED BY <1>1, <1>2, <1>3, <1>4 DEF RInv, Calm

(* Leaving, starting and locking are calm. *)
LEMMA LeavingIsCalm ==
    ASSUME TypeOK, NEW p \in Procs, Leave(p), UNCHANGED <<content, journal, saw, landed>>
    PROVE  Calm(p)
<1>1. run' = [run EXCEPT ![p] = Idle] BY DEF Leave
<1>2. run'[p].at = "idle" BY <1>1, RunFacts DEF Idle
<1>3. \A q \in Procs \ {p} : run'[q] = run[q] BY <1>1, RunFacts
<1>4. QED BY <1>2, <1>3 DEF Calm

LEMMA StartIsCalm ==
    ASSUME TypeOK, NEW p \in Procs, Start(p)
    PROVE  Calm(p)
<1>1. ASSUME NEW r, r.at \notin {"guards", "apply"}, run' = [run EXCEPT ![p] = r],
             UNCHANGED <<disk, saw, landed>>
      PROVE  Calm(p)
  <2>1. run'[p] = r /\ \A q \in Procs \ {p} : run'[q] = run[q] BY <1>1, RunFacts
  <2>2. QED BY <1>1, <2>1 DEF Calm, disk
<1>2. ASSUME NEW r, NEW way, NEW o, StartRead(p, r, way, o) PROVE Calm(p)
  <2>1. PICK s : s = [Idle EXCEPT !.at = "read", !.way = way, !.record = r,
                                  !.op = o, !.dirs = Directories(r)]
    OBVIOUS
  <2>2. s.at = "read" BY <2>1 DEF Idle
  <2>3. run' = [run EXCEPT ![p] = s] BY <1>2, <2>1 DEF StartRead
  <2>4. UNCHANGED <<disk, saw, landed>> BY <1>2 DEF StartRead
  <2>5. QED BY <1>1, <2>2, <2>3, <2>4
<1>3. ASSUME NEW r \in Records, NEW way, Recover(p, r, way) PROVE Calm(p)
  <2>1. PICK s : s = [Idle EXCEPT !.at = "recheck", !.way = way, !.record = r,
                                  !.op = journal[r], !.dirs = Directories(r)]
    OBVIOUS
  <2>2. s.at = "recheck" BY <2>1 DEF Idle
  <2>3. run' = [run EXCEPT ![p] = s] BY <1>3, <2>1 DEF Recover
  <2>4. UNCHANGED <<disk, saw, landed>> BY <1>3 DEF Recover
  <2>5. QED BY <1>1, <2>2, <2>3, <2>4
<1>4. QED BY <1>2, <1>3 DEF Start, Look, Write

(* The steps of a process that are calm. *)
Aside(p) ==
    \/ ReadRefused(p) \/ ReadDone(p) \/ Publish(p) \/ PublishRefused(p) \/ WriteGuard(p)
    \/ WriteReady(p) \/ Applied(p) \/ RemoveGuard(p) \/ RemoveReady(p)
    \/ RecoverRefused(p) \/ Cancel(p) \/ RecoverCheck(p) \/ Die(p) \/ LockDirectory(p)

LEMMA AsideIsCalm ==
    ASSUME IInv, NEW p \in Procs, Aside(p)
    PROVE  Calm(p)
<1>1. TypeOK BY DEF IInv
<1>2. CASE ReadRefused(p) \/ ReadDone(p) \/ PublishRefused(p) \/ RecoverRefused(p) \/ Die(p)
  <2>1. Leave(p) /\ UNCHANGED <<content, journal, saw, landed>>
    BY <1>2 DEF ReadRefused, ReadDone, PublishRefused, RecoverRefused, Die, disk
  <2>2. QED BY <1>1, <2>1, LeavingIsCalm
<1>3. UNCHANGED <<content, journal, saw, landed>>
  BY <1>2 DEF Aside, ReadRefused, ReadDone, PublishRefused, RecoverRefused, Die, Publish,
     WriteGuard, WriteReady, Applied, RemoveGuard, RemoveReady, Cancel, RecoverCheck,
     LockDirectory, disk
<1>4. DOMAIN run = Procs /\ run \in [Procs -> Runs] BY <1>1, RunFacts DEF TypeOK, Runs
<1>5. CASE Publish(p)
  BY <1>3, <1>4, <1>5 DEF Calm, Publish, Runs
<1>6. CASE WriteGuard(p)
  BY <1>3, <1>4, <1>6 DEF Calm, WriteGuard, Runs
<1>7. CASE WriteReady(p)
  BY <1>3, <1>4, <1>7 DEF Calm, WriteReady, Applying, Runs
<1>8. CASE Applied(p)
  BY <1>3, <1>4, <1>8 DEF Calm, Applied, Runs
<1>9. CASE RemoveGuard(p)
  BY <1>3, <1>4, <1>9 DEF Calm, RemoveGuard, Runs
<1>10. CASE RemoveReady(p)
  BY <1>3, <1>4, <1>10 DEF Calm, RemoveReady, Runs
<1>11. CASE Cancel(p)
  BY <1>3, <1>4, <1>11 DEF Calm, Cancel, Runs
<1>12. CASE RecoverCheck(p)
  <2>1. run[p].op \in Ops /\ Untangled(run[p].op)
    BY <1>12, OwnsFacts DEF RecoverCheck, Inside, Owns
  <2>2. run' = [run EXCEPT ![p].at = "guards", ![p].dirs = Replicas(run[p].record)]
    BY <1>12 DEF RecoverCheck, Guarding
  <2>3. run'[p].op = run[p].op /\ \A q \in Procs \ {p} : run'[q] = run[q]
    BY <1>4, <2>2 DEF Runs
  <2>4. QED BY <1>3, <2>1, <2>3 DEF Calm
<1>13. CASE LockDirectory(p)
  BY <1>3, <1>4, <1>13 DEF Calm, LockDirectory, Locking, Runs
<1>14. QED
  BY <1>2, <1>5, <1>6, <1>7, <1>8, <1>9, <1>10, <1>11, <1>12, <1>13 DEF Aside

(* What was not published is in no file and in nothing that was read. *)
LEMMA EarlyIsNowhere ==
    ASSUME IInv, NEW p \in Procs, Early(p)
    PROVE  /\ run[p].op \in Ops /\ Nowhere(run[p].op)
           /\ run[p].record \in Records /\ run[p].record = about[run[p].op]
           /\ \A q \in Procs \ {p} : run[q].op # run[p].op
<1>1. TypeOK /\ Shape(p) BY DEF IInv
<1>2. run[p].op \in Ops BY <1>1, RunFacts DEF Early
<1>3. run[p].op # Nil BY <1>2, OperationFacts
<1>4. QED BY <1>1, <1>2, <1>3, OperationFacts DEF IInv, Unborn, Shape

(* Preparing is reading: what a reader is shown is what the files say to those
   who keep to the rules, because what is half published is fenced. *)
LEMMA PrepareReads ==
    ASSUME IInv, RInv, NEW p \in Procs, Prepare(p)
    PROVE  RInv' /\ \E o \in Ops : Abstract!Read(o)
<1>0. PICK o : o = run[p].op OBVIOUS
<1>1. TypeOK /\ Shape(p) /\ DOMAIN run = Procs /\ DOMAIN saw = Ops
  BY RunFacts DEF IInv, TypeOK
<1>2. run[p].at = "read" /\ run[p].way = "write" /\ Early(p) /\ Readable(run[p].record)
  BY DEF Prepare, Inside, Early
<1>3. /\ o \in Ops /\ Nowhere(o) /\ run[p].record \in Records /\ run[p].record = about[o]
      /\ \A q \in Procs \ {p} : run[q].op # o
  BY <1>0, <1>2, EarlyIsNowhere
<1>4. saw[o] = Nil BY <1>0, <1>1, <1>2 DEF Shape
<1>5. /\ saw' = [saw EXCEPT ![o] = [f \in members[about[o]] |-> content[f]]]
      /\ run' = [run EXCEPT ![p].at = "prepared"]
      /\ UNCHANGED <<content, journal, landed>>
  BY <1>0, <1>3 DEF Prepare, disk
<1>6. /\ members[about[o]] \subseteq Files
      /\ saw'[o] = [f \in members[about[o]] |-> content[f]]
      /\ \A w \in Ops \ {o} : saw'[w] = saw[w]
  BY <1>1, <1>3, <1>5, DirectoryFacts
<1>7. WroteOwn'
  <2>1. \A f \in Files : content'[f] \in Ops => f \in Touched(content'[f])
    BY <1>5 DEF RInv, WroteOwn
  <2>2. ASSUME NEW u \in Ops, saw'[u] # Nil, NEW f \in members[about[u]], saw'[u][f] \in Ops
        PROVE  f \in Touched(saw'[u][f])
    <3>1. CASE u = o
      <4>1. saw'[u][f] = content[f] /\ f \in Files BY <1>6, <2>2, <3>1
      <4>2. QED BY <2>2, <4>1 DEF RInv, WroteOwn
    <3>2. CASE u # o BY <1>6, <2>2, <3>2 DEF RInv, WroteOwn
    <3>3. QED BY <3>1, <3>2
  <2>3. QED BY <2>1, <2>2 DEF WroteOwn
<1>8. Replaced'
  <2>1. ASSUME NEW u \in Ops, Pending(u)', u \in landed', NEW f \in Touched(u)
        PROVE  content'[f] # saw'[u][f]
    <3>1. Pending(u) /\ u \in landed BY <1>5, <2>1 DEF Pending
    <3>2. u # o BY <1>3, <3>1 DEF Nowhere
    <3>3. QED BY <1>5, <1>6, <2>1, <3>1, <3>2 DEF RInv, Replaced
  <2>2. QED BY <2>1 DEF Replaced
<1>9. ASSUME NEW q \in Procs PROVE Premise(q)'
  <2>1. CASE q = p
    <3>1. run'[p].at = "prepared" BY <1>1, <1>5, RunFacts DEF Runs
    <3>2. QED BY <2>1, <3>1 DEF Premise
  <2>2. CASE q # p
    <3>1. run'[q] = run[q] BY <1>1, <1>5, <2>2
    <3>2. saw'[run[q].op] = saw[run[q].op]
      <4>1. run[q].op # o BY <1>3, <2>2
      <4>2. QED BY <1>1, <1>5, <4>1
    <3>3. QED BY <1>5, <3>1, <3>2 DEF Premise, RInv
  <2>3. QED BY <2>1, <2>2
<1>10. logical' = logical
  <2>1. \A f \in Files : content[f] # o BY <1>3 DEF Nowhere
  <2>2. ASSUME NEW f \in Files, content[f] \in Ops
        PROVE  saw'[content[f]] = saw[content[f]] /\ Pending(content[f])' = Pending(content[f])
    BY <1>5, <1>6, <2>1, <2>2 DEF Pending
  <2>3. QED BY <1>5, <2>2 DEF logical
<1>11. ASSUME NEW f \in members[about[o]] PROVE logical[f] = content[f]
  <2>1. f \in Files BY <1>6
  <2>2. ASSUME NEW u \in Ops, u = content[f], Pending(u), u \notin landed PROVE FALSE
    <3>1. f \in Touched(u) BY <2>1, <2>2 DEF RInv, WroteOwn
    <3>2. ReadIsWhole BY HiddenIsFenced, FencedIsWhole
    <3>3. QED BY <1>2, <1>3, <2>2, <3>1, <3>2 DEF ReadIsWhole
  <2>3. QED BY <2>1, <2>2 DEF logical
<1>12. saw' = [saw EXCEPT ![o] = [f \in members[about[o]] |-> logical[f]]]
  <2>1. [f \in members[about[o]] |-> logical[f]] = [f \in members[about[o]] |-> content[f]]
    BY <1>11
  <2>2. QED BY <1>5, <2>1
<1>13. Abstract!Read(o) BY <1>3, <1>4, <1>10, <1>12 DEF Abstract!Read
<1>14. QED BY <1>3, <1>7, <1>8, <1>9, <1>13 DEF RInv

(* The journal comes before the first file and goes after the last. *)
LEMMA WriteJournalSteps ==
    ASSUME IInv, RInv, NEW p \in Procs, WriteJournal(p)
    PROVE  RInv' /\ UNCHANGED <<logical, saw>>
<1>0. PICK o : o = run[p].op OBVIOUS
<1>1. TypeOK /\ Shape(p) /\ DOMAIN run = Procs BY RunFacts DEF IInv
<1>2. run[p].at = "check" /\ Early(p)
  BY <1>1 DEF WriteJournal, Inside, Early, Shape
<1>3. /\ o \in Ops /\ Nowhere(o) /\ run[p].record \in Records /\ run[p].record = about[o]
  BY <1>0, <1>2, EarlyIsNowhere
<1>4. /\ journal[about[o]] = Nil /\ AsSeen(o)
      /\ journal' = [journal EXCEPT ![about[o]] = o]
      /\ UNCHANGED <<content, saw, landed>>
      /\ run' = [run EXCEPT ![p].at = "guards", ![p].dirs = Replicas(run[p].record)]
  BY <1>0, <1>3 DEF WriteJournal, Guarding
<1>5. /\ run'[p].op = o /\ \A q \in Procs \ {p} : run'[q] = run[q]
  <2>1. run \in [Procs -> Runs] BY <1>1 DEF TypeOK, Runs
  <2>2. QED BY <1>0, <1>4, <2>1 DEF Runs
<1>6. ASSUME NEW u \in Ops, u # o PROVE Pending(u)' <=> Pending(u)
  <2>1. DOMAIN journal = Records /\ about[u] \in Records /\ u # Nil
    BY <1>1, OperationFacts DEF TypeOK
  <2>2. QED BY <1>3, <1>4, <1>6, <2>1 DEF Pending
<1>7. WroteOwn' BY <1>4 DEF RInv, WroteOwn
<1>8. Replaced'
  <2>1. o \notin landed BY <1>3 DEF Nowhere
  <2>2. QED BY <1>4, <1>6, <2>1 DEF RInv, Replaced
<1>9. ASSUME NEW q \in Procs PROVE Premise(q)'
  <2>1. CASE q = p BY <1>4, <1>5, <2>1 DEF Premise, AsSeen
  <2>2. CASE q # p
    <3>1. run'[q] = run[q] /\ UNCHANGED <<content, saw>> /\ Premise(q)
      BY <1>4, <1>5, <2>2 DEF RInv
    <3>2. QED BY <3>1 DEF Premise
  <2>3. QED BY <2>1, <2>2
<1>10. logical' = logical
  <2>1. \A f \in Files : content[f] # o BY <1>3 DEF Nowhere
  <2>2. \A f \in Files : content[f] \in Ops => (Pending(content[f])' <=> Pending(content[f]))
    BY <1>4, <1>6, <2>1 DEF Pending
  <2>3. QED BY <1>4, <2>2 DEF logical
<1>11. QED BY <1>4, <1>7, <1>8, <1>9, <1>10 DEF RInv

LEMMA RemoveJournalSteps ==
    ASSUME IInv, RInv, NEW p \in Procs, RemoveJournal(p)
    PROVE  RInv' /\ UNCHANGED <<logical, saw>>
<1>0. PICK o : o = run[p].op OBVIOUS
<1>1. TypeOK /\ Progress(p) /\ DOMAIN run = Procs BY RunFacts DEF IInv
<1>2. run[p].at = "close" /\ run[p].at \in Changing /\ Owns(p)
  BY DEF RemoveJournal, Changing, Owns
<1>3. o \in Ops /\ run[p].record \in Records /\ run[p].record = about[o]
  BY <1>0, <1>2, OwnsFacts
<1>4. /\ journal' = [journal EXCEPT ![about[o]] = Nil]
      /\ UNCHANGED <<content, saw, landed>>
      /\ run' = [run EXCEPT ![p] = Idle]
  BY <1>0, <1>3 DEF RemoveJournal, Leave
<1>5. run'[p].at = "idle" /\ \A q \in Procs \ {p} : run'[q] = run[q]
  BY <1>1, <1>4 DEF Idle
<1>6. /\ journal[about[o]] = o
      /\ o \in landed \/ \A f \in Touched(o) : content[f] = saw[o][f]
  BY <1>0, <1>1, <1>2, <1>3 DEF Progress
<1>7. /\ \A u \in Ops \ {o} : Pending(u)' <=> Pending(u)
      /\ ~Pending(o)'
  <2>1. DOMAIN journal = Records BY <1>1 DEF TypeOK
  <2>2. \A u \in Ops : about[u] \in Records /\ u # Nil BY OperationFacts
  <2>3. QED BY <1>3, <1>4, <1>6, <2>1, <2>2 DEF Pending
<1>8. WroteOwn' BY <1>4 DEF RInv, WroteOwn
<1>9. Replaced' BY <1>4, <1>7 DEF RInv, Replaced
<1>10. ASSUME NEW q \in Procs PROVE Premise(q)'
  <2>1. CASE q = p BY <1>5, <2>1 DEF Premise
  <2>2. CASE q # p BY <1>4, <1>5, <2>2 DEF Premise, RInv
  <2>3. QED BY <2>1, <2>2
<1>11. logical' = logical
  <2>1. ASSUME NEW f \in Files PROVE logical'[f] = logical[f]
    <3>1. logical[f] = IF content[f] \in Ops /\ Pending(content[f]) /\ content[f] \notin landed
                         THEN saw[content[f]][f] ELSE content[f]
      BY DEF logical
    <3>2. logical'[f] = IF content[f] \in Ops /\ Pending(content[f])' /\ content[f] \notin landed
                          THEN saw[content[f]][f] ELSE content[f]
      BY <1>4 DEF logical
    <3>3. CASE content[f] = o
      <4>1. f \in Touched(o) BY <1>3, <3>3 DEF RInv, WroteOwn
      <4>2. o \notin landed => saw[o][f] = o BY <1>6, <3>3, <4>1
      <4>3. logical'[f] = o BY <1>4, <1>7, <3>2, <3>3 DEF Pending
      <4>4. QED BY <3>1, <3>3, <4>2, <4>3
    <3>4. CASE content[f] # o
      <4>1. content[f] \in Ops => (Pending(content[f])' <=> Pending(content[f]))
        BY <1>4, <1>7, <3>4 DEF Pending
      <4>2. QED BY <3>1, <3>2, <4>1
    <3>5. QED BY <3>3, <3>4
  <2>2. QED BY <2>1 DEF logical
<1>12. QED BY <1>4, <1>8, <1>9, <1>10, <1>11 DEF RInv

(* An edit by hand is just that. *)
LEMMA EditEdits ==
    ASSUME IInv, RInv, NEW f \in Files, NEW h \in Hands, Edit(f, h)
    PROVE  RInv' /\ Abstract!Edit(f, h)
<1>1. TypeOK BY DEF IInv
<1>2. /\ content' = [content EXCEPT ![f] = h]
      /\ UNCHANGED <<journal, saw, run, landed>>
      /\ \A o \in Ops : f \in Touched(o) /\ journal[about[o]] = o => saw[o][f] # h
      /\ \A q \in Procs : run[q].at \in Changing => f \notin members[run[q].record]
  BY DEF Edit
<1>3. h \notin Ops BY ConstantsAssumption
<1>4. content'[f] = h /\ \A g \in Files \ {f} : content'[g] = content[g]
  BY <1>1, <1>2 DEF TypeOK
<1>5. WroteOwn' BY <1>2, <1>3, <1>4 DEF RInv, WroteOwn
<1>6. Replaced'
  <2>1. ASSUME NEW o \in Ops, Pending(o)', o \in landed', NEW g \in Touched(o)
        PROVE  content'[g] # saw'[o][g]
    <3>1. Pending(o) /\ o \in landed BY <1>2, <2>1 DEF Pending
    <3>2. g \in Files BY <2>1, OperationFacts, DirectoryFacts
    <3>3. CASE g = f BY <1>2, <1>4, <2>1, <3>1, <3>3 DEF Pending
    <3>4. CASE g # f BY <1>2, <1>4, <2>1, <3>1, <3>2, <3>4 DEF RInv, Replaced
    <3>5. QED BY <3>3, <3>4
  <2>2. QED BY <2>1 DEF Replaced
<1>7. ASSUME NEW q \in Procs PROVE Premise(q)'
  <2>1. CASE run[q].at \in {"guards", "apply"}
    <3>1. Owns(q) /\ run[q].at \in Changing BY <2>1 DEF Owns, Changing
    <3>2. run[q].op \in Ops /\ run[q].record \in Records /\ run[q].record = about[run[q].op]
      BY <3>1, OwnsFacts
    <3>3. \A g \in members[about[run[q].op]] : content'[g] = content[g]
      BY <1>2, <1>4, <3>1, <3>2, DirectoryFacts
    <3>4. Premise(q) /\ run'[q] = run[q] BY <1>2 DEF RInv
    <3>5. QED BY <1>2, <3>3, <3>4 DEF Premise
  <2>2. CASE run[q].at \notin {"guards", "apply"} BY <1>2, <2>2 DEF Premise
  <2>3. QED BY <2>1, <2>2
<1>8. logical' = [logical EXCEPT ![f] = h]
  <2>1. ASSUME NEW g \in Files
        PROVE  logical'[g] = IF g = f THEN h ELSE logical[g]
    <3>1. logical[g] = IF content[g] \in Ops /\ Pending(content[g]) /\ content[g] \notin landed
                         THEN saw[content[g]][g] ELSE content[g]
      BY DEF logical
    <3>2. logical'[g] = IF content'[g] \in Ops /\ journal[about[content'[g]]] = content'[g]
                           /\ content'[g] \notin landed
                          THEN saw[content'[g]][g] ELSE content'[g]
      BY <1>2 DEF logical, Pending
    <3>3. CASE g = f BY <1>3, <1>4, <3>2, <3>3
    <3>4. CASE g # f BY <1>4, <3>1, <3>2, <3>4 DEF Pending
    <3>5. QED BY <3>3, <3>4
  <2>2. /\ logical' = [g \in Files |-> logical'[g]]
        /\ logical = [g \in Files |-> logical[g]]
    BY DEF logical
  <2>3. QED BY <2>1, <2>2
<1>9. QED BY <1>2, <1>5, <1>6, <1>7, <1>8 DEF RInv, Abstract!Edit

(* What applying one file does to what the files say. *)
LEMMA ApplyFacts ==
    ASSUME IInv, RInv, NEW p \in Procs, Apply(p), NEW o, o = run[p].op
    PROVE  /\ o \in Ops /\ Pending(o) /\ saw[o] # Nil /\ Touched(o) \subseteq members[about[o]]
           /\ Touched(o) # {} /\ members[about[o]] \subseteq Files
           /\ UNCHANGED <<journal, saw>>
           /\ \A g \in Touched(o) : {content[g], content'[g]} \subseteq {saw[o][g], o}
           /\ \A g \in Files \ Touched(o) : content'[g] = content[g]
           /\ \A g \in members[about[o]] \ Touched(o) : content[g] = saw[o][g]
           /\ \A g \in Touched(o) : saw[o][g] # o
           /\ o \in landed' <=> \A g \in Touched(o) : content'[g] = o
           /\ \A u \in Ops \ {o} : u \in landed' <=> u \in landed
           /\ run'[p].op = o /\ \A q \in Procs \ {p} : run'[q] = run[q]
<1>1. Progress(p) /\ TypeOK BY DEF IInv
<1>2. Owns(p) /\ run[p].at = "apply" /\ run[p].at \in Changing
  BY DEF Apply, Owns, Changing
<1>3. /\ o \in Ops /\ run[p].record = about[o] /\ about[o] \in Records
      /\ Touched(o) \subseteq members[about[o]] /\ Touched(o) # {}
      /\ members[about[o]] \subseteq Files /\ o # Nil
  BY <1>2, OwnsFacts, OperationFacts, DirectoryFacts
<1>4. /\ journal[about[o]] = o /\ saw[o] # Nil
      /\ \A g \in Touched(o) : content[g] \in {saw[o][g], o}
      /\ Rest(run[p].files) \subseteq Touched(o)
  BY <1>1, <1>2, <1>3 DEF Progress, IInv, Journals
<1> DEFINE f == Head(run[p].files)
           v == Image(p, f)
<1>5. f \in Touched(o) /\ Tail(run[p].files) \in Seq(Files)
  <2>1. run[p].files \in Seq(Files) BY <1>1, RunFacts DEF Runs
  <2>2. run[p].files # <<>> BY DEF Apply
  <2>3. /\ Tail(run[p].files) \in Seq(Files)
        /\ Rest(run[p].files) = {f} \cup Rest(Tail(run[p].files))
    BY <2>1, <2>2, RestOfTail
  <2>4. QED BY <1>4, <2>3
<1>6. /\ content' = [content EXCEPT ![f] = v]
      /\ run' = [run EXCEPT ![p].files = Tail(@)]
      /\ landed' = IF \A g \in Touched(o) : content'[g] = o
                     THEN landed \cup {o} ELSE landed \ {o}
      /\ UNCHANGED <<journal, saw>>
  BY DEF Apply
<1>7. v \in {saw[o][f], o} BY DEF Image
<1>8. content'[f] = v /\ \A g \in Files \ {f} : content'[g] = content[g]
  <2> HIDE DEF f, v
  <2>1. DOMAIN content = Files /\ f \in Files BY <1>1, <1>3, <1>5 DEF TypeOK
  <2>2. QED BY <1>6, <2>1
<1> HIDE DEF f, v
<1>9. \A g \in Touched(o) : content'[g] \in {saw[o][g], o}
  <2>1. ASSUME NEW g \in Touched(o) PROVE content'[g] \in {saw[o][g], o}
    <3>1. CASE g = f BY <1>7, <1>8, <3>1
    <3>2. CASE g # f BY <1>3, <1>4, <1>8, <2>1, <3>2
    <3>3. QED BY <3>1, <3>2
  <2>2. QED BY <2>1
<1>10. \A g \in Files \ Touched(o) : content'[g] = content[g] BY <1>5, <1>8
<1>11. \A g \in members[about[o]] \ Touched(o) : content[g] = saw[o][g]
  BY <1>2 DEF RInv, Premise
<1>12. \A g \in Touched(o) : saw[o][g] # o
  BY <1>3, <1>4 DEF IInv, Ordered, Clear
<1>13. o \in landed' <=> \A g \in Touched(o) : content'[g] = o BY <1>6
<1>14. \A u \in Ops \ {o} : u \in landed' <=> u \in landed BY <1>6
<1>15. Moved(p) BY <1>1, <1>5, <1>6, MovedInFiles
<1>16. run'[p].op = o /\ \A q \in Procs \ {p} : run'[q] = run[q] BY <1>15 DEF Moved
<1>17. QED
  BY <1>3, <1>4, <1>6, <1>9, <1>10, <1>11, <1>12, <1>13, <1>14, <1>16 DEF Pending

LEMMA ApplyRInv ==
    ASSUME IInv, RInv, OneAtATime, NEW p \in Procs, Apply(p)
    PROVE  RInv'
<1>0. PICK o : o = run[p].op OBVIOUS
<1>1. /\ o \in Ops /\ Pending(o) /\ saw[o] # Nil /\ Touched(o) \subseteq members[about[o]]
      /\ members[about[o]] \subseteq Files
      /\ UNCHANGED <<journal, saw>>
      /\ \A g \in Touched(o) : content'[g] \in {saw[o][g], o}
      /\ \A g \in Files \ Touched(o) : content'[g] = content[g]
      /\ \A g \in members[about[o]] \ Touched(o) : content[g] = saw[o][g]
      /\ \A g \in Touched(o) : saw[o][g] # o
      /\ o \in landed' <=> \A g \in Touched(o) : content'[g] = o
      /\ \A u \in Ops \ {o} : u \in landed' <=> u \in landed
      /\ run'[p].op = o /\ \A q \in Procs \ {p} : run'[q] = run[q]
  BY <1>0, ApplyFacts
<1>2. WroteOwn'
  <2>1. ASSUME NEW g \in Files, content'[g] \in Ops PROVE g \in Touched(content'[g])
    <3>1. CASE g \in Touched(o)
      <4>1. CASE content'[g] = o BY <3>1, <4>1
      <4>2. CASE content'[g] = saw[o][g]
        BY <1>1, <2>1, <3>1, <4>2 DEF RInv, WroteOwn
      <4>3. QED BY <1>1, <3>1, <4>1, <4>2
    <3>2. CASE g \notin Touched(o) BY <1>1, <2>1, <3>2 DEF RInv, WroteOwn
    <3>3. QED BY <3>1, <3>2
  <2>2. QED BY <1>1, <2>1 DEF RInv, WroteOwn
<1>3. Replaced'
  <2>1. ASSUME NEW u \in Ops, Pending(u)', u \in landed', NEW g \in Touched(u)
        PROVE  content'[g] # saw'[u][g]
    <3>1. CASE u = o BY <1>1, <2>1, <3>1
    <3>2. CASE u # o
      <4>1. Pending(u) /\ u \in landed BY <1>1, <2>1, <3>2 DEF Pending
      <4>2. g \in Files \ Touched(o)
        BY <1>1, <2>1, <3>2, <4>1, OperationFacts, DirectoryFacts DEF OneAtATime
      <4>3. QED BY <1>1, <2>1, <4>1, <4>2 DEF RInv, Replaced
    <3>3. QED BY <3>1, <3>2
  <2>2. QED BY <2>1 DEF Replaced
<1>4. ASSUME NEW q \in Procs PROVE Premise(q)'
  <2>1. CASE q = p BY <1>1, <2>1 DEF Premise
  <2>2. CASE q # p /\ run[q].at \in {"guards", "apply"}
    <3>1. Owns(q) /\ Owns(p) BY <2>2 DEF Owns, Changing, Apply
    <3>2. /\ run[q].op \in Ops /\ run[q].record \in Records
          /\ run[q].record = about[run[q].op] /\ run[p].record = about[o]
      BY <1>0, <3>1, OwnsFacts
    <3>3. members[about[run[q].op]] \cap members[about[o]] = {} BY <2>2, <3>1, <3>2, Apart
    <3>4. \A g \in members[about[run[q].op]] : content'[g] = content[g]
      BY <1>1, <3>2, <3>3, DirectoryFacts
    <3>5. Premise(q) /\ run'[q] = run[q] BY <1>1, <2>2 DEF RInv
    <3>6. QED BY <1>1, <3>4, <3>5 DEF Premise
  <2>3. CASE q # p /\ run[q].at \notin {"guards", "apply"} BY <1>1, <2>3 DEF Premise
  <2>4. QED BY <2>1, <2>2, <2>3
<1>5. QED BY <1>2, <1>3, <1>4 DEF RInv

(* Applying a file commits the operation when it was the last of them, takes
   it back when it was the first to be put back, and shows nothing otherwise. *)
LEMMA ApplyCommits ==
    ASSUME IInv, RInv, OneAtATime, NEW p \in Procs, Apply(p)
    PROVE  \/ \E o \in Ops : Abstract!Commit(o) \/ Abstract!Undo(o)
           \/ UNCHANGED <<logical, saw>>
<1>0. PICK o : o = run[p].op OBVIOUS
<1>1. /\ o \in Ops /\ Pending(o) /\ saw[o] # Nil /\ Touched(o) \subseteq members[about[o]]
      /\ Touched(o) # {} /\ members[about[o]] \subseteq Files
      /\ UNCHANGED <<journal, saw>>
      /\ \A g \in Touched(o) : {content[g], content'[g]} \subseteq {saw[o][g], o}
      /\ \A g \in Files \ Touched(o) : content'[g] = content[g]
      /\ \A g \in members[about[o]] \ Touched(o) : content[g] = saw[o][g]
      /\ o \in landed' <=> \A g \in Touched(o) : content'[g] = o
      /\ \A u \in Ops \ {o} : u \in landed' <=> u \in landed
  BY <1>0, ApplyFacts
<1>2. WroteOwn /\ Replaced /\ WroteOwn' /\ OneAtATime'
  <2>1. RInv' BY ApplyRInv
  <2>2. OneAtATime' BY <1>1 DEF OneAtATime, Pending
  <2>3. QED BY <2>1, <2>2 DEF RInv
<1>3. Pending(o)' BY <1>1 DEF Pending
<1>4. ASSUME NEW g \in members[about[o]] \ Touched(o)
      PROVE  logical[g] = saw[o][g] /\ logical'[g] = saw[o][g]
  <2>1. g \in Files /\ content[g] = saw[o][g] /\ content'[g] = saw'[o][g] /\ g \notin Touched(o)
        /\ g \in members[about[o]]
    BY <1>1
  <2>2. logical[g] = saw[o][g] BY <1>1, <1>2, <2>1, LogicalOfPending
  <2>3. logical'[g] = saw'[o][g] BY <1>1, <1>2, <1>3, <2>1, LaterOfPending
  <2>4. QED BY <1>1, <2>2, <2>3
<1>5. ASSUME NEW g \in Touched(o)
      PROVE  logical[g] = IF o \in landed THEN o ELSE saw[o][g]
  <2>1. g \in Files /\ g \in members[about[o]] /\ content[g] \in {saw[o][g], o} BY <1>1
  <2>2. o \in landed => content[g] = o BY <1>1, <1>2, <2>1 DEF Replaced
  <2>3. QED BY <1>1, <1>2, <2>1, <2>2, LogicalOfPending
<1>6. ASSUME NEW g \in Touched(o)
      PROVE  logical'[g] = IF o \in landed' THEN o ELSE saw[o][g]
  <2>1. g \in Files /\ g \in members[about[o]] /\ content'[g] \in {saw'[o][g], o} BY <1>1
  <2>2. o \in landed' => content'[g] = o BY <1>1
  <2>3. /\ o \notin landed' => logical'[g] = saw'[o][g]
        /\ content'[g] = o /\ o \in landed' => logical'[g] = o
    BY <1>1, <1>2, <1>3, <2>1, LaterOfPending
  <2>4. QED BY <1>1, <2>2, <2>3
<1>7. ASSUME NEW g \in Files \ members[about[o]] PROVE logical'[g] = logical[g]
  <2>1. content'[g] = content[g] /\ UNCHANGED <<journal, saw>> BY <1>1
  <2>2. content[g] # o BY <1>1, <1>2 DEF WroteOwn
  <2>3. content[g] \in Ops => (content[g] \in landed' <=> content[g] \in landed)
    BY <1>1, <2>2
  <2>4. logical[g] = IF content[g] \in Ops /\ journal[about[content[g]]] = content[g]
                        /\ content[g] \notin landed
                       THEN saw[content[g]][g] ELSE content[g]
    BY DEF logical, Pending
  <2>5. logical'[g] = IF content[g] \in Ops /\ journal[about[content[g]]] = content[g]
                         /\ content[g] \notin landed'
                        THEN saw[content[g]][g] ELSE content[g]
    BY <2>1 DEF logical, Pending
  <2>6. QED BY <2>3, <2>4, <2>5
<1>8. /\ logical' = [g \in Files |-> logical'[g]]
      /\ logical = [g \in Files |-> logical[g]]
  BY DEF logical
<1>9. \A g \in Files \ Touched(o) : logical'[g] = logical[g] BY <1>4, <1>7
<1>10. CASE o \notin landed /\ o \in landed'
  <2>1. \A g \in members[about[o]] : logical[g] = saw[o][g] BY <1>4, <1>5, <1>10
  <2>2. logical' = [g \in Files |-> IF g \in Touched(o) THEN o ELSE logical[g]]
    BY <1>6, <1>8, <1>9, <1>10
  <2>3. Abstract!Commit(o) BY <1>1, <2>1, <2>2 DEF Abstract!Commit, Abstract!StillSeen
  <2>4. QED BY <1>1, <2>3
<1>11. CASE o \in landed /\ o \notin landed'
  <2>1. \A g \in Touched(o) : logical[g] = o BY <1>5, <1>11
  <2>2. logical' = [g \in Files |-> IF g \in Touched(o) THEN saw[o][g] ELSE logical[g]]
    BY <1>6, <1>8, <1>9, <1>11
  <2>3. Abstract!Undo(o) BY <1>1, <2>1, <2>2 DEF Abstract!Undo
  <2>4. QED BY <1>1, <2>3
<1>12. CASE o \in landed <=> o \in landed'
  <2>1. \A g \in Files : logical'[g] = logical[g] BY <1>5, <1>6, <1>9, <1>12
  <2>2. QED BY <1>1, <1>8, <2>1
<1>13. QED BY <1>10, <1>11, <1>12

LEMMA RecordsStep ==
    ASSUME IInv, RInv, OneAtATime, [Next]_vars
    PROVE  RInv' /\ [Abstract!Next]_<<logical, saw>>
<1>1. CASE UNCHANGED vars
  <2>1. UNCHANGED <<content, journal, saw, landed, run>> BY <1>1 DEF vars, disk
  <2>2. RInv' BY <2>1 DEF RInv, WroteOwn, Replaced, Premise, Pending
  <2>3. UNCHANGED <<logical, saw>> BY <2>1 DEF logical, Pending
  <2>4. QED BY <2>2, <2>3
<1>2. ASSUME NEW f \in Files, NEW h \in Hands, Edit(f, h)
      PROVE  RInv' /\ Abstract!Next
  BY <1>2, EditEdits DEF Abstract!Next
<1>3. ASSUME NEW p \in Procs, Start(p) \/ Aside(p)
      PROVE  RInv' /\ UNCHANGED <<logical, saw>>
  BY <1>3, StartIsCalm, AsideIsCalm, CalmInv DEF IInv
<1>4. ASSUME NEW p \in Procs, Prepare(p) PROVE RInv' /\ Abstract!Next
  BY <1>4, PrepareReads DEF Abstract!Next
<1>5. ASSUME NEW p \in Procs, WriteJournal(p) \/ RemoveJournal(p)
      PROVE  RInv' /\ UNCHANGED <<logical, saw>>
  BY <1>5, WriteJournalSteps, RemoveJournalSteps
<1>6. ASSUME NEW p \in Procs, Apply(p)
      PROVE  RInv' /\ (Abstract!Next \/ UNCHANGED <<logical, saw>>)
  BY <1>6, ApplyRInv, ApplyCommits DEF Abstract!Next
<1>7. ASSUME NEW p \in Procs, Start(p) \/ LockDirectory(p) \/ Step(p) \/ Die(p)
      PROVE  \/ Start(p) \/ Aside(p) \/ Prepare(p)
             \/ WriteJournal(p) \/ RemoveJournal(p) \/ Apply(p)
  BY <1>7 DEF Step, Aside
<1>8. QED BY <1>1, <1>2, <1>3, <1>4, <1>5, <1>6, <1>7 DEF Next

LEMMA RecordsInit ==
    ASSUME Init
    PROVE  RInv /\ Abstract!Init
<1>1. Nil \notin Ops BY ConstantsAssumption
<1>2. WroteOwn /\ Replaced BY <1>1 DEF Init, WroteOwn, Replaced
<1>3. \A p \in Procs : run[p].at = "idle" BY DEF Init, Idle
<1>4. RInv BY <1>2, <1>3 DEF RInv, Premise
<1>5. logical = [f \in Files |-> Nil] BY <1>1 DEF Init, logical
<1>6. QED BY <1>4, <1>5 DEF Init, Abstract!Init

(* As long as no two operations are pending whose records share a file, the
   ordinary writer keeps its promise through any number of deaths, recoveries
   and edits: an operation reads its record at one moment and changes its files
   at one moment, if they are then as it read them, and a recovery takes back
   or completes the whole of it (publish_legacy, recover_legacy). *)
THEOREM WriterIsAtomic == Spec /\ []OneAtATime => ImplementsAtomicRecords
<1>1. Init => RInv /\ Abstract!Init BY RecordsInit
<1>2. IInv /\ RInv /\ OneAtATime /\ [Next]_vars => RInv' /\ [Abstract!Next]_<<logical, saw>>
  BY RecordsStep
<1>3. Spec /\ []OneAtATime => Abstract!Init /\ [][Abstract!Next]_<<logical, saw>>
  BY <1>1, <1>2, Invariance, PTL DEF Spec
<1>4. QED BY <1>3 DEF ImplementsAtomicRecords, Abstract!Spec

(* Of records that share no file one operation each can be pending, one beside
   another: for them the promise is kept without a condition. *)
THEOREM DisjointRecordsAreAtomic ==
    ASSUME \A r, s \in Records : r # s => members[r] \cap members[s] = {}
    PROVE  Spec => ImplementsAtomicRecords
<1>1. OneAtATime
  <2>1. ASSUME NEW o \in Ops, NEW u \in Ops, o # u, Pending(o), Pending(u)
        PROVE  members[about[o]] \cap members[about[u]] = {}
    <3>1. about[o] # about[u] BY <2>1 DEF Pending
    <3>2. QED BY <3>1, OperationFacts
  <2>2. QED BY <2>1 DEF OneAtATime
<1>2. QED BY <1>1, WriterIsAtomic, PTL
=============================================================================
