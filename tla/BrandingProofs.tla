--------------------------- MODULE BrandingProofs ---------------------------
(***************************************************************************)
(* Proofs about Branding, for any characters, styles, projects, jobs, API  *)
(* sessions and workers: the last approval of a kind stands, free numbers, *)
(* one group of sheets per character version, one branding per episode.    *)
(***************************************************************************)
EXTENDS Branding, FiniteSetTheorems, TLAPS

TxnRow == [op : {"none", "create", "approve", "superseding", "resolve",
                 "resolving", "pin", "image"},
           on : Item \cup Project \cup {Nothing}, seen : BrandingStatus \cup {Absent},
           no : Nat, old : SUBSET Item, pin : Pin]
RunRow == [at : {"idle", "claimed", "sheets", "frames"}, of : Job \cup Project \cup {Nothing},
           seen : BrandingStatus \cup {Absent}, style : Style \cup {Nothing}, pin : Pin]

Whole(p) == p.character \in Character /\ p.style \in Style
Existing(kin) == {k \in kin : status[k] # Absent}

(* What an open transaction has read still holds when it commits. *)
TxnOK(t) ==
    /\ t \in TxnRow
    /\ t.op = "create" => t.on \in Item /\ status[t.on] = Absent
                            /\ t.no = Cardinality(Existing(Kin(t.on))) + 1
    /\ t.op \in {"approve", "superseding"} => t.on \in Item /\ status[t.on] # Absent
    /\ t.op = "superseding" => t.on \notin t.old /\ t.old \subseteq Kin(t.on)
    /\ t.op \in {"resolve", "resolving", "pin", "image"} => t.on \in Project
    /\ t.op = "resolving" => t.pin.character \in Character
    /\ t.op = "pin" => Whole(t.pin)
    /\ t.op = "image" => Whole(pin[t.on])

OneCreates == \A s, o \in Session : txn[s].op = "create" /\ txn[o].op = "create" => s = o

(* What a busy worker relies on: its job is RUNNING, its pin is the one    *)
(* its project keeps.                                                      *)
RunOK(r) ==
    /\ r \in RunRow
    /\ r.at \in {"claimed", "sheets"} => r.of \in Job /\ job[r.of].status = "RUNNING"
    /\ r.at = "sheets" => r.style \in Style
    /\ r.at = "frames" => r.of \in Project /\ Whole(r.pin) /\ r.pin = pin[r.of]

Busy(w) == run[w].at \in {"claimed", "sheets"}
OwnJobs == \A w, u \in Worker : Busy(w) /\ Busy(u) /\ run[w].of = run[u].of => w = u

(* Numbers count the rows of a kind. *)
Numbered ==
    /\ \A i \in Item : version_no[i] # 0 => status[i] # Absent
    /\ \A i \in Item : version_no[i] <= Cardinality(Existing(Kin(i)))
    /\ \A i, k \in Item :
          i # k /\ Kin(i) = Kin(k) /\ version_no[i] # 0 => version_no[i] # version_no[k]

(* The jobs that hold the key of a character version. *)
Holds(j) == job[j].status \in JobStatus \ DeadStatuses

Keyed ==
    /\ \A j \in Job : job[j].status # Absent =>
          job[j].character \in Character /\ status[job[j].character] # Absent
    /\ \A j, k \in Job : Holds(j) /\ Holds(k) /\ job[j].character = job[k].character => j = k

Drawn ==
    /\ \A a \in sheets : job[a.group] = [status |-> "SUCCEEDED", character |-> a.character]
    /\ \A a, b \in sheets : a.group = b.group => a = b

Pinned ==
    /\ \A p \in Project : pin[p] = NoPin \/ Whole(pin[p])
    /\ \A p \in wanted : Whole(pin[p])

IInv ==
    /\ TypeOK
    /\ \A s \in Session : TxnOK(txn[s])
    /\ \A w \in Worker : RunOK(run[w])
    /\ OneCreates
    /\ OwnJobs
    /\ Numbered
    /\ Keyed
    /\ Drawn
    /\ Pinned
    /\ FramesShareBranding

-----------------------------------------------------------------------------
(* Kinds of item, and how many items of a kind there are.                  *)

(* An item belongs to its kind, and so do all items of it. *)
LEMMA KinFacts ==
    ASSUME NEW i \in Item
    PROVE  Kin(i) \subseteq Item /\ i \in Kin(i) /\ \A k \in Kin(i) : Kin(k) = Kin(i)
  BY BrandingAssumption DEF Kin, Item

(* Sets of items are counted by natural numbers, which grow one at a time. *)
LEMMA Counting ==
    /\ \A S \in SUBSET Item : Cardinality(S) \in Nat
    /\ \A S \in SUBSET Item, i \in Item :
          i \notin S => Cardinality(S \cup {i}) = Cardinality(S) + 1
  <1>1. \A S \in SUBSET Item : IsFiniteSet(S)
    BY FS_Subset, BrandingAssumption
  <1>2. QED BY <1>1, FS_CardinalityType, FS_AddElement

(* The rows that stand for nothing. *)
LEMMA Constants ==
    /\ NoPin \in Pin /\ ~Whole(NoPin)
    /\ Closed \in TxnRow /\ Closed.op = "none"
    /\ Idle \in RunRow /\ Idle.at = "idle"
    /\ Absent \notin JobStatus /\ Absent \notin BrandingStatus
  BY BrandingAssumption
     DEF NoPin, Pin, Whole, Closed, TxnRow, Idle, RunRow, Item, Absent, Nothing, JobStatus,
         BrandingStatus

(* Nothing has happened: every row is absent and everybody idle. *)
LEMMA InitIInv == Init => IInv
  <1> SUFFICES ASSUME Init PROVE IInv
    OBVIOUS
  <1> USE Constants
  <1>1. TypeOK
    BY DEF Init, TypeOK, JobRow, TxnRow, RunRow
  <1>2. (\A s \in Session : TxnOK(txn[s])) /\ OneCreates
    BY DEF Init, TxnOK, OneCreates
  <1>3. (\A w \in Worker : RunOK(run[w])) /\ OwnJobs
    BY DEF Init, RunOK, OwnJobs, Busy
  <1>4. Numbered
    <2>1. \A i \in Item : Existing(Kin(i)) \in SUBSET Item
      BY KinFacts DEF Existing
    <2>2. \A i \in Item : version_no[i] = 0
      BY DEF Init
    <2> QED BY <2>1, <2>2, Counting DEF Numbered
  <1>5. Keyed
    BY DEF Init, Keyed, Holds
  <1>6. Drawn /\ Pinned
    BY DEF Init, Drawn, Pinned
  <1>7. FramesShareBranding
    BY DEF Init, FramesShareBranding
  <1> QED BY <1>1, <1>2, <1>3, <1>4, <1>5, <1>6, <1>7 DEF IInv

-----------------------------------------------------------------------------
(* Steps that only read.                                                   *)

(* A session that takes note of what it reads. *)
LEMMA SessionReads ==
    ASSUME IInv, NEW s \in Session, NEW t, Open(s, t), TxnOK(t),
           t.op = "create" => \A o \in Session : o # s => txn[o].op # "create",
           UNCHANGED <<items, job, sheets, pin, wanted, frames, run>>
    PROVE  IInv'
  <1> USE DEF items
  <1>1. t \in TxnRow
    BY DEF TxnOK
  <1>2. \A o \in Session : txn'[o] = IF o = s THEN t ELSE txn[o]
    BY DEF IInv, TypeOK, Open
  <1>3. TypeOK'
    BY <1>1 DEF IInv, TypeOK, Open, TxnRow
  <1>4. (\A o \in Session : TxnOK(txn[o]))'
    <2> SUFFICES ASSUME NEW o \in Session PROVE TxnOK(txn[o])'
      OBVIOUS
    <2>1. txn'[o] = t \/ txn'[o] = txn[o]
      BY <1>2
    <2>2. TxnOK(txn'[o])
      BY <2>1 DEF IInv
    <2> QED BY <2>2 DEF TxnOK, Existing
  <1>5. OneCreates'
    BY <1>2 DEF IInv, OneCreates
  <1>6. (\A w \in Worker : RunOK(run[w]))' /\ OwnJobs'
    BY DEF IInv, RunOK, OwnJobs, Busy
  <1>7. Numbered' /\ Keyed' /\ Drawn' /\ Pinned' /\ FramesShareBranding'
    BY DEF IInv, Numbered, Existing, Keyed, Holds, Drawn, Pinned, FramesShareBranding
  <1> QED BY <1>3, <1>4, <1>5, <1>6, <1>7 DEF IInv

(* A session that gives up. *)
LEMMA SessionCloses ==
    ASSUME IInv, NEW s \in Session, Close(s),
           UNCHANGED <<items, job, sheets, pin, wanted, frames, run>>
    PROVE  IInv'
  <1>1. TxnOK(Closed) /\ Closed.op # "create"
    BY Constants DEF TxnOK
  <1>2. Open(s, Closed)
    BY DEF Open, Close
  <1> QED BY <1>1, <1>2, SessionReads

(* The queries find items of the kind asked for. *)
LEMMA ApprovedFacts ==
    /\ Approved(Character) \subseteq Character
    /\ Approved(Style) \subseteq Style
    /\ \A i \in Item : Approved(Kin(i)) \subseteq Item
  BY KinFacts DEF Approved

(* CreateBegin holds the lock and a number beyond all given. *)
LEMMA CreateBeginStep ==
    ASSUME IInv, NEW s \in Session, NEW i \in Item, CreateBegin(s, i)
    PROVE  IInv'
  <1> DEFINE t == [Closed EXCEPT !.op = "create", !.on = i, !.no = NextNo(i)]
  <1>1. Existing(Kin(i)) \in SUBSET Item /\ NextNo(i) = Cardinality(Existing(Kin(i))) + 1
    BY KinFacts DEF Existing, NextNo
  <1>2. NextNo(i) \in Nat
    BY <1>1, Counting
  <1>3. t \in TxnRow /\ t.op = "create" /\ t.on = i /\ t.no = NextNo(i)
    BY <1>2, Constants DEF TxnRow, Closed
  <1> HIDE DEF t
  <1>4. TxnOK(t)
    BY <1>1, <1>3 DEF TxnOK, CreateBegin
  <1>5. Open(s, t) /\ UNCHANGED <<items, job, sheets, pin, wanted, frames, run>>
    BY DEF CreateBegin, t
  <1>6. \A o \in Session : o # s => txn[o].op # "create"
    BY DEF CreateBegin
  <1> QED BY <1>4, <1>5, <1>6, SessionReads

(* ApproveBegin loads a row that exists. *)
LEMMA ApproveBeginStep ==
    ASSUME IInv, NEW s \in Session, NEW i \in Item, ApproveBegin(s, i)
    PROVE  IInv'
  <1> DEFINE t == [Closed EXCEPT !.op = "approve", !.on = i, !.seen = status[i]]
  <1>1. status[i] \in BrandingStatus \cup {Absent}
    BY DEF IInv, TypeOK
  <1>2. t \in TxnRow /\ t.op = "approve" /\ t.on = i
    BY <1>1, Constants DEF TxnRow, Closed
  <1> HIDE DEF t
  <1>3. TxnOK(t)
    BY <1>2 DEF TxnOK, ApproveBegin
  <1>4. Open(s, t) /\ UNCHANGED <<items, job, sheets, pin, wanted, frames, run>>
    BY DEF ApproveBegin, t
  <1> QED BY <1>2, <1>3, <1>4, SessionReads

(* ApproveSupersedes finds its incumbents. *)
LEMMA ApproveSupersedesStep ==
    ASSUME IInv, NEW s \in Session, ApproveSupersedes(s)
    PROVE  IInv'
  <1> DEFINE old == Approved(Kin(txn[s].on)) \ {txn[s].on}
             t == [txn[s] EXCEPT !.op = "superseding", !.old = old]
  <1>1. TxnOK(txn[s]) /\ txn[s].op = "approve" /\ txn[s] \in TxnRow
    BY DEF IInv, TxnOK, ApproveSupersedes
  <1>2. txn[s].on \in Item /\ status[txn[s].on] # Absent
    BY <1>1 DEF TxnOK
  <1>3. old \in SUBSET Item /\ txn[s].on \notin old /\ old \subseteq Kin(txn[s].on)
    BY <1>2, ApprovedFacts DEF Approved
  <1> HIDE DEF old
  <1>4. t \in TxnRow /\ t.op = "superseding" /\ t.on = txn[s].on /\ t.old = old
    BY <1>1, <1>3 DEF TxnRow
  <1>5. Open(s, t) /\ UNCHANGED <<items, job, sheets, pin, wanted, frames, run>>
    BY DEF ApproveSupersedes, old
  <1> HIDE DEF t
  <1>6. TxnOK(t)
    BY <1>2, <1>3, <1>4 DEF TxnOK
  <1> QED BY <1>4, <1>5, <1>6, SessionReads

(* ImageBegin takes a project that is pinned, or resolves its branding. *)
LEMMA ImageBeginStep ==
    ASSUME IInv, NEW s \in Session, NEW p \in Project, ImageBegin(s, p)
    PROVE  IInv'
  <1> DEFINE t == [Closed EXCEPT !.op = IF pin[p] = NoPin THEN "resolve" ELSE "image",
                                 !.on = p]
  <1>1. t \in TxnRow /\ t.on = p /\ t.op = IF pin[p] = NoPin THEN "resolve" ELSE "image"
    BY Constants DEF TxnRow, Closed
  <1> HIDE DEF t
  <1>2. pin[p] = NoPin \/ Whole(pin[p])
    BY DEF IInv, Pinned
  <1>3. TxnOK(t)
    BY <1>1, <1>2 DEF TxnOK
  <1>4. Open(s, t) /\ UNCHANGED <<items, job, sheets, pin, wanted, frames, run>>
    BY DEF ImageBegin, t
  <1> QED BY <1>1, <1>3, <1>4, SessionReads

(* ImageResolvesCharacter refuses, or notes an approved character. *)
LEMMA ImageResolvesCharacterStep ==
    ASSUME IInv, NEW s \in Session, ImageResolvesCharacter(s)
    PROVE  IInv'
  <1>1. TxnOK(txn[s]) /\ txn[s].op = "resolve" /\ txn[s] \in TxnRow
    BY DEF IInv, TxnOK, ImageResolvesCharacter
  <1>2. UNCHANGED <<items, job, sheets, pin, wanted, frames, run>>
    BY DEF ImageResolvesCharacter
  <1>3. CASE Approved(Character) = {}
    BY <1>2, <1>3, SessionCloses DEF ImageResolvesCharacter
  <1>4. CASE Approved(Character) # {}
    <2>1. PICK c \in Approved(Character) :
             Open(s, [txn[s] EXCEPT !.op = "resolving", !.pin.character = c])
      BY <1>4 DEF ImageResolvesCharacter
    <2> DEFINE t == [txn[s] EXCEPT !.op = "resolving", !.pin.character = c]
    <2>2. c \in Character
      BY <2>1, ApprovedFacts
    <2>3. t \in TxnRow /\ t.op = "resolving" /\ t.on = txn[s].on /\ t.pin.character = c
      BY <1>1, <2>2 DEF TxnRow, Pin
    <2>4. Open(s, t)
      BY <2>1
    <2> HIDE DEF t
    <2>5. TxnOK(t)
      BY <1>1, <2>2, <2>3 DEF TxnOK
    <2> QED BY <1>2, <2>3, <2>4, <2>5, SessionReads
  <1> QED BY <1>3, <1>4

(* ImageResolvesStyle refuses, or notes an approved style. *)
LEMMA ImageResolvesStyleStep ==
    ASSUME IInv, NEW s \in Session, ImageResolvesStyle(s)
    PROVE  IInv'
  <1>1. TxnOK(txn[s]) /\ txn[s].op = "resolving" /\ txn[s] \in TxnRow
    BY DEF IInv, TxnOK, ImageResolvesStyle
  <1>2. UNCHANGED <<items, job, sheets, pin, wanted, frames, run>>
    BY DEF ImageResolvesStyle
  <1>3. CASE Approved(Style) = {}
    BY <1>2, <1>3, SessionCloses DEF ImageResolvesStyle
  <1>4. CASE Approved(Style) # {}
    <2>1. PICK y \in Approved(Style) :
             Open(s, [txn[s] EXCEPT !.op = "pin", !.pin.style = y])
      BY <1>4 DEF ImageResolvesStyle
    <2> DEFINE t == [txn[s] EXCEPT !.op = "pin", !.pin.style = y]
    <2>2. y \in Style
      BY <2>1, ApprovedFacts
    <2>3. /\ t \in TxnRow /\ t.op = "pin" /\ t.on = txn[s].on
          /\ t.pin.character = txn[s].pin.character /\ t.pin.style = y
      BY <1>1, <2>2 DEF TxnRow, Pin
    <2>4. Open(s, t)
      BY <2>1
    <2> HIDE DEF t
    <2>5. TxnOK(t)
      BY <1>1, <2>2, <2>3 DEF TxnOK, Whole
    <2> QED BY <1>2, <2>3, <2>4, <2>5, SessionReads
  <1> QED BY <1>3, <1>4

-----------------------------------------------------------------------------
(* Steps of a worker that only read, or give up.                           *)

(* A worker takes note of what it reads. *)
LEMMA WorkerReads ==
    ASSUME IInv, NEW w \in Worker, NEW r, Goes(w, r), RunOK(r),
           r.at \in {"claimed", "sheets"} => Busy(w) /\ r.of = run[w].of,
           wanted' \subseteq wanted,
           UNCHANGED <<items, job, sheets, pin, frames, txn>>
    PROVE  IInv'
  <1> USE DEF items
  <1>1. r \in RunRow
    BY DEF RunOK
  <1>2. \A u \in Worker : run'[u] = IF u = w THEN r ELSE run[u]
    BY DEF IInv, TypeOK, Goes
  <1>3. TypeOK'
    BY <1>1 DEF IInv, TypeOK, Goes, RunRow
  <1>4. (\A u \in Worker : RunOK(run[u]))'
    BY <1>2 DEF IInv, RunOK
  <1>5. OwnJobs'
    BY <1>2 DEF IInv, OwnJobs, Busy
  <1>6. (\A s \in Session : TxnOK(txn[s]))' /\ OneCreates'
    BY DEF IInv, TxnOK, Existing, OneCreates
  <1>7. Numbered' /\ Keyed' /\ Drawn' /\ Pinned' /\ FramesShareBranding'
    BY DEF IInv, Numbered, Existing, Keyed, Holds, Drawn, Pinned, FramesShareBranding
  <1> QED BY <1>3, <1>4, <1>5, <1>6, <1>7 DEF IInv

(* SheetsDie and FramesFail leave an idle worker. *)
LEMMA WorkerStops ==
    ASSUME IInv, NEW w \in Worker, Goes(w, Idle),
           UNCHANGED <<items, job, sheets, pin, wanted, frames, txn>>
    PROVE  IInv'
  <1>1. RunOK(Idle) /\ Idle.at \notin {"claimed", "sheets"}
    BY Constants DEF RunOK
  <1> QED BY <1>1, WorkerReads

(* SheetsBegin notes the approved style. *)
LEMMA SheetsBeginStep ==
    ASSUME IInv, NEW w \in Worker, SheetsBegin(w)
    PROVE  IInv'
  <1> DEFINE c == job[run[w].of].character
  <1>1. RunOK(run[w]) /\ run[w] \in RunRow /\ run[w].at = "claimed" /\ run[w].of \in Job
    BY DEF IInv, RunOK, SheetsBegin
  <1>2. job[run[w].of].status = "RUNNING"
    BY <1>1 DEF RunOK
  <1>3. c \in Item
    BY <1>1, <1>2 DEF IInv, Keyed, Item, Absent
  <1>4. status[c] \in BrandingStatus \cup {Absent}
    BY <1>3 DEF IInv, TypeOK
  <1>5. PICK y \in Approved(Style) :
           Goes(w, [run[w] EXCEPT !.at = "sheets", !.seen = status[c], !.style = y])
    BY DEF SheetsBegin
  <1>6. y \in Style
    BY <1>5, ApprovedFacts
  <1> DEFINE r == [run[w] EXCEPT !.at = "sheets", !.seen = status[c], !.style = y]
  <1>7. r \in RunRow /\ r.at = "sheets" /\ r.of = run[w].of /\ r.style = y
    BY <1>1, <1>4, <1>6 DEF RunRow
  <1>8. Goes(w, r) /\ UNCHANGED <<items, job, sheets, pin, wanted, frames, txn>>
    BY <1>5 DEF SheetsBegin
  <1> HIDE DEF r
  <1>9. RunOK(r)
    BY <1>1, <1>2, <1>6, <1>7 DEF RunOK
  <1> QED BY <1>1, <1>7, <1>8, <1>9, WorkerReads DEF Busy

(* FramesBegin reads the pin of a project whose image job was requested. *)
LEMMA FramesBeginStep ==
    ASSUME IInv, NEW w \in Worker, NEW p \in Project, FramesBegin(w, p)
    PROVE  IInv'
  <1> DEFINE r == [Idle EXCEPT !.at = "frames", !.of = p, !.pin = pin[p]]
  <1>1. Whole(pin[p]) /\ pin[p] \in Pin
    BY DEF IInv, TypeOK, Pinned, FramesBegin
  <1>2. r \in RunRow /\ r.at = "frames" /\ r.of = p /\ r.pin = pin[p]
    BY <1>1, Constants DEF RunRow, Idle
  <1>3. Goes(w, r) /\ wanted' \subseteq wanted /\ UNCHANGED <<items, job, sheets, pin, frames, txn>>
    BY DEF FramesBegin
  <1> HIDE DEF r
  <1>4. RunOK(r)
    BY <1>1, <1>2 DEF RunOK
  <1> QED BY <1>2, <1>3, <1>4, WorkerReads

-----------------------------------------------------------------------------
(* Steps that write the items.                                             *)

(* Which items exist matters, not what status they have. *)
LEMMA SameItems ==
    ASSUME IInv, NEW s \in Session, Close(s), status' \in [Item -> BrandingStatus \cup {Absent}],
           \A i \in Item : status'[i] = Absent <=> status[i] = Absent,
           UNCHANGED <<version_no, job, sheets, pin, wanted, frames, run>>
    PROVE  IInv'
  <1>1. \A o \in Session : txn'[o] = IF o = s THEN Closed ELSE txn[o]
    BY DEF IInv, TypeOK, Close
  <1>2. TypeOK'
    BY Constants DEF IInv, TypeOK, Close, TxnRow
  <1>3. \A i \in Item : Existing(Kin(i))' = Existing(Kin(i))
    BY KinFacts DEF Existing
  <1>4. (\A o \in Session : TxnOK(txn[o]))'
    <2> SUFFICES ASSUME NEW o \in Session PROVE TxnOK(txn[o])'
      OBVIOUS
    <2>1. CASE o = s
      BY <1>1, <2>1, Constants DEF TxnOK
    <2>2. CASE o # s
      <3>1. txn'[o] = txn[o] /\ TxnOK(txn[o])
        BY <1>1, <2>2 DEF IInv
      <3> QED BY <3>1, <1>3 DEF TxnOK
    <2> QED BY <2>1, <2>2
  <1>5. OneCreates'
    BY <1>1, Constants DEF IInv, OneCreates
  <1>6. (\A w \in Worker : RunOK(run[w]))' /\ OwnJobs'
    BY DEF IInv, RunOK, OwnJobs, Busy
  <1>7. Numbered'
    BY <1>3 DEF IInv, Numbered
  <1>8. Keyed'
    BY DEF IInv, Keyed, Holds, Item
  <1>9. Drawn' /\ Pinned' /\ FramesShareBranding'
    BY DEF IInv, Drawn, Pinned, FramesShareBranding
  <1> QED BY <1>2, <1>4, <1>5, <1>6, <1>7, <1>8, <1>9 DEF IInv

(* ApproveCommit: no row appears or goes. *)
LEMMA ApproveCommitStep ==
    ASSUME IInv, NEW s \in Session, ApproveCommit(s)
    PROVE  IInv'
  <1> DEFINE t == txn[s]
  <1>1. TxnOK(t) /\ t.op = "superseding"
    BY DEF IInv, ApproveCommit
  <1>2. t.on \in Item /\ status[t.on] # Absent
    BY <1>1 DEF TxnOK
  <1>3. \A k \in Item :
           status'[k] = IF k \in t.old /\ status[k] = "APPROVED" THEN "SUPERSEDED"
                        ELSE IF k = t.on /\ t.seen # "APPROVED" THEN "APPROVED" ELSE status[k]
    BY DEF ApproveCommit, AfterApproval
  <1>4. status' \in [Item -> BrandingStatus \cup {Absent}]
    BY <1>3 DEF ApproveCommit, AfterApproval, IInv, TypeOK, BrandingStatus
  <1>5. \A i \in Item : status'[i] = Absent <=> status[i] = Absent
    BY <1>2, <1>3 DEF Absent
  <1>6. Close(s) /\ UNCHANGED <<version_no, job, sheets, pin, wanted, frames, run>>
    BY DEF ApproveCommit
  <1> QED BY <1>4, <1>5, <1>6, SameItems

(* CreateCommit: the number read under the lock is still beyond all given. *)
LEMMA CreateCommitStep ==
    ASSUME IInv, NEW s \in Session, CreateCommit(s)
    PROVE  IInv'
  <1> DEFINE t == txn[s]
  <1>1. TxnOK(t) /\ t.op = "create" /\ t \in TxnRow
    BY DEF IInv, TxnOK, CreateCommit
  <1> DEFINE x == t.on
             n == t.no
  <1>2. x \in Item /\ status[x] = Absent /\ n = Cardinality(Existing(Kin(x))) + 1 /\ n \in Nat
    BY <1>1 DEF TxnOK, TxnRow
  <1>3. /\ status' = [status EXCEPT ![x] = "PENDING"]
        /\ version_no' = [version_no EXCEPT ![x] = n]
        /\ Close(s) /\ UNCHANGED <<job, sheets, pin, wanted, frames, run>>
    BY DEF CreateCommit
  <1>4. \A o \in Session : txn'[o] = IF o = s THEN Closed ELSE txn[o]
    BY <1>3 DEF IInv, TypeOK, Close
  <1>5. \A o \in Session : o # s => txn[o].op # "create"
    BY <1>1 DEF IInv, OneCreates
  <1>6. TypeOK'
    BY <1>2, <1>3, Constants DEF IInv, TypeOK, Close, TxnRow, BrandingStatus
  <1>7. \A i \in Item : status'[i] = IF i = x THEN "PENDING" ELSE status[i]
    BY <1>3 DEF IInv, TypeOK
  <1>8. (\A o \in Session : TxnOK(txn[o]))'
    <2> SUFFICES ASSUME NEW o \in Session PROVE TxnOK(txn[o])'
      OBVIOUS
    <2>1. CASE o = s
      BY <1>4, <2>1, Constants DEF TxnOK
    <2>2. CASE o # s
      <3>1. txn'[o] = txn[o] /\ TxnOK(txn[o]) /\ txn[o].op # "create"
        BY <1>4, <1>5, <2>2 DEF IInv
      <3> QED BY <3>1, <1>3, <1>7 DEF TxnOK, Absent
    <2> QED BY <2>1, <2>2
  <1>9. OneCreates'
    BY <1>4, <1>5, Constants DEF OneCreates
  <1>10. (\A w \in Worker : RunOK(run[w]))' /\ OwnJobs'
    BY <1>3 DEF IInv, RunOK, OwnJobs, Busy
  <1>11. Numbered'
    <2>1. \A i \in Item : version_no'[i] = IF i = x THEN n ELSE version_no[i]
      BY <1>3 DEF IInv, TypeOK
    <2>2. ASSUME NEW i \in Item
          PROVE  /\ Existing(Kin(i)) \in SUBSET Item
                 /\ Existing(Kin(i))' = IF x \in Kin(i) THEN Existing(Kin(i)) \cup {x}
                                        ELSE Existing(Kin(i))
                 /\ x \notin Existing(Kin(i))
      BY <1>2, <1>7, <2>2, KinFacts DEF Existing, Absent
    <2>3. \A i \in Item : /\ Cardinality(Existing(Kin(i))) \in Nat
                          /\ Cardinality(Existing(Kin(i)))' =
                                IF x \in Kin(i) THEN Cardinality(Existing(Kin(i))) + 1
                                ELSE Cardinality(Existing(Kin(i)))
      BY <1>2, <2>2, Counting
    <2>4. \A i \in Item : version_no[i] \in Nat
      BY DEF IInv, TypeOK
    <2>5. \A i \in Item : version_no[i] # 0 => status[i] # Absent
      BY DEF IInv, Numbered
    <2>6. \A i \in Item : version_no[i] <= Cardinality(Existing(Kin(i)))
      BY DEF IInv, Numbered
    <2>7. \A i \in Item : version_no'[i] # 0 => status'[i] # Absent
      BY <1>7, <2>1, <2>5 DEF Absent
    <2>8. \A i \in Item : version_no'[i] <= Cardinality(Existing(Kin(i)))'
      <3> SUFFICES ASSUME NEW i \in Item
                   PROVE  version_no'[i] <= Cardinality(Existing(Kin(i)))'
        OBVIOUS
      <3>1. CASE i = x
        BY <1>2, <2>1, <2>3, <3>1, KinFacts
      <3>2. CASE i # x
        BY <2>1, <2>3, <2>4, <2>6, <3>2
      <3> QED BY <3>1, <3>2
    <2>9. ASSUME NEW i \in Item, NEW k \in Item, i # k, Kin(i) = Kin(k), version_no'[i] # 0
          PROVE  version_no'[i] # version_no'[k]
      <3>1. CASE i # x /\ k # x
        BY <2>1, <2>9, <3>1 DEF IInv, Numbered
      <3>2. CASE i = x
        <4>1. version_no[k] <= Cardinality(Existing(Kin(x)))
          BY <2>6, <2>9, <3>2
        <4> QED BY <1>2, <2>1, <2>3, <2>4, <2>9, <3>2, <4>1
      <3>3. CASE k = x
        <4>1. version_no[i] <= Cardinality(Existing(Kin(x)))
          BY <2>6, <2>9, <3>3
        <4> QED BY <1>2, <2>1, <2>3, <2>4, <2>9, <3>3, <4>1
      <3> QED BY <3>1, <3>2, <3>3
    <2> QED BY <2>7, <2>8, <2>9 DEF Numbered
  <1>12. Keyed'
    BY <1>3, <1>7 DEF IInv, Keyed, Holds, Item, Absent
  <1>13. Drawn' /\ Pinned' /\ FramesShareBranding'
    BY <1>3 DEF IInv, Drawn, Pinned, FramesShareBranding
  <1> QED BY <1>6, <1>8, <1>9, <1>10, <1>11, <1>12, <1>13 DEF IInv

-----------------------------------------------------------------------------
(* Steps that write a job.                                                 *)

(* The job's lifecycle, as far as a sheet run goes through it. *)
LEMMA JobFacts ==
    /\ \A t \in JobStatus \cup {Absent} : MayApplyJob("CLAIMED", t) => t = "QUEUED"
    /\ JobTarget("CLAIMED") = "RUNNING"
    /\ JobTarget("SUCCEEDED") = "SUCCEEDED"
    /\ JobTarget("FAILED") = "FAILED"
    /\ {"QUEUED", "RUNNING", "SUCCEEDED", "FAILED"} \subseteq JobStatus
    /\ DeadStatuses \subseteq JobStatus /\ "FAILED" \in DeadStatuses
    /\ {"QUEUED", "RUNNING", "SUCCEEDED"} \cap DeadStatuses = {}
  BY DEF MayApplyJob, JobTarget, JobTable, JobStatus, DeadStatuses, Absent

(* A group that has its sheets was drawn by a job that succeeded. *)
LEMMA GroupsAreFinished ==
    ASSUME IInv, NEW a \in sheets
    PROVE  job[a.group].status = "SUCCEEDED" /\ job[a.group].character = a.character
  <1>1. job[a.group] = [status |-> "SUCCEEDED", character |-> a.character]
    BY DEF IInv, Drawn
  <1> QED BY <1>1

(* A job that is queued or running goes on, ends or gives its key back. *)
LEMMA JobMoves ==
    ASSUME IInv, NEW j \in Job, job[j].status \in {"QUEUED", "RUNNING"},
           NEW t \in {"RUNNING", "SUCCEEDED", "FAILED"},
           job' = [job EXCEPT ![j].status = t]
    PROVE  /\ job' \in [Job -> JobRow]
           /\ \A k \in Job : job'[k].character = job[k].character
           /\ \A k \in Job : job'[k].status = IF k = j THEN t ELSE job[k].status
           /\ \A k \in Job : Holds(k)' => Holds(k)
           /\ \A a \in sheets : a.group # j
  <1>1. job \in [Job -> JobRow]
    BY DEF IInv, TypeOK
  <1>2. \A k \in Job : /\ job'[k].character = job[k].character
                       /\ job'[k].status = IF k = j THEN t ELSE job[k].status
    BY <1>1 DEF JobRow
  <1>3. job' \in [Job -> JobRow]
    BY <1>1, JobFacts DEF JobRow
  <1>4. \A k \in Job : Holds(k)' => Holds(k)
    BY <1>2, JobFacts DEF Holds
  <1>5. \A a \in sheets : a.group # j
    BY GroupsAreFinished
  <1> QED BY <1>2, <1>3, <1>4, <1>5

(* ReferencesRequest queues a job for a version whose key nobody holds. *)
LEMMA ReferencesRequestStep ==
    ASSUME IInv, NEW c \in Character, NEW j \in Job, ReferencesRequest(c, j)
    PROVE  IInv'
  <1> USE DEF items
  <1>1. /\ job[j].status = Absent /\ status[c] # Absent /\ Holders(c) = {}
        /\ job' = [job EXCEPT ![j] = [status |-> "QUEUED", character |-> c]]
        /\ UNCHANGED <<items, sheets, pin, wanted, frames, run, txn>>
    BY DEF ReferencesRequest
  <1>2. \A k \in Job : job'[k] = IF k = j THEN [status |-> "QUEUED", character |-> c] ELSE job[k]
    BY <1>1 DEF IInv, TypeOK
  <1>3. TypeOK'
    BY <1>1, JobFacts DEF IInv, TypeOK, JobRow
  <1>4. (\A s \in Session : TxnOK(txn[s]))' /\ OneCreates'
    BY <1>1 DEF IInv, TxnOK, Existing, OneCreates
  <1>5. (\A w \in Worker : RunOK(run[w]))' /\ OwnJobs'
    <2>1. \A w \in Worker : RunOK(run[w])'
      BY <1>1, <1>2 DEF IInv, RunOK, Absent
    <2> QED BY <1>1, <2>1 DEF IInv, OwnJobs, Busy
  <1>6. Keyed'
    <2>1. \A k \in Job : job'[k].status # Absent =>
             job'[k].character \in Character /\ status[job'[k].character] # Absent
      BY <1>1, <1>2 DEF IInv, Keyed
    <2>2. \A k \in Job : job[k].character = c => ~Holds(k)
      BY <1>1 DEF Holders, Holds
    <2>3. \A k \in Job : k # j => (Holds(k)' <=> Holds(k)) /\ job'[k] = job[k]
      BY <1>2 DEF Holds
    <2>4. job'[j].character = c
      BY <1>2
    <2>5. \A a, b \in Job :
             Holds(a)' /\ Holds(b)' /\ job'[a].character = job'[b].character => a = b
      BY <2>2, <2>3, <2>4 DEF IInv, Keyed
    <2> QED BY <1>1, <2>1, <2>5 DEF Keyed
  <1>7. Drawn'
    BY <1>1, <1>2, Constants DEF IInv, TypeOK, Sheet, Drawn, Absent
  <1>8. Numbered' /\ Pinned' /\ FramesShareBranding'
    BY <1>1 DEF IInv, Numbered, Existing, Pinned, FramesShareBranding
  <1> QED BY <1>3, <1>4, <1>5, <1>6, <1>7, <1>8 DEF IInv

(* SheetsClaim takes a queued job, which no other worker has. *)
LEMMA SheetsClaimStep ==
    ASSUME IInv, NEW w \in Worker, NEW j \in Job, SheetsClaim(w, j)
    PROVE  IInv'
  <1> USE DEF items
  <1> DEFINE r == [Idle EXCEPT !.at = "claimed", !.of = j]
  <1>1. /\ MayApplyJob("CLAIMED", job[j].status) /\ Goes(w, r)
        /\ job' = [job EXCEPT ![j].status = "RUNNING"]
        /\ UNCHANGED <<items, sheets, pin, wanted, frames, txn>>
    BY JobFacts DEF SheetsClaim
  <1>2. job[j].status = "QUEUED"
    BY <1>1, JobFacts DEF IInv, TypeOK, JobRow
  <1>3. r \in RunRow /\ r.at = "claimed" /\ r.of = j
    BY Constants DEF RunRow, Idle
  <1>4. \A u \in Worker : run'[u] = IF u = w THEN r ELSE run[u]
    BY <1>1 DEF IInv, TypeOK, Goes
  <1> HIDE DEF r
  <1>5. /\ job' \in [Job -> JobRow]
        /\ \A k \in Job : job'[k].character = job[k].character
        /\ \A k \in Job : job'[k].status = IF k = j THEN "RUNNING" ELSE job[k].status
        /\ \A k \in Job : Holds(k)' => Holds(k)
        /\ \A a \in sheets : a.group # j
    BY <1>1, <1>2, JobMoves
  <1>6. TypeOK'
    BY <1>1, <1>3, <1>5 DEF IInv, TypeOK, Goes, RunRow
  <1>7. (\A s \in Session : TxnOK(txn[s]))' /\ OneCreates'
    BY <1>1 DEF IInv, TxnOK, Existing, OneCreates
  <1>8. \A u \in Worker : Busy(u) => run[u].of # j
    BY <1>2 DEF IInv, RunOK, Busy
  <1>9. (\A u \in Worker : RunOK(run[u]))'
    <2> SUFFICES ASSUME NEW u \in Worker PROVE RunOK(run[u])'
      OBVIOUS
    <2>1. CASE u = w
      BY <1>3, <1>4, <1>5, <2>1 DEF RunOK
    <2>2. CASE u # w
      <3>1. run'[u] = run[u] /\ RunOK(run[u])
        BY <1>4, <2>2 DEF IInv
      <3> QED BY <1>1, <1>5, <3>1 DEF RunOK
    <2> QED BY <2>1, <2>2
  <1>10. OwnJobs'
    BY <1>3, <1>4, <1>8 DEF IInv, OwnJobs, Busy
  <1>11. Keyed'
    BY <1>1, <1>2, <1>5 DEF IInv, Keyed, Absent
  <1>12. \A a \in sheets : job'[a.group] = job[a.group]
    BY <1>1, <1>5 DEF IInv, TypeOK, Sheet
  <1>13. Drawn'
    BY <1>1, <1>12 DEF IInv, Drawn
  <1>14. Numbered' /\ Pinned' /\ FramesShareBranding'
    BY <1>1 DEF IInv, Numbered, Existing, Pinned, FramesShareBranding
  <1> QED BY <1>6, <1>7, <1>9, <1>10, <1>11, <1>13, <1>14 DEF IInv

(* A busy worker ends its job and is idle: what both endings share. *)
LEMMA JobEnds ==
    ASSUME IInv, NEW w \in Worker, Busy(w), Goes(w, Idle), NEW t \in {"SUCCEEDED", "FAILED"},
           job' = [job EXCEPT ![run[w].of].status = t],
           status' \in [Item -> BrandingStatus \cup {Absent}],
           \A i \in Item : status'[i] = Absent <=> status[i] = Absent,
           UNCHANGED <<version_no, pin, wanted, frames, txn>>,
           sheets' \subseteq Sheet
    PROVE  /\ TypeOK'
           /\ (\A s \in Session : TxnOK(txn[s]))'
           /\ (\A u \in Worker : RunOK(run[u]))'
           /\ OneCreates' /\ OwnJobs' /\ Numbered' /\ Keyed' /\ Pinned'
           /\ FramesShareBranding'
  <1>1. PICK j \in Job : j = run[w].of /\ job[j].status = "RUNNING"
    BY DEF IInv, RunOK, Busy
  <1>2. \A u \in Worker : run'[u] = IF u = w THEN Idle ELSE run[u]
    BY DEF IInv, TypeOK, Goes
  <1>3. /\ job' \in [Job -> JobRow]
        /\ \A k \in Job : job'[k].character = job[k].character
        /\ \A k \in Job : job'[k].status = IF k = j THEN t ELSE job[k].status
        /\ \A k \in Job : Holds(k)' => Holds(k)
    <2>1. job \in [Job -> JobRow] /\ job' = [job EXCEPT ![j].status = t]
      BY <1>1 DEF IInv, TypeOK
    <2>2. \A k \in Job : /\ job'[k].character = job[k].character
                         /\ job'[k].status = IF k = j THEN t ELSE job[k].status
      BY <2>1 DEF JobRow
    <2>3. job' \in [Job -> JobRow]
      <3>1. t \in JobStatus
        BY JobFacts
      <3>2. [job[j] EXCEPT !.status = t] \in JobRow
        BY <2>1, <3>1 DEF JobRow
      <3> QED BY <2>1, <3>2
    <2>4. \A k \in Job : Holds(k)' => Holds(k)
      BY <1>1, <2>2, JobFacts DEF Holds
    <2> QED BY <2>2, <2>3, <2>4
  <1>4. TypeOK'
    BY <1>3, Constants DEF IInv, TypeOK, Goes, RunRow
  <1>5. \A i \in Item : Existing(Kin(i))' = Existing(Kin(i))
    BY KinFacts DEF Existing
  <1>6. (\A s \in Session : TxnOK(txn[s]))' /\ OneCreates'
    <2>1. \A s \in Session : TxnOK(txn[s])
      BY DEF IInv
    <2>2. \A s \in Session : TxnOK(txn[s])'
      BY <1>5, <2>1 DEF TxnOK
    <2> QED BY <2>2 DEF IInv, OneCreates
  <1>7. (\A u \in Worker : RunOK(run[u]))'
    <2> SUFFICES ASSUME NEW u \in Worker PROVE RunOK(run[u])'
      OBVIOUS
    <2>1. CASE u = w
      BY <1>2, <2>1, Constants DEF RunOK, Idle
    <2>2. CASE u # w
      <3>1. run'[u] = run[u] /\ RunOK(run[u])
        BY <1>2, <2>2 DEF IInv
      <3>2. Busy(u) => run[u].of # j
        BY <1>1, <2>2 DEF IInv, OwnJobs
      <3> QED BY <1>3, <3>1, <3>2 DEF RunOK, Busy
    <2> QED BY <2>1, <2>2
  <1>8. OwnJobs'
    BY <1>2, Constants DEF IInv, OwnJobs, Busy, Idle
  <1>9. Numbered'
    BY <1>5 DEF IInv, Numbered
  <1>10. Keyed'
    <2>1. \A k \in Job : job'[k].status # Absent => job[k].status # Absent
      BY <1>1, <1>3 DEF Absent
    <2> QED BY <1>3, <2>1 DEF IInv, Keyed, Item
  <1>11. Pinned' /\ FramesShareBranding'
    BY DEF IInv, Pinned, FramesShareBranding
  <1> QED BY <1>4, <1>6, <1>7, <1>8, <1>9, <1>10, <1>11

(* SheetsFail: the job is dead, nothing was drawn. *)
LEMMA SheetsFailStep ==
    ASSUME IInv, NEW w \in Worker, SheetsFail(w)
    PROVE  IInv'
  <1> USE DEF items
  <1>1. /\ Busy(w) /\ Goes(w, Idle)
        /\ job' = [job EXCEPT ![run[w].of].status = "FAILED"]
        /\ UNCHANGED <<items, sheets, pin, wanted, frames, txn>>
    BY JobFacts DEF SheetsFail, Busy
  <1>2. status \in [Item -> BrandingStatus \cup {Absent}] /\ sheets \subseteq Sheet
    BY DEF IInv, TypeOK
  <1>3. /\ TypeOK'
        /\ (\A s \in Session : TxnOK(txn[s]))'
        /\ (\A u \in Worker : RunOK(run[u]))'
        /\ OneCreates' /\ OwnJobs' /\ Numbered' /\ Keyed' /\ Pinned'
        /\ FramesShareBranding'
    BY <1>1, <1>2, JobEnds
  <1>4. run[w].of \in Job /\ job[run[w].of].status = "RUNNING"
    BY <1>1 DEF IInv, RunOK, Busy
  <1>5. /\ \A k \in Job : k # run[w].of => job'[k] = job[k]
        /\ \A a \in sheets : a.group # run[w].of
    BY <1>1, <1>4, GroupsAreFinished DEF IInv, TypeOK
  <1>6. \A a \in sheets : job'[a.group] = job[a.group]
    BY <1>2, <1>5 DEF Sheet
  <1>7. Drawn'
    BY <1>1, <1>6 DEF IInv, Drawn
  <1> QED BY <1>3, <1>7 DEF IInv

(* SheetsCommit: the group lands; the character may stop being approved. *)
LEMMA SheetsCommitStep ==
    ASSUME IInv, NEW w \in Worker, SheetsCommit(w)
    PROVE  IInv'
  <1> DEFINE j == run[w].of
             c == job[j].character
             g == [group |-> j, character |-> c, style |-> run[w].style]
  <1>1. /\ run[w].at = "sheets" /\ Goes(w, Idle)
        /\ sheets' = sheets \cup {g}
        /\ status' = IF run[w].seen = "PENDING"
                      THEN [status EXCEPT ![c] = "AWAITING_APPROVAL"] ELSE status
        /\ job' = [job EXCEPT ![j].status = "SUCCEEDED"]
        /\ UNCHANGED <<version_no, pin, wanted, frames, txn>>
    BY JobFacts DEF SheetsCommit
  <1>2. Busy(w) /\ j \in Job /\ job[j].status = "RUNNING" /\ run[w].style \in Style
    BY <1>1 DEF IInv, RunOK, Busy
  <1>3. c \in Character /\ c \in Item /\ status[c] # Absent
    BY <1>2 DEF IInv, Keyed, Absent, Item
  <1>4. g \in Sheet /\ sheets \subseteq Sheet
    BY <1>2, <1>3 DEF Sheet, IInv, TypeOK
  <1>5. \A i \in Item : status'[i] = status[i] \/ (i = c /\ status'[i] = "AWAITING_APPROVAL")
    BY <1>1 DEF IInv, TypeOK
  <1>6. status' \in [Item -> BrandingStatus \cup {Absent}]
    BY <1>1 DEF IInv, TypeOK, BrandingStatus
  <1>7. \A i \in Item : status'[i] = Absent <=> status[i] = Absent
    BY <1>3, <1>5 DEF Absent
  <1>8. sheets' \subseteq Sheet
    BY <1>1, <1>4
  <1>9. /\ TypeOK'
        /\ (\A s \in Session : TxnOK(txn[s]))'
        /\ (\A u \in Worker : RunOK(run[u]))'
        /\ OneCreates' /\ OwnJobs' /\ Numbered' /\ Keyed' /\ Pinned'
        /\ FramesShareBranding'
    BY <1>1, <1>2, <1>6, <1>7, <1>8, JobEnds
  <1>10. \A a \in sheets : a.group # j
    BY <1>2, GroupsAreFinished
  <1>11. job'[j] = [status |-> "SUCCEEDED", character |-> c]
    BY <1>1, <1>2 DEF IInv, TypeOK, JobRow
  <1>12. \A a \in sheets : job'[a.group] = job[a.group]
    BY <1>1, <1>4, <1>10 DEF IInv, TypeOK, Sheet
  <1>13. g.group = j /\ g.character = c
    OBVIOUS
  <1>14. Drawn'
    <2> HIDE DEF g
    <2>1. \A a \in sheets' : job'[a.group] = [status |-> "SUCCEEDED", character |-> a.character]
      BY <1>1, <1>11, <1>12, <1>13 DEF IInv, Drawn
    <2>2. \A a, b \in sheets' : a.group = b.group => a = b
      BY <1>1, <1>10, <1>13 DEF IInv, Drawn
    <2> QED BY <2>1, <2>2 DEF Drawn
  <1> QED BY <1>9, <1>14 DEF IInv

-----------------------------------------------------------------------------
(* Steps that write a pin or the frames.                                   *)

(* ImageCommit: a pin is taken once, and an image job waits for its worker *)
(* only when the project has one.                                          *)
LEMMA ImageCommitStep ==
    ASSUME IInv, NEW s \in Session, ImageCommit(s)
    PROVE  IInv'
  <1> USE DEF items
  <1> DEFINE t == txn[s]
  <1>1. TxnOK(t) /\ t.op \in {"pin", "image"} /\ t \in TxnRow
    BY DEF IInv, TxnOK, ImageCommit
  <1>2. t.on \in Project /\ t.pin \in Pin
    BY <1>1 DEF TxnOK, TxnRow
  <1>3. /\ pin' = IF t.op = "pin" /\ pin[t.on].character = Nothing
                  THEN [pin EXCEPT ![t.on] = t.pin] ELSE pin
        /\ wanted' = wanted \cup {t.on}
        /\ Close(s) /\ UNCHANGED <<items, job, sheets, frames, run>>
    BY DEF ImageCommit
  <1>4. \A o \in Session : txn'[o] = IF o = s THEN Closed ELSE txn[o]
    BY <1>3 DEF IInv, TypeOK, Close
  <1>5. \A p \in Project : /\ Whole(pin[p]) => pin'[p] = pin[p]
                           /\ Whole(pin'[p]) \/ pin'[p] = pin[p]
    <2> SUFFICES ASSUME NEW p \in Project
                 PROVE  /\ Whole(pin[p]) => pin'[p] = pin[p]
                        /\ Whole(pin'[p]) \/ pin'[p] = pin[p]
      OBVIOUS
    <2>1. t.op = "pin" => Whole(t.pin)
      BY <1>1 DEF TxnOK
    <2>2. Whole(pin[p]) => pin[p].character # Nothing
      BY BrandingAssumption DEF Whole, Item
    <2>3. pin'[p] = pin[p] \/ (p = t.on /\ pin[p].character = Nothing /\ pin'[p] = t.pin
                                 /\ t.op = "pin")
      BY <1>2, <1>3 DEF IInv, TypeOK
    <2> QED BY <2>1, <2>2, <2>3
  <1>6. Whole(pin'[t.on])
    <2>1. CASE t.op = "image"
      <3>1. Whole(pin[t.on])
        BY <1>1, <2>1 DEF TxnOK
      <3> QED BY <1>2, <1>5, <3>1
    <2>2. CASE t.op = "pin"
      <3>1. Whole(t.pin)
        BY <1>1, <2>2 DEF TxnOK
      <3>2. CASE pin[t.on].character = Nothing
        <4>1. pin'[t.on] = t.pin
          BY <1>2, <1>3, <2>2, <3>2 DEF IInv, TypeOK
        <4> QED BY <3>1, <4>1
      <3>3. CASE pin[t.on].character # Nothing
        <4>1. pin' = pin
          BY <1>3, <3>3
        <4>2. pin[t.on] = NoPin \/ Whole(pin[t.on])
          BY <1>2 DEF IInv, Pinned
        <4>3. Whole(pin[t.on])
          BY <3>3, <4>2 DEF NoPin
        <4> QED BY <4>1, <4>3
      <3> QED BY <3>2, <3>3
    <2> QED BY <1>1, <2>1, <2>2
  <1>7. TypeOK'
    BY <1>2, <1>3, Constants DEF IInv, TypeOK, Close, TxnRow
  <1>8. (\A o \in Session : TxnOK(txn[o]))'
    <2> SUFFICES ASSUME NEW o \in Session PROVE TxnOK(txn[o])'
      OBVIOUS
    <2>1. CASE o = s
      BY <1>4, <2>1, Constants DEF TxnOK
    <2>2. CASE o # s
      <3>1. txn'[o] = txn[o] /\ TxnOK(txn[o])
        BY <1>4, <2>2 DEF IInv
      <3>2. txn[o].op = "image" => Whole(pin'[txn[o].on])
        BY <1>5, <3>1 DEF TxnOK
      <3> QED BY <1>3, <3>1, <3>2 DEF TxnOK, Existing
    <2> QED BY <2>1, <2>2
  <1>9. OneCreates'
    BY <1>4, Constants DEF IInv, OneCreates
  <1>10. (\A w \in Worker : RunOK(run[w]))' /\ OwnJobs'
    <2>1. ASSUME NEW w \in Worker PROVE RunOK(run[w])'
      <3>1. RunOK(run[w])
        BY DEF IInv
      <3>2. run[w].at = "frames" => run[w].of \in Project /\ run[w].pin = pin'[run[w].of]
        BY <1>5, <3>1 DEF RunOK
      <3> QED BY <1>3, <3>1, <3>2 DEF RunOK
    <2> QED BY <1>3, <2>1 DEF IInv, OwnJobs, Busy
  <1>11. Pinned'
    <2>1. \A p \in Project : pin'[p] = NoPin \/ Whole(pin'[p])
      BY <1>5 DEF IInv, Pinned
    <2>2. \A p \in wanted : p \in Project /\ Whole(pin[p])
      BY DEF IInv, TypeOK, Pinned
    <2>3. \A p \in wanted' : Whole(pin'[p])
      BY <1>3, <1>5, <1>6, <2>2
    <2> QED BY <2>1, <2>3 DEF Pinned
  <1>12. FramesShareBranding'
    <2> SUFFICES ASSUME NEW f \in frames
                 PROVE  f.character = pin'[f.project].character
                        /\ f.style = pin'[f.project].style
      BY <1>3 DEF FramesShareBranding
    <2>1. /\ f \in Frame
          /\ f.character = pin[f.project].character /\ f.style = pin[f.project].style
      BY DEF IInv, TypeOK, FramesShareBranding
    <2>2. Whole(pin[f.project]) /\ f.project \in Project
      BY <2>1 DEF Frame, Whole
    <2> QED BY <1>5, <2>1, <2>2
  <1>13. Numbered' /\ Keyed' /\ Drawn'
    BY <1>3 DEF IInv, Numbered, Existing, Keyed, Holds, Drawn
  <1> QED BY <1>7, <1>8, <1>9, <1>10, <1>11, <1>12, <1>13 DEF IInv

(* FramesCommit: the pin the run has read is the one the project keeps. *)
LEMMA FramesCommitStep ==
    ASSUME IInv, NEW w \in Worker, FramesCommit(w)
    PROVE  IInv'
  <1> USE DEF items
  <1> DEFINE r == run[w]
             f == [project |-> r.of, character |-> r.pin.character, style |-> r.pin.style]
  <1>1. RunOK(r) /\ r.at = "frames"
    BY DEF IInv, FramesCommit
  <1>2. r.of \in Project /\ Whole(r.pin) /\ r.pin = pin[r.of]
    BY <1>1 DEF RunOK
  <1>3. f \in Frame /\ f.project = r.of /\ f.character = r.pin.character
        /\ f.style = r.pin.style
    BY <1>2 DEF Frame, Whole
  <1>4. /\ frames' = frames \cup {f} /\ Goes(w, Idle)
        /\ UNCHANGED <<items, job, sheets, pin, wanted, txn>>
    BY DEF FramesCommit
  <1> HIDE DEF f
  <1>5. \A u \in Worker : run'[u] = IF u = w THEN Idle ELSE run[u]
    BY <1>4 DEF IInv, TypeOK, Goes
  <1>6. TypeOK'
    BY <1>3, <1>4, Constants DEF IInv, TypeOK, Goes, RunRow
  <1>7. (\A s \in Session : TxnOK(txn[s]))' /\ OneCreates'
    BY <1>4 DEF IInv, TxnOK, Existing, OneCreates
  <1>8. (\A u \in Worker : RunOK(run[u]))' /\ OwnJobs'
    <2>1. ASSUME NEW u \in Worker PROVE RunOK(run[u])'
      <3>1. CASE u = w
        BY <1>5, <3>1, Constants DEF RunOK
      <3>2. CASE u # w
        BY <1>4, <1>5, <3>2 DEF IInv, RunOK
      <3> QED BY <3>1, <3>2
    <2>2. OwnJobs'
      BY <1>5, Constants DEF IInv, OwnJobs, Busy
    <2> QED BY <2>1, <2>2
  <1>9. FramesShareBranding'
    BY <1>2, <1>3, <1>4 DEF IInv, FramesShareBranding
  <1>10. Numbered' /\ Keyed' /\ Drawn' /\ Pinned'
    BY <1>4 DEF IInv, Numbered, Existing, Keyed, Holds, Drawn, Pinned
  <1> QED BY <1>6, <1>7, <1>8, <1>9, <1>10 DEF IInv

-----------------------------------------------------------------------------
(* The theorems.                                                           *)

(* Every step keeps the invariant. *)
LEMMA NextIInv == IInv /\ [Next]_vars => IInv'
  <1> SUFFICES ASSUME IInv, [Next]_vars PROVE IInv'
    OBVIOUS
  <1>1. CASE UNCHANGED vars
    <2> USE <1>1 DEF vars, items
    <2>1. TypeOK'
      BY DEF IInv, TypeOK
    <2>2. (\A s \in Session : TxnOK(txn[s]))' /\ OneCreates'
      BY DEF IInv, TxnOK, Existing, OneCreates
    <2>3. (\A w \in Worker : RunOK(run[w]))' /\ OwnJobs'
      BY DEF IInv, RunOK, OwnJobs, Busy
    <2>4. Numbered' /\ Keyed' /\ Drawn' /\ Pinned' /\ FramesShareBranding'
      BY DEF IInv, Numbered, Existing, Keyed, Holds, Drawn, Pinned, FramesShareBranding
    <2> QED BY <2>1, <2>2, <2>3, <2>4 DEF IInv
  <1>2. ASSUME NEW s \in Session, ApiNext(s) PROVE IInv'
    <2>1. ASSUME NEW i \in Item, CreateBegin(s, i) PROVE IInv'
      BY <2>1, CreateBeginStep
    <2>2. ASSUME NEW i \in Item, ApproveBegin(s, i) PROVE IInv'
      BY <2>2, ApproveBeginStep
    <2>3. ASSUME NEW p \in Project, ImageBegin(s, p) PROVE IInv'
      BY <2>3, ImageBeginStep
    <2>4. CASE CreateCommit(s)
      BY <2>4, CreateCommitStep
    <2>5. CASE ApproveSupersedes(s)
      BY <2>5, ApproveSupersedesStep
    <2>6. CASE ApproveCommit(s)
      BY <2>6, ApproveCommitStep
    <2>7. CASE ApproveCollides(s)
      BY <2>7, SessionCloses DEF ApproveCollides
    <2>8. CASE ImageResolvesCharacter(s)
      BY <2>8, ImageResolvesCharacterStep
    <2>9. CASE ImageResolvesStyle(s)
      BY <2>9, ImageResolvesStyleStep
    <2>10. CASE ImageCommit(s)
      BY <2>10, ImageCommitStep
    <2> QED BY <1>2, <2>1, <2>2, <2>3, <2>4, <2>5, <2>6, <2>7, <2>8, <2>9, <2>10 DEF ApiNext
  <1>3. ASSUME NEW c \in Character, NEW j \in Job, ReferencesRequest(c, j) PROVE IInv'
    BY <1>3, ReferencesRequestStep
  <1>4. ASSUME NEW w \in Worker, WorkerNext(w) PROVE IInv'
    <2>1. ASSUME NEW j \in Job, SheetsClaim(w, j) PROVE IInv'
      BY <2>1, SheetsClaimStep
    <2>2. CASE SheetsBegin(w)
      BY <2>2, SheetsBeginStep
    <2>3. CASE SheetsCommit(w)
      BY <2>3, SheetsCommitStep
    <2>4. CASE SheetsFail(w)
      BY <2>4, SheetsFailStep
    <2>5. CASE SheetsDie(w)
      BY <2>5, WorkerStops DEF SheetsDie
    <2>6. ASSUME NEW p \in Project, FramesBegin(w, p) PROVE IInv'
      BY <2>6, FramesBeginStep
    <2>7. CASE FramesCommit(w)
      BY <2>7, FramesCommitStep
    <2>8. CASE FramesFail(w)
      BY <2>8, WorkerStops DEF FramesFail
    <2> QED BY <1>4, <2>1, <2>2, <2>3, <2>4, <2>5, <2>6, <2>7, <2>8 DEF WorkerNext
  <1> QED BY <1>1, <1>2, <1>3, <1>4 DEF Next

(* The inductive invariant of the series' branding (api/series.py,         *)
(* references.py, branding.py) holds in every reachable state.             *)
THEOREM Invariance == Spec => []IInv
  BY InitIInv, NextIInv, PTL DEF Spec

(* Rows, transactions and runs always have the shapes the code gives them. *)
THEOREM TypeCorrect == Spec => []TypeOK
  <1>1. IInv => TypeOK
    BY DEF IInv
  <1> QED BY <1>1, Invariance, PTL

(* A step that writes no status of the kind leaves its approvals. *)
LEMMA ApprovalsUntouched ==
    ASSUME NEW kin, UNCHANGED status
    PROVE  Approved(kin)' = Approved(kin)
  BY DEF Approved

(* ApproveCommit leaves its own version approved, unless it has nothing to *)
(* write for it.                                                           *)
LEMMA ApproveCommitKeepsOne ==
    ASSUME IInv, NEW s \in Session, ApproveCommit(s), NEW kin \in {Character, Style},
           Approved(kin) # {}, Approved(kin)' = {}
    PROVE  ForgetsItsOwn(s, kin)
  <1> DEFINE t == txn[s]
  <1>1. TxnOK(t) /\ t.op = "superseding" /\ t.on \in Item /\ t.on \notin t.old
    BY DEF IInv, TxnOK, ApproveCommit
  <1>2. \A k \in Item :
           status'[k] = IF k \in t.old /\ status[k] = "APPROVED" THEN "SUPERSEDED"
                        ELSE IF k = t.on /\ t.seen # "APPROVED" THEN "APPROVED" ELSE status[k]
    BY DEF ApproveCommit, AfterApproval
  <1>3. txn'[s] = Closed
    BY DEF ApproveCommit, Close, IInv, TypeOK
  <1>4. kin \subseteq Item
    BY DEF Item
  <1>5. \A k \in t.old : k \in Item
    BY <1>1 DEF TxnOK, TxnRow
  <1>6. t.on \in kin
    <2> SUFFICES ASSUME t.on \notin kin PROVE FALSE
      OBVIOUS
    <2>1. \A k \in t.old : k \notin kin
      <3>1. \A k \in t.old : k \in Kin(t.on)
        BY <1>1 DEF TxnOK
      <3> QED BY <1>1, <3>1, BrandingAssumption DEF Kin, Item
    <2>2. \A k \in kin : status'[k] = status[k]
      BY <1>2, <1>4, <2>1
    <2> QED BY <2>2 DEF Approved
  <1>7. status'[t.on] # "APPROVED"
    BY <1>6 DEF Approved
  <1>8. t.seen = "APPROVED" /\ status[t.on] # "APPROVED"
    BY <1>1, <1>2, <1>7
  <1> QED BY <1>1, <1>3, <1>6, <1>8 DEF ForgetsItsOwn, Approved

(* SheetsCommit writes the status of its own character only. *)
LEMMA SheetsCommitOverwrites ==
    ASSUME IInv, NEW w \in Worker, SheetsCommit(w), NEW kin \in {Character, Style},
           Approved(kin) # {}, Approved(kin)' = {}
    PROVE  OverwritesApproval(w, kin)
  <1> DEFINE c == job[run[w].of].character
  <1>1. /\ run[w].at = "sheets" /\ Goes(w, Idle)
        /\ status' = IF run[w].seen = "PENDING"
                      THEN [status EXCEPT ![c] = "AWAITING_APPROVAL"] ELSE status
    BY DEF SheetsCommit
  <1>2. run'[w] = Idle
    BY <1>1 DEF Goes, IInv, TypeOK
  <1>3. kin \subseteq Item /\ status \in [Item -> BrandingStatus \cup {Absent}]
    BY DEF Item, IInv, TypeOK
  <1>4. run[w].seen = "PENDING"
    BY <1>1, ApprovalsUntouched
  <1>5. \A k \in kin : k # c => status'[k] = status[k]
    BY <1>1, <1>3
  <1>6. c \in Approved(kin)
    BY <1>5 DEF Approved
  <1> QED BY <1>1, <1>2, <1>4, <1>6 DEF OverwritesApproval

(* CreateCommit writes a row that stood for nothing. *)
LEMMA CreateCommitKeepsApproved ==
    ASSUME IInv, NEW s \in Session, CreateCommit(s), NEW kin \in {Character, Style}
    PROVE  Approved(kin) \subseteq Approved(kin)'
  <1> DEFINE x == txn[s].on
  <1>1. x \in Item /\ status[x] = Absent
    BY DEF IInv, TxnOK, CreateCommit
  <1>2. \A k \in Item : k # x => status'[k] = status[k]
    BY DEF CreateCommit, IInv, TypeOK
  <1>3. kin \subseteq Item
    BY DEF Item
  <1> QED BY <1>1, <1>2, <1>3 DEF Approved, Absent

(* A kind of item that has an approved version keeps one, whatever         *)
(* approvals, new versions and sheet runs interleave, but for a sheet run  *)
(* that overwrites an approval and an approval of a version it had loaded  *)
(* as approved (approve_character, approve_style, references_body).        *)
THEOREM ApprovalsStand == Spec => LastApprovalStands
  <1>1. ASSUME IInv, [Next]_vars, NEW kin \in {Character, Style},
               Approved(kin) # {}, Approved(kin)' = {}
        PROVE  \/ \E w \in Worker : OverwritesApproval(w, kin)
               \/ \E s \in Session : ForgetsItsOwn(s, kin)
    <2>1. \/ \E s \in Session : CreateCommit(s)
          \/ \E s \in Session : ApproveCommit(s)
          \/ \E w \in Worker : SheetsCommit(w)
          \/ UNCHANGED status
      <3>1. CASE UNCHANGED vars
        BY <3>1 DEF vars, items
      <3>2. ASSUME NEW s \in Session, ApiNext(s)
            PROVE  CreateCommit(s) \/ ApproveCommit(s) \/ UNCHANGED status
        BY <3>2 DEF ApiNext, CreateBegin, ApproveBegin, ImageBegin, ApproveSupersedes,
                    ApproveCollides, ImageResolvesCharacter, ImageResolvesStyle, ImageCommit,
                    items
      <3>3. ASSUME NEW c \in Character, NEW j \in Job, ReferencesRequest(c, j)
            PROVE  UNCHANGED status
        BY <3>3 DEF ReferencesRequest, items
      <3>4. ASSUME NEW w \in Worker, WorkerNext(w)
            PROVE  SheetsCommit(w) \/ UNCHANGED status
        BY <3>4 DEF WorkerNext, SheetsClaim, SheetsBegin, SheetsFail, SheetsDie, FramesBegin,
                    FramesCommit, FramesFail, items
      <3> QED BY <1>1, <3>1, <3>2, <3>3, <3>4 DEF Next
    <2>2. ASSUME NEW s \in Session, CreateCommit(s) PROVE FALSE
      BY <1>1, <2>2, CreateCommitKeepsApproved
    <2>3. UNCHANGED status => FALSE
      BY <1>1, ApprovalsUntouched
    <2> QED BY <1>1, <2>1, <2>2, <2>3, ApproveCommitKeepsOne, SheetsCommitOverwrites
  <1>2. IInv /\ [Next]_vars =>
           [\A kin \in {Character, Style} :
               (Approved(kin) # {} /\ Approved(kin)' = {}) =>
                   \/ \E w \in Worker : OverwritesApproval(w, kin)
                   \/ \E s \in Session : ForgetsItsOwn(s, kin)]_vars
    BY <1>1
  <1> QED BY <1>2, Invariance, PTL DEF Spec, LastApprovalStands

(* Every frame of an episode is drawn against what the project pinned,     *)
(* however many first image requests and runs overlap (pin_branding).      *)
THEOREM OneBrandingPerEpisode == Spec => []FramesShareBranding
  <1>1. IInv => FramesShareBranding
    BY DEF IInv
  <1> QED BY <1>1, Invariance, PTL

(* The lock on the series makes the number of a new version free, and      *)
(* keeps it free until the version is inserted (_lock_series).             *)
THEOREM FreeNumbers == Spec => []NumbersAreFree
  <1>1. IInv => NumbersAreFree
    <2> SUFFICES ASSUME IInv PROVE NumbersAreFree
      OBVIOUS
    <2>1. \A i, k \in Item :
             i # k /\ Kin(i) = Kin(k) /\ version_no[i] # 0 => version_no[i] # version_no[k]
      BY DEF IInv, Numbered
    <2>2. ASSUME NEW s \in Session, txn[s].op = "create", NEW k \in Kin(txn[s].on)
          PROVE  version_no[k] # txn[s].no
      <3>1. txn[s].on \in Item /\ txn[s].no = Cardinality(Existing(Kin(txn[s].on))) + 1
        BY <2>2 DEF IInv, TxnOK
      <3>2. k \in Item /\ Kin(k) = Kin(txn[s].on)
        BY <2>2, <3>1, KinFacts
      <3>3. Existing(Kin(k)) \in SUBSET Item
        BY <3>2, KinFacts DEF Existing
      <3>4. version_no[k] \in Nat /\ version_no[k] <= Cardinality(Existing(Kin(k)))
        BY <3>2 DEF IInv, TypeOK, Numbered
      <3>5. Cardinality(Existing(Kin(k))) \in Nat
        BY <3>3, Counting
      <3> QED BY <3>1, <3>2, <3>4, <3>5
    <2> QED BY <2>1, <2>2 DEF NumbersAreFree
  <1> QED BY <1>1, Invariance, PTL

(* A character version has one group of sheets and one run under way,      *)
(* however often sheets are asked for and whatever fails                   *)
(* (request_series_job: the key is held until the run is dead).            *)
THEOREM OneGroup == Spec => []OneGroupPerCharacter
  <1>1. IInv => OneGroupPerCharacter
    <2> SUFFICES ASSUME IInv PROVE OneGroupPerCharacter
      OBVIOUS
    <2>1. ASSUME NEW a \in sheets, NEW b \in sheets, a.character = b.character
          PROVE  a = b
      <3>1. a.group \in Job /\ b.group \in Job
        BY DEF IInv, TypeOK, Sheet
      <3>2. Holds(a.group) /\ Holds(b.group)
        BY GroupsAreFinished, JobFacts DEF Holds
      <3>3. a.group = b.group
        BY <2>1, <3>1, <3>2, GroupsAreFinished DEF IInv, Keyed
      <3> QED BY <3>3 DEF IInv, Drawn
    <2>2. ASSUME NEW w \in Worker, NEW u \in Worker, w # u,
                 run[w].at = "sheets", run[u].at = "sheets"
          PROVE  job[run[w].of].character # job[run[u].of].character
      <3>1. /\ run[w].of \in Job /\ job[run[w].of].status = "RUNNING"
            /\ run[u].of \in Job /\ job[run[u].of].status = "RUNNING"
        BY <2>2 DEF IInv, RunOK
      <3>2. Holds(run[w].of) /\ Holds(run[u].of)
        BY <3>1, JobFacts DEF Holds
      <3>3. run[w].of # run[u].of
        BY <2>2 DEF IInv, OwnJobs, Busy
      <3> QED BY <3>1, <3>2, <3>3 DEF IInv, Keyed
    <2> QED BY <2>1, <2>2 DEF OneGroupPerCharacter
  <1> QED BY <1>1, Invariance, PTL
=============================================================================
