---------------------------- MODULE StorageProofs ----------------------------
(***************************************************************************)
(* Proofs about the durable storage journal, for every number of clients,  *)
(* keys, generations and damaged files, and about a namespace that guests  *)
(* and a migration worker share, on the invariant of the journal.          *)
(***************************************************************************)
EXTENDS StorageMigration, FiniteSetTheorems, SequenceTheorems, TLAPS
-----------------------------------------------------------------------------
(* The journal                                                             *)

Content == State \cup {NoFile, Corrupt}

Changes == [generation: Generations, old: Content]

(* A directory whose files are named after the revision they hold.         *)
Directories ==
    {d \in [Generations -> Content] :
        \A g \in Generations : d[g] \in State => d[g].revision = g}

(* The directories a power failure may leave behind.                       *)
Possible == {OnDisk(n) : n \in 0 .. Len(unflushed)}

OneValid(d) == \E a \in Generations : d[a] \in State

TwoValid(d) ==
    \E a, b \in Generations : a # b /\ d[a] \in State /\ d[b] \in State

Undamaged(d) == \A g \in Generations : d[g] # Corrupt

(* Every file is of generation r or of an older one; of an older one.      *)
UpTo(d, r) == \A g \in Generations : d[g] # NoFile => g <= r

Before(d, r) == \A g \in Generations : d[g] # NoFile => g < r

Jobs == [step: {"none", "write", "rename", "sync", "prune", "quarantine"},
         who: {"none", "client", "migration", "recover"},
         state: State]

JournalTypes ==
    /\ files \in [Generations -> Content]
    /\ unflushed \in Seq(Changes)
    /\ job \in Jobs
    /\ tokens \in [Clients -> [held: BOOLEAN, state: State]]
    /\ commits \in 0 .. 2
    /\ corruptions \in Nat

(* A commit numbers its state beyond every file it found, and once it is   *)
(* renamed it is the newest; the journal it found was whole, and an        *)
(* earlier acknowledged generation is still beside it.                     *)
JobInv ==
    /\ job.step \in {"write", "rename"} =>
          /\ job.state.revision \in Generations
          /\ Before(files, job.state.revision)
    /\ job.step \in {"write", "rename", "sync", "prune"} => Undamaged(files)
    /\ job.step = "quarantine" => job.who = "recover"
    /\ job.step \in {"sync", "prune"} /\ job.who # "recover" =>
          /\ job.state.revision \in Generations
          /\ files[job.state.revision] \in State
          /\ UpTo(files, job.state.revision)
          /\ commits # 0 /\ corruptions = 0 => TwoValid(files)

(* What is true of every directory a power failure may leave.              *)
PossibleInv ==
    /\ Possible \subseteq Directories
    /\ corruptions = 0 =>
          \A d \in Possible :
             /\ Undamaged(d)
             /\ commits # 0 => OneValid(d)
             /\ commits = 2 => TwoValid(d)
    /\ corruptions = 1 /\ commits = 2 => \A d \in Possible : OneValid(d)

(* A revision a client holds is not beyond the newest state, and names it  *)
(* when it is the same number.                                             *)
Named(held, latest) ==
    \A c \in Clients : held[c].held =>
        /\ held[c].state.revision <= latest.revision
        /\ held[c].state.revision = latest.revision => held[c].state = latest

TokenInv == corruptions = 0 => matched /\ Named(tokens, Latest)

JournalInv == JournalTypes /\ JobInv /\ PossibleInv /\ TokenInv
-----------------------------------------------------------------------------
(* A set of naturals that is not empty has a least member.                 *)
LEMMA LeastNatural ==
    ASSUME NEW T \in SUBSET Nat, T # {}
    PROVE  \E x \in T : \A y \in T : x <= y
  <1>1. \E x \in T : \A y \in T : ~(<<y, x>> \in OpToRel(<, Nat))
    BY Zenon, WFMin, NatLessThanWellFounded
  <1>2. PICK x \in T : \A y \in T : ~(<<y, x>> \in OpToRel(<, Nat))
    BY Zenon, <1>1
  <1>3. ASSUME NEW y \in T PROVE x <= y
    <2>1. ~(y < x)
      BY Zenon, <1>2, <1>3 DEF OpToRel
    <2> QED
      BY <2>1
  <1> QED
    BY Zenon, <1>3

(* What Min returns.                                                       *)
LEMMA MinIsLeast ==
    ASSUME NEW T \in SUBSET Nat, T # {}
    PROVE  Min(T) \in T /\ \A y \in T : Min(T) <= y
  BY Zenon, LeastNatural DEF Min

(* A set of generations that is not empty has a greatest member, and Max   *)
(* returns it.                                                             *)
LEMMA MaxIsGreatest ==
    ASSUME NEW T \in SUBSET Generations, T # {}
    PROVE  Max(T) \in T /\ \A y \in T : y <= Max(T)
  <1> DEFINE Reflected == {MaxGeneration - y : y \in T}
  <1>1. Reflected \in SUBSET Nat /\ Reflected # {}
    <2>1. PICK some \in T : TRUE
      BY Zenon
    <2>2. MaxGeneration - some \in Reflected
      BY Zenon
    <2>3. ASSUME NEW y \in T PROVE MaxGeneration - y \in Nat
      BY JournalAssumption DEF Generations
    <2> QED
      BY Zenon, <2>2, <2>3
  <1>2. PICK r \in Reflected : \A q \in Reflected : r <= q
    BY Zenon, <1>1, LeastNatural
  <1>3. PICK x \in T : r = MaxGeneration - x
    BY Zenon, <1>2
  <1>4. ASSUME NEW y \in T PROVE x >= y
    <2>1. r <= MaxGeneration - y
      BY Zenon, <1>2
    <2> QED
      BY <1>3, <2>1, JournalAssumption DEF Generations
  <1>5. Max(T) \in T /\ \A y \in T : Max(T) >= y
    BY Zenon, <1>4 DEF Max
  <1> QED
    BY Zenon, <1>5 DEF Generations

(* Of two numbers, Max returns one that is not below either.               *)
LEMMA MaxOfTwo ==
    ASSUME NEW a \in 0 .. MaxGeneration, NEW b \in 0 .. MaxGeneration
    PROVE  Max({a, b}) \in {a, b} /\ a <= Max({a, b}) /\ b <= Max({a, b})
  <1>1. \E x \in {a, b} : \A y \in {a, b} : x >= y
    BY JournalAssumption
  <1>2. Max({a, b}) \in {a, b} /\ \A y \in {a, b} : Max({a, b}) >= y
    BY Zenon, <1>1 DEF Max
  <1> QED
    BY Zenon, <1>2, JournalAssumption
-----------------------------------------------------------------------------
LEMMA DefaultIsState == DefaultState \in State
  <1>1. NoEntries \in Entries
    BY Zenon DEF NoEntries, Entries
  <1> QED
    BY <1>1, JournalAssumption DEF DefaultState, State

(* The newest file is the one that is read.                                *)
LEMMA LatestIsNewest ==
    ASSUME NEW d \in [Generations -> Content], NEW r \in Generations,
           d[r] # NoFile, UpTo(d, r)
    PROVE  LatestOf(d) = d[r]
  <1> DEFINE present == {g \in Generations : d[g] # NoFile}
  <1>1. r \in present /\ present \in SUBSET Generations
    BY Zenon
  <1>2. Max(present) \in present /\ r <= Max(present)
    BY Zenon, <1>1, MaxIsGreatest
  <1>3. Max(present) <= r
    BY Zenon, <1>2 DEF UpTo
  <1>4. Max(present) = r
    BY <1>1, <1>2, <1>3 DEF Generations
  <1> QED
    BY Zenon, <1>1, <1>4 DEF LatestOf

(* What load_state returns of a journal without damage.                    *)
LEMMA LatestIsState ==
    ASSUME NEW d \in Directories, Undamaged(d)
    PROVE  /\ LatestOf(d) \in State
           /\ LatestOf(d).revision \in 0 .. MaxGeneration
           /\ UpTo(d, LatestOf(d).revision)
           /\ \/ /\ LatestOf(d) = DefaultState
                 /\ \A g \in Generations : d[g] = NoFile
              \/ /\ LatestOf(d).revision \in Generations
                 /\ d[LatestOf(d).revision] = LatestOf(d)
  <1> DEFINE present == {g \in Generations : d[g] # NoFile}
  <1>1. CASE present = {}
    <2>1. LatestOf(d) = DefaultState
      BY Zenon, <1>1 DEF LatestOf
    <2>2. \A g \in Generations : d[g] = NoFile
      BY Zenon, <1>1
    <2>3. DefaultState.revision \in 0 .. MaxGeneration
      BY JournalAssumption DEF DefaultState
    <2> QED
      BY Zenon, <2>1, <2>2, <2>3, DefaultIsState DEF UpTo
  <1>2. CASE present # {}
    <2> DEFINE r == Max(present)
    <2>1. present \in SUBSET Generations
      BY Zenon
    <2>2. r \in present /\ \A y \in present : y <= r
      BY Zenon, <1>2, <2>1, MaxIsGreatest
    <2>3. LatestOf(d) = d[r]
      BY Zenon, <1>2 DEF LatestOf
    <2>4. d[r] \in State
      BY Zenon, <2>2 DEF Directories, Content, Undamaged
    <2>5. d[r].revision = r
      BY Zenon, <2>2, <2>4 DEF Directories
    <2>6. r \in 0 .. MaxGeneration
      BY <2>2 DEF Generations
    <2>7. UpTo(d, r)
      BY Zenon, <2>2 DEF UpTo
    <2> HIDE DEF r
    <2> QED
      BY Zenon, <2>2, <2>3, <2>4, <2>5, <2>6, <2>7
  <1> QED
    BY Zenon, <1>1, <1>2
-----------------------------------------------------------------------------
(* The directory that undoes all but the first n changes.                  *)
Undo(contents, changes, n) ==
    [g \in Generations |->
        LET undone == {i \in n + 1 .. Len(changes) : changes[i].generation = g}
        IN  IF undone = {} THEN contents[g] ELSE changes[Min(undone)].old]

LEMMA PossibleIsUndone ==
    Possible = {Undo(files, unflushed, n) : n \in 0 .. Len(unflushed)}
  BY Zenon DEF Possible, OnDisk, Undo

LEMMA PossibleStays == UNCHANGED <<files, unflushed>> => Possible' = Possible
  <1>1. Possible' = {Undo(files', unflushed', n) : n \in 0 .. Len(unflushed')}
    BY Zenon DEF Possible, OnDisk, Undo
  <1> QED
    BY Zenon, <1>1, PossibleIsUndone

LEMMA SeenStays == UNCHANGED files => Latest' = Latest
  <1>1. Latest' = LatestOf(files')
    BY Zenon DEF Latest, LatestOf
  <1> QED
    BY Zenon, <1>1 DEF Latest

(* With every change on disk, the directory is the one that is seen.       *)
LEMMA UndoNothing ==
    ASSUME NEW contents \in [Generations -> Content], NEW changes \in Seq(Changes)
    PROVE  Undo(contents, changes, Len(changes)) = contents
  <1>1. Len(changes) \in Nat
    BY Zenon, LenProperties
  <1>2. Len(changes) + 1 .. Len(changes) = {}
    BY <1>1
  <1>3. Undo(contents, changes, Len(changes)) = [g \in Generations |-> contents[g]]
    BY Zenon, <1>2 DEF Undo
  <1> QED
    BY Zenon, <1>3

LEMMA FilesArePossible ==
    ASSUME unflushed \in Seq(Changes), files \in [Generations -> Content]
    PROVE  files \in Possible
  <1>1. Len(unflushed) \in 0 .. Len(unflushed)
    BY LenProperties
  <1> QED
    BY Zenon, <1>1, UndoNothing, PossibleIsUndone

(* One more change: the directory and the changes after it.                *)
OneMore(contents, changes, g, content, after, more) ==
    /\ after = [contents EXCEPT ![g] = content]
    /\ more = Append(changes, [generation |-> g, old |-> contents[g]])

(* One more change leaves the directories with fewer changes as they are.  *)
LEMMA UndoMore ==
    ASSUME NEW contents \in [Generations -> Content], NEW changes \in Seq(Changes),
           NEW g \in Generations, NEW content \in Content,
           NEW after, NEW more, OneMore(contents, changes, g, content, after, more),
           NEW n \in 0 .. Len(changes)
    PROVE  Undo(after, more, n) = Undo(contents, changes, n)
  <1> DEFINE change == [generation |-> g, old |-> contents[g]]
             L == Len(changes)
  <1>0. after = [contents EXCEPT ![g] = content] /\ more = Append(changes, change)
    BY Zenon DEF OneMore
  <1>1. L \in Nat /\ n \in Nat /\ n <= L
    BY LenProperties
  <1>2. /\ Len(more) = L + 1
        /\ more[L + 1] = change
        /\ \A i \in 1 .. L : more[i] = changes[i]
    <2>1. change \in Changes
      BY Zenon DEF Changes
    <2> HIDE DEF change
    <2> QED
      BY ONLY <1>0, <2>1, changes \in Seq(Changes), AppendProperties, SMT DEF L
  <1>3. change.generation = g /\ change.old = contents[g]
    BY Zenon
  <1> HIDE DEF change, L
  <1>4. ASSUME NEW h \in Generations
        PROVE  Undo(after, more, n)[h] = Undo(contents, changes, n)[h]
    <2> DEFINE old == {i \in n + 1 .. L : changes[i].generation = h}
               new == {i \in n + 1 .. L + 1 : more[i].generation = h}
    <2>1. Undo(contents, changes, n)[h]
            = IF old = {} THEN contents[h] ELSE changes[Min(old)].old
      BY Zenon DEF Undo, L
    <2>2. Undo(after, more, n)[h]
            = IF new = {} THEN after[h] ELSE more[Min(new)].old
      BY Zenon, <1>2 DEF Undo
    <2>3. old \in SUBSET Nat /\ new \in SUBSET Nat
      BY <1>1
    <2>4. old \subseteq new
      BY <1>1, <1>2
    <2>5. \A i \in new : i \in old \/ (i = L + 1 /\ h = g)
      BY <1>1, <1>2, <1>3
    <2>6. \A i \in old : i \in 1 .. L
      BY <1>1
    <2>7. h = g => L + 1 \in new
      BY <1>1, <1>2, <1>3
    <2> HIDE DEF old, new
    <2>8. CASE old # {}
      <3>1. Min(old) \in old /\ \A y \in old : Min(old) <= y
        BY Zenon, <2>3, <2>8, MinIsLeast
      <3>2. new # {}
        BY Zenon, <2>4, <2>8
      <3>3. Min(new) \in new /\ \A y \in new : Min(new) <= y
        BY Zenon, <2>3, <3>2, MinIsLeast
      <3>4. Min(new) <= Min(old)
        BY Zenon, <2>4, <3>1, <3>3
      <3>5. Min(new) \in old
        BY <1>1, <2>5, <2>6, <3>1, <3>3, <3>4
      <3>6. Min(old) <= Min(new)
        BY Zenon, <3>1, <3>5
      <3>7. Min(old) = Min(new)
        <4>1. Min(old) \in Nat /\ Min(new) \in Nat
          BY Zenon, <2>3, <3>1, <3>3
        <4> QED
          BY ONLY <4>1, <3>4, <3>6, SMT
      <3>8. more[Min(old)] = changes[Min(old)]
        BY Zenon, <1>2, <2>6, <3>1
      <3> QED
        BY Zenon, <2>1, <2>2, <2>8, <3>2, <3>7, <3>8
    <2>9. CASE old = {} /\ h = g
      <3>1. new # {}
        BY Zenon, <2>7, <2>9
      <3>2. Min(new) \in new
        BY Zenon, <2>3, <3>1, MinIsLeast
      <3>3. Min(new) = L + 1
        BY Zenon, <2>5, <2>9, <3>2
      <3> QED
        BY Zenon, <1>2, <1>3, <2>1, <2>2, <2>9, <3>1, <3>3
    <2>10. CASE old = {} /\ h # g
      <3>1. new = {}
        BY Zenon, <2>5, <2>10
      <3>2. after[h] = contents[h]
        BY Zenon, <1>0, <2>10
      <3> QED
        BY Zenon, <2>1, <2>2, <2>10, <3>1, <3>2
    <2> QED
      BY Zenon, <2>8, <2>9, <2>10
  <1>6. Undo(after, more, n) = [h \in Generations |-> Undo(after, more, n)[h]]
    BY Zenon DEF Undo
  <1>7. Undo(contents, changes, n) = [h \in Generations |-> Undo(contents, changes, n)[h]]
    BY Zenon DEF Undo
  <1> QED
    BY Zenon, <1>4, <1>6, <1>7

(* It adds the directory after it to those a power failure may leave.      *)
LEMMA ChangeAddsOne ==
    ASSUME unflushed \in Seq(Changes), files \in [Generations -> Content],
           NEW g \in Generations, NEW content \in Content,
           files' = [files EXCEPT ![g] = content],
           unflushed' = Append(unflushed, Change(g))
    PROVE  Possible' = Possible \cup {files'}
  <1>1. Possible' = {Undo(files', unflushed', n) : n \in 0 .. Len(unflushed')}
    BY Zenon DEF Possible, OnDisk, Undo
  <1>2. Len(unflushed) \in Nat /\ Len(unflushed') = Len(unflushed) + 1
    <2>1. Change(g) \in Changes
      BY Zenon DEF Change, Changes
    <2> QED
      BY Zenon, <2>1, AppendProperties, LenProperties
  <1>3. unflushed' \in Seq(Changes)
    <2>1. Change(g) \in Changes
      BY Zenon DEF Change, Changes
    <2> QED
      BY Zenon, <2>1, AppendProperties
  <1>4. files' \in [Generations -> Content]
    BY Zenon
  <1>5. ASSUME NEW n \in 0 .. Len(unflushed)
        PROVE  Undo(files', unflushed', n) = Undo(files, unflushed, n)
    <2>1. Change(g) = [generation |-> g, old |-> files[g]]
      BY Zenon DEF Change
    <2>2. OneMore(files, unflushed, g, content, files', unflushed')
      BY Zenon, <2>1 DEF OneMore
    <2> QED
      BY <2>2, UndoMore
  <1>6. Undo(files', unflushed', Len(unflushed')) = files'
    BY Zenon, <1>3, <1>4, UndoNothing
  <1>7. \A n : n \in 0 .. Len(unflushed') <=> n \in 0 .. Len(unflushed) \/ n = Len(unflushed')
    BY <1>2
  <1> QED
    BY ZenonT(40), <1>1, <1>5, <1>6, <1>7, PossibleIsUndone

(* After a flush, a power failure leaves what was flushed.                 *)
LEMMA FlushLeavesOne ==
    ASSUME files' \in [Generations -> Content], unflushed' = <<>>
    PROVE  Possible' = {files'}
  <1>1. Possible' = {Undo(files', unflushed', n) : n \in 0 .. Len(unflushed')}
    BY Zenon DEF Possible, OnDisk, Undo
  <1>2. unflushed' \in Seq(Changes) /\ Len(unflushed') = 0 /\ 0 .. 0 = {0}
    BY EmptySeq
  <1>3. Undo(files', unflushed', 0) = files'
    BY Zenon, <1>2, UndoNothing
  <1> QED
    BY Zenon, <1>1, <1>2, <1>3

(* Damage of one file changes that file at most, wherever it is kept.      *)
LEMMA DamageOfOne ==
    ASSUME files \in [Generations -> Content], NEW g \in Generations,
           files' = [files EXCEPT ![g] = Corrupt], UNCHANGED unflushed,
           NEW after \in Possible'
    PROVE  \E d \in Possible :
              /\ \A h \in Generations \ {g} : after[h] = d[h]
              /\ after[g] \in {d[g], Corrupt}
              /\ after = [h \in Generations |-> after[h]]
  <1>0. Possible' = {Undo(files', unflushed', n) : n \in 0 .. Len(unflushed')}
    BY Zenon DEF Possible, OnDisk, Undo
  <1>1. Possible' = {Undo(files', unflushed, n) : n \in 0 .. Len(unflushed)}
    BY Zenon, <1>0
  <1>2. PICK n \in 0 .. Len(unflushed) : after = Undo(files', unflushed, n)
    BY Zenon, <1>1
  <1> DEFINE d == Undo(files, unflushed, n)
  <1>3. d \in Possible
    BY Zenon, PossibleIsUndone
  <1>4. ASSUME NEW h \in Generations, files'[h] = files[h]
        PROVE  after[h] = d[h]
    <2> DEFINE undone == {i \in n + 1 .. Len(unflushed) : unflushed[i].generation = h}
    <2>1. d[h] = IF undone = {} THEN files[h] ELSE unflushed[Min(undone)].old
      BY Zenon DEF Undo
    <2>2. after[h] = IF undone = {} THEN files'[h] ELSE unflushed[Min(undone)].old
      BY Zenon, <1>2 DEF Undo
    <2> QED
      BY Zenon, <1>4, <2>1, <2>2
  <1>5. after[g] \in {d[g], Corrupt}
    <2>1. files'[g] = Corrupt
      BY Zenon
    <2> QED
      BY Zenon, <1>2, <2>1 DEF Undo
  <1>6. \A h \in Generations \ {g} : after[h] = d[h]
    BY Zenon, <1>4
  <1>7. after = [h \in Generations |-> after[h]]
    BY Zenon, <1>2 DEF Undo
  <1> HIDE DEF d
  <1> QED
    BY Zenon, <1>3, <1>5, <1>6, <1>7
-----------------------------------------------------------------------------
(* What a write returns are entries.                                       *)
LEMMA PutWriteTypes ==
    ASSUME NEW entries \in Entries, NEW bytes, NEW key \in Keys, NEW value \in Values
    PROVE  PutWrite(entries, bytes, key, value).entries \in Entries
  <1>1. [entries EXCEPT ![key] = value] \in Entries
    BY Zenon DEF Entries
  <1>2. \A error, b : /\ Written(entries, b).entries = entries
                      /\ Refused(error, entries, b).entries = entries
                      /\ Written([entries EXCEPT ![key] = value], b).entries
                            = [entries EXCEPT ![key] = value]
    BY Zenon DEF Written, Refused
  <1> QED
    BY Zenon, <1>1, <1>2 DEF PutWrite

LEMMA DeleteWriteTypes ==
    ASSUME NEW entries \in Entries, NEW bytes, NEW key \in Keys
    PROVE  DeleteWrite(entries, bytes, key).entries \in Entries
  <1>1. [entries EXCEPT ![key] = Absent] \in Entries
    BY Zenon DEF Entries
  <1>2. DeleteWrite(entries, bytes, key).entries = [entries EXCEPT ![key] = Absent]
    BY Zenon DEF DeleteWrite, Written
  <1> QED
    BY Zenon, <1>1, <1>2

LEMMA ApplyMutationsTypes ==
    ASSUME NEW entries \in Entries, NEW bytes, NEW mutations,
           \A i \in DOMAIN mutations : mutations[i].value \in Values \cup {Absent}
    PROVE  ApplyMutations(entries, bytes, mutations).entries \in Entries
  <1> DEFINE values(k) == {mutations[i].value :
                             i \in {j \in DOMAIN mutations : mutations[j].key = k}}
  <1>1. ASSUME NEW k \in Keys, values(k) # {}
        PROVE  (CHOOSE v \in values(k) : TRUE) \in Values \cup {Absent}
    <2>1. (CHOOSE v \in values(k) : TRUE) \in values(k)
      BY Zenon, <1>1
    <2>2. values(k) \subseteq Values \cup {Absent}
      BY Zenon
    <2> QED
      BY Zenon, <2>1, <2>2
  <1>2. NextEntries(entries, mutations) \in Entries
    <2>1. NextEntries(entries, mutations)
            = [k \in Keys |-> IF values(k) = {} THEN entries[k]
                              ELSE CHOOSE v \in values(k) : TRUE]
      BY Zenon DEF NextEntries
    <2>2. \A k \in Keys : entries[k] \in Values \cup {Absent}
      BY Zenon DEF Entries
    <2> HIDE DEF values
    <2> QED
      BY Zenon, <1>1, <2>1, <2>2 DEF Entries
  <1>3. \A error, b : /\ Refused(error, entries, b).entries = entries
                      /\ Written(NextEntries(entries, mutations), b).entries
                            = NextEntries(entries, mutations)
    BY Zenon DEF Written, Refused
  <1> QED
    BY Zenon, <1>2, <1>3 DEF ApplyMutations
-----------------------------------------------------------------------------
LEMMA FilesAreDirectory ==
    ASSUME JournalInv
    PROVE  files \in Possible /\ files \in Directories
  <1>1. unflushed \in Seq(Changes) /\ files \in [Generations -> Content]
    BY Zenon DEF JournalInv, JournalTypes
  <1>2. files \in Possible
    BY Zenon, <1>1, FilesArePossible
  <1> QED
    BY Zenon, <1>2 DEF JournalInv, PossibleInv

(* What an operation that could read the journal found.                    *)
LEMMA ReadableJournal ==
    ASSUME JournalInv, Readable
    PROVE  /\ Undamaged(files)
           /\ Latest \in State
           /\ Latest.revision \in 0 .. MaxGeneration
           /\ UpTo(files, Latest.revision)
  <1>1. Undamaged(files)
    BY Zenon, JournalAssumption DEF Undamaged, Readable, ValidFiles, StateFiles
  <1> QED
    BY Zenon, <1>1, FilesAreDirectory, LatestIsState DEF Latest

(* The state a commit is given: it follows the newest one.                 *)
Committing ==
    \E state \in State, who \in {"client", "migration"} :
        Latest.revision <= state.revision /\ StartCommit(state, who)

(* An operation that opened the journal leaves the invariant, whether it   *)
(* returns or commits, when it was allowed to count as matched.            *)
LEMMA OpenKeeps ==
    ASSUME JournalInv, Open, job' = job \/ Committing,
           corruptions = 0 => matched'
    PROVE  JournalInv'
  <1> USE DEF JournalInv
  <1>1. /\ UNCHANGED <<files, unflushed, tokens, acked, commits, corruptions>>
        /\ Readable /\ job.step = "none"
    BY Zenon DEF Open, LockFree
  <1>2. Possible' = Possible /\ Latest' = Latest
    BY Zenon, <1>1, SeenStays, PossibleStays
  <1>3. PossibleInv'
    BY Zenon, <1>1, <1>2 DEF PossibleInv
  <1>4. TokenInv'
    BY Zenon, <1>1, <1>2 DEF TokenInv
  <1>5. CASE job' = job
    <2>1. JournalTypes'
      BY Zenon, <1>1, <1>5 DEF JournalTypes
    <2>2. JobInv'
      BY Zenon, <1>1, <1>5 DEF JobInv
    <2> QED
      BY Zenon, <1>3, <1>4, <2>1, <2>2
  <1>6. CASE Committing
    <2>1. PICK state \in State, who \in {"client", "migration"} :
             Latest.revision <= state.revision /\ StartCommit(state, who)
      BY Zenon, <1>6 DEF Committing
    <2> DEFINE next == [state EXCEPT !.revision = @ + 1]
    <2>2. state.revision \in 0 .. MaxGeneration /\ state.revision < MaxGeneration
      BY Zenon, <2>1 DEF State, StartCommit
    <2>3. /\ next \in State /\ next.revision = state.revision + 1
          /\ next.revision \in Generations
      BY <2>2, JournalAssumption DEF State, Generations
    <2>4. job' = [step |-> "write", who |-> who, state |-> next]
      BY Zenon, <2>1 DEF StartCommit
    <2> HIDE DEF next
    <2>5. job' \in Jobs /\ job'.step = "write" /\ job'.state = next
      BY Zenon, <2>3, <2>4 DEF Jobs
    <2>6. Undamaged(files) /\ UpTo(files, Latest.revision)
             /\ Latest.revision \in 0 .. MaxGeneration
      BY Zenon, <1>1, ReadableJournal
    <2>7. Before(files, next.revision)
      <3>1. ASSUME NEW g \in Generations, g <= Latest.revision
            PROVE  g < next.revision
        BY <2>1, <2>2, <2>3, <2>6, <3>1, SMTT(30) DEF Generations
      <3> QED
        BY Zenon, <2>6, <3>1 DEF UpTo, Before
    <2>8. JournalTypes'
      BY Zenon, <1>1, <2>5 DEF JournalTypes
    <2>9. JobInv'
      <3>1. Undamaged(files') /\ Before(files', job'.state.revision)
        BY Zenon, <1>1, <2>5, <2>6, <2>7 
      <3>2. job'.step \notin {"sync", "prune"}
        BY Zenon, <2>5
      <3> QED
        BY Zenon, <2>3, <2>5, <3>1, <3>2 DEF JobInv
    <2> QED
      BY Zenon, <1>3, <1>4, <2>8, <2>9
  <1> QED
    BY Zenon, <1>5, <1>6

(* The common end of the writing operations commits what follows.          *)
LEMMA ConcludeCommits ==
    ASSUME JournalInv, Readable, NEW write, write.entries \in Entries, Conclude(write)
    PROVE  job' = job \/ Committing
  <1>1. Latest \in State /\ Latest.revision \in 0 .. MaxGeneration
    BY Zenon, ReadableJournal
  <1> DEFINE next == [Latest EXCEPT !.entries = write.entries]
  <1>2. next \in State /\ next.revision = Latest.revision
    BY Zenon, <1>1 DEF State
  <1>3. Latest.revision <= next.revision
    BY <1>1, <1>2
  <1>4. CASE StartCommit(next, "client")
    BY Zenon, <1>2, <1>3, <1>4 DEF Committing
  <1>5. CASE UNCHANGED job
    BY Zenon, <1>5
  <1> QED
    BY Zenon, <1>4, <1>5 DEF Conclude

(* A restored state follows both histories.                                *)
LEMMA RestoredFollows ==
    ASSUME JournalInv, Readable, NEW snapshot \in State,
           NEW who \in {"client", "migration"}, CommitRestored(Latest, snapshot, who)
    PROVE  job' = job \/ Committing
  <1>1. Latest \in State /\ Latest.revision \in 0 .. MaxGeneration
    BY Zenon, ReadableJournal
  <1>2. snapshot.revision \in 0 .. MaxGeneration
    BY Zenon DEF State
  <1> DEFINE number == Max({Latest.revision, snapshot.revision})
             next == [snapshot EXCEPT !.revision = number]
  <1>3. number \in 0 .. MaxGeneration /\ Latest.revision <= number
    BY Zenon, <1>1, <1>2, MaxOfTwo
  <1> HIDE DEF number
  <1>4. next \in State /\ Latest.revision <= next.revision
    BY Zenon, <1>3 DEF State
  <1>5. job' = job \/ StartCommit(next, who)
    BY Zenon DEF CommitRestored, number
  <1> HIDE DEF next
  <1> QED
    BY Zenon, <1>4, <1>5 DEF Committing

(* A step that leaves the directory and the counts alone.                  *)
LEMMA StillKeeps ==
    ASSUME PossibleInv, UNCHANGED <<files, unflushed, commits, corruptions>>
    PROVE  PossibleInv'
  <1>1. Possible' = Possible
    BY Zenon, PossibleStays
  <1> QED
    BY Zenon, <1>1 DEF PossibleInv

(* revision: the token it returns names the newest state.                  *)
LEMMA ReadRevisionKeeps ==
    ASSUME JournalInv, NEW c \in Clients, ReadRevision(c)
    PROVE  JournalInv'
  <1> USE DEF JournalInv
  <1>1. /\ Readable
        /\ tokens' = [tokens EXCEPT ![c] = [held |-> TRUE, state |-> Latest]]
        /\ UNCHANGED <<files, unflushed, job, matched, commits, corruptions>>
    BY Zenon DEF ReadRevision
  <1>2. Latest \in State /\ Latest.revision \in 0 .. MaxGeneration
    BY Zenon, <1>1, ReadableJournal
  <1>3. PossibleInv' /\ Latest' = Latest
    BY Zenon, <1>1, StillKeeps, SeenStays
  <1> DEFINE token == [held |-> TRUE, state |-> Latest]
  <1>4. token \in [held: BOOLEAN, state: State] /\ token.state = Latest
    BY Zenon, <1>2
  <1>5. JournalTypes'
    <2> HIDE DEF token
    <2>1. tokens' \in [Clients -> [held: BOOLEAN, state: State]]
      BY Zenon, <1>1, <1>4 DEF JournalTypes, token
    <2> QED
      BY Zenon, <1>1, <2>1 DEF JournalTypes
  <1>6. JobInv'
    BY Zenon, <1>1 DEF JobInv
  <1>7. ASSUME Named(tokens, Latest) PROVE Named(tokens', Latest)
    <2>1. tokens'[c] = token
      BY Zenon, <1>1 DEF JournalTypes
    <2>2. \A e \in Clients : e # c => tokens'[e] = tokens[e]
      BY Zenon, <1>1 DEF JournalTypes
    <2>3. Latest.revision <= Latest.revision
      BY <1>2
    <2> HIDE DEF token
    <2> QED
      BY Zenon, <1>4, <1>7, <2>1, <2>2, <2>3 DEF Named
  <1>8. TokenInv'
    BY Zenon, <1>1, <1>3, <1>7 DEF TokenInv
  <1> QED
    BY Zenon, <1>3, <1>5, <1>6, <1>8

(* The common end of compare_exchange and apply_batch.                     *)
LEMMA TransactKeeps ==
    ASSUME JournalInv, Open, NEW c \in Clients, NEW mutations,
           tokens[c].held, Latest.revision = tokens[c].state.revision,
           \A i \in DOMAIN mutations : mutations[i].value \in Values \cup {Absent},
           Transact(c, mutations)
    PROVE  JournalInv'
  <1> DEFINE write == ApplyMutations(Latest.entries, Bytes(Latest.entries), mutations)
  <1>1. Readable
    BY Zenon DEF Open
  <1>2. Latest \in State
    BY Zenon, <1>1, ReadableJournal
  <1>3. Latest.entries \in Entries
    BY Zenon, <1>2 DEF State
  <1>4. write.entries \in Entries
    BY Zenon, <1>3, ApplyMutationsTypes
  <1>5. /\ Conclude(write)
        /\ matched' = (matched /\ (write.error = "ok" => tokens[c].state = Latest))
    BY Zenon DEF Transact
  <1> HIDE DEF write
  <1>6. job' = job \/ Committing
    BY Zenon, <1>1, <1>4, <1>5, ConcludeCommits
  <1>7. corruptions = 0 => matched'
    BY Zenon, <1>5 DEF JournalInv, TokenInv, Named
  <1> QED
    BY Zenon, <1>6, <1>7, OpenKeeps

LEMMA MatchedStays ==
    ASSUME JournalInv, UNCHANGED matched PROVE corruptions = 0 => matched'
  BY Zenon DEF JournalInv, TokenInv

(* What the operations of a client, and recover's first step, preserve.    *)
LEMMA ClientKeeps ==
    ASSUME JournalInv, ClientNext PROVE JournalInv'
  <1>1. ASSUME NEW schema \in Schemas, Prepare(schema) PROVE JournalInv'
    <2>1. Open /\ Readable /\ UNCHANGED matched
      BY Zenon, <1>1 DEF Prepare, Open
    <2>2. Latest \in State /\ Latest.revision \in 0 .. MaxGeneration
      BY Zenon, <2>1, ReadableJournal
    <2> DEFINE next == [Latest EXCEPT !.schema = schema]
    <2>3. next \in State /\ Latest.revision <= next.revision
      BY <2>2 DEF State
    <2>4. StartCommit(next, "client") \/ job' = job
      BY Zenon, <1>1 DEF Prepare
    <2> HIDE DEF next
    <2>5. job' = job \/ Committing
      BY Zenon, <2>3, <2>4 DEF Committing
    <2> QED
      BY Zenon, <2>1, <2>5, OpenKeeps, MatchedStays
  <1>2. ASSUME NEW k \in Keys, NEW v \in Values, Put(k, v) PROVE JournalInv'
    <2>1. /\ Open /\ Readable /\ UNCHANGED matched
          /\ Conclude(PutWrite(Latest.entries, Bytes(Latest.entries), k, v))
      BY Zenon, <1>2 DEF Put, Open
    <2>2. Latest \in State
      BY Zenon, <2>1, ReadableJournal
    <2>3. Latest.entries \in Entries
      BY Zenon, <2>2 DEF State
    <2>4. PutWrite(Latest.entries, Bytes(Latest.entries), k, v).entries \in Entries
      BY Zenon, <2>3, PutWriteTypes
    <2>5. job' = job \/ Committing
      BY Zenon, <2>1, <2>4, ConcludeCommits
    <2> QED
      BY Zenon, <2>1, <2>5, OpenKeeps, MatchedStays
  <1>3. ASSUME NEW k \in Keys, Delete(k) PROVE JournalInv'
    <2>1. /\ Open /\ Readable /\ UNCHANGED matched
          /\ Conclude(DeleteWrite(Latest.entries, Bytes(Latest.entries), k))
      BY Zenon, <1>3 DEF Delete, Open
    <2>2. Latest \in State
      BY Zenon, <2>1, ReadableJournal
    <2>3. Latest.entries \in Entries
      BY Zenon, <2>2 DEF State
    <2>4. DeleteWrite(Latest.entries, Bytes(Latest.entries), k).entries \in Entries
      BY Zenon, <2>3, DeleteWriteTypes
    <2>5. job' = job \/ Committing
      BY Zenon, <2>1, <2>4, ConcludeCommits
    <2> QED
      BY Zenon, <2>1, <2>5, OpenKeeps, MatchedStays
  <1>4. ASSUME NEW c \in Clients, NEW k \in Keys,
               NEW expected \in Values \cup {Absent},
               NEW replacement \in Values \cup {Absent},
               CompareExchange(c, k, expected, replacement)
        PROVE  JournalInv'
    <2> DEFINE mutations == <<[key |-> k, value |-> replacement]>>
    <2>1. /\ Open /\ tokens[c].held
          /\ \/ /\ Latest.revision = tokens[c].state.revision
                /\ Transact(c, mutations)
             \/ UNCHANGED <<job, matched>>
      BY Zenon, <1>4 DEF CompareExchange
    <2>2. \A i \in DOMAIN mutations : mutations[i].value \in Values \cup {Absent}
      OBVIOUS
    <2> HIDE DEF mutations
    <2> QED
      BY Zenon, <2>1, <2>2, TransactKeeps, OpenKeeps, MatchedStays
  <1>5. ASSUME NEW c \in Clients, NEW mutations \in Batches, ApplyBatch(c, mutations)
        PROVE  JournalInv'
    <2>1. /\ Open /\ tokens[c].held
          /\ \/ /\ Latest.revision = tokens[c].state.revision
                /\ Transact(c, mutations)
             \/ UNCHANGED <<job, matched>>
      BY Zenon, <1>5 DEF ApplyBatch
    <2>2. PICK n \in 1 .. MaxOperations : mutations \in [1 .. n -> Mutation]
      BY Zenon DEF Batches
    <2>3. \A m \in Mutation : m.value \in Values \cup {Absent}
      BY Zenon DEF Mutation
    <2>4. \A i \in DOMAIN mutations : mutations[i].value \in Values \cup {Absent}
      BY Zenon, <2>2, <2>3
    <2> QED
      BY Zenon, <2>1, <2>4, TransactKeeps, OpenKeeps, MatchedStays
  <1>6. ASSUME NEW snapshot \in Imported, Restore(snapshot) PROVE JournalInv'
    <2>1. /\ Open /\ Readable /\ UNCHANGED matched
          /\ CommitRestored(Latest, snapshot, "client")
      BY Zenon, <1>6 DEF Restore, Open
    <2>2. snapshot \in State
      BY Zenon, ImportedAssumption DEF Snapshot
    <2>3. job' = job \/ Committing
      BY Zenon, <2>1, <2>2, RestoredFollows
    <2> QED
      BY Zenon, <2>1, <2>3, OpenKeeps, MatchedStays
  <1>7. CASE Recover
    <2>1. /\ job.step = "none"
          /\ job' = [Idle EXCEPT !.step = "quarantine", !.who = "recover"]
          /\ UNCHANGED <<files, unflushed, tokens, matched, commits, corruptions>>
      BY Zenon, <1>7 DEF Recover, LockFree
    <2>2. job' \in Jobs /\ job'.step = "quarantine" /\ job'.who = "recover"
      BY Zenon, <2>1, DefaultIsState DEF Idle, Jobs
    <2>3. PossibleInv' /\ Latest' = Latest
      BY Zenon, <2>1, StillKeeps, SeenStays DEF JournalInv
    <2>4. JournalTypes'
      BY Zenon, <2>1, <2>2 DEF JournalInv, JournalTypes
    <2>5. JobInv'
      <3>1. job'.step \notin {"write", "rename", "sync", "prune"}
        BY Zenon, <2>2
      <3> QED
        BY Zenon, <2>2, <3>1 DEF JobInv
    <2>6. TokenInv'
      BY Zenon, <2>1, <2>3 DEF JournalInv, TokenInv
    <2> QED
      BY Zenon, <2>3, <2>4, <2>5, <2>6 DEF JournalInv
  <1> QED
    BY Zenon, <1>1, <1>2, <1>3, <1>4, <1>5, <1>6, <1>7, ReadRevisionKeeps DEF ClientNext
-----------------------------------------------------------------------------
(* Two files stay beside each one that is removed from more than two.      *)
LEMMA TwoStay ==
    ASSUME NEW S \in SUBSET Generations, Cardinality(S) > 2, NEW x \in S
    PROVE  \E a, b \in S \ {x} : a # b
  <1>1. IsFiniteSet(S)
    <2>1. IsFiniteSet(Generations)
      BY FS_Interval, JournalAssumption DEF Generations
    <2> QED
      BY Zenon, <2>1, FS_Subset
  <1>2. Cardinality(S) \in Nat
    BY Zenon, <1>1, FS_CardinalityType
  <1>3. IsFiniteSet(S \ {x}) /\ Cardinality(S \ {x}) = Cardinality(S) - 1
    BY Zenon, <1>1, FS_RemoveElement
  <1>4. Cardinality(S \ {x}) # 0 /\ Cardinality(S \ {x}) # 1
    BY <1>2, <1>3
  <1>5. S \ {x} # {}
    BY Zenon, <1>4, FS_EmptySet
  <1>6. PICK a \in S \ {x} : TRUE
    BY Zenon, <1>5
  <1>7. S \ {x} # {a}
    BY Zenon, <1>4, FS_Singleton
  <1> QED
    BY Zenon, <1>6, <1>7

(* A change of the directory keeps PossibleInv when what is seen after it  *)
(* has what PossibleInv asks for.                                          *)
LEMMA ChangeKeeps ==
    ASSUME JournalInv, NEW g \in Generations, NEW content \in Content,
           files' = [files EXCEPT ![g] = content],
           unflushed' = Append(unflushed, Change(g)),
           UNCHANGED <<commits, corruptions>>,
           content \in State => content.revision = g,
           corruptions = 0 =>
              /\ Undamaged(files')
              /\ commits # 0 => OneValid(files')
              /\ commits = 2 => TwoValid(files'),
           corruptions = 1 /\ commits = 2 => OneValid(files')
    PROVE  /\ PossibleInv'
           /\ files' \in Directories
           /\ unflushed' \in Seq(Changes)
  <1>1. files \in [Generations -> Content] /\ unflushed \in Seq(Changes)
    BY Zenon DEF JournalInv, JournalTypes
  <1>2. Possible' \subseteq Possible \cup {files'}
    BY Zenon, <1>1, ChangeAddsOne
  <1>3. files' \in [Generations -> Content]
    BY Zenon, <1>1
  <1>4. files' \in Directories
    <2>1. ASSUME NEW h \in Generations, files'[h] \in State
          PROVE  files'[h].revision = h
      <3>1. CASE h = g
        BY Zenon, <1>1, <2>1, <3>1
      <3>2. CASE h # g
        <4>1. files'[h] = files[h]
          BY Zenon, <1>1, <3>2
        <4> QED
          BY Zenon, <2>1, <4>1, FilesAreDirectory DEF Directories
      <3> QED
        BY Zenon, <3>1, <3>2
    <2> QED
      BY Zenon, <1>3, <2>1 DEF Directories
  <1>5. unflushed' \in Seq(Changes)
    <2>1. Change(g) \in Changes
      BY Zenon, <1>1 DEF Change, Changes
    <2> QED
      BY Zenon, <1>1, <2>1, AppendProperties
  <1>6. PossibleInv'
    BY Zenon, <1>2, <1>4 DEF JournalInv, PossibleInv
  <1> QED
    BY Zenon, <1>4, <1>5, <1>6

(* fs::rename makes the new state the newest, in a generation that had no  *)
(* file before.                                                            *)
LEMMA RenameKeeps ==
    ASSUME JournalInv, RenameState
    PROVE  /\ JournalInv'
           /\ job.state.revision \in Generations
           /\ files[job.state.revision] = NoFile
           /\ Latest' = job.state
           /\ UpTo(files', job.state.revision)
           /\ Latest.revision \in 0 .. MaxGeneration
           /\ Latest.revision < job.state.revision
  <1> DEFINE r == job.state.revision
  <1>1. /\ job.step = "rename"
        /\ files' = [files EXCEPT ![r] = job.state]
        /\ unflushed' = Append(unflushed, Change(r))
        /\ job' = [job EXCEPT !.step = "sync"]
        /\ UNCHANGED <<tokens, matched, commits, corruptions>>
    BY Zenon DEF RenameState
  <1>2. /\ files \in [Generations -> Content]
        /\ job \in Jobs
        /\ commits \in 0 .. 2
    BY Zenon DEF JournalInv, JournalTypes
  <1>3. r \in Generations /\ Before(files, r) /\ Undamaged(files)
    BY Zenon, <1>1 DEF JournalInv, JobInv
  <1>4. job.state \in State /\ job.state \in Content
    BY Zenon, <1>2 DEF Jobs, Content
  <1>5. /\ files'[r] = job.state
        /\ \A h \in Generations : h # r => files'[h] = files[h]
    BY Zenon, <1>1, <1>2, <1>3
  <1>6. files \in Possible /\ files \in Directories
    BY Zenon, FilesAreDirectory
  <1>7. job'.step = "sync" /\ job'.state = job.state /\ job' \in Jobs
    BY Zenon, <1>1, <1>2 DEF Jobs
  <1> HIDE DEF r
  <1>8. Undamaged(files')
    BY Zenon, <1>3, <1>4, <1>5, JournalAssumption DEF Undamaged
  <1>9. OneValid(files')
    BY Zenon, <1>3, <1>4, <1>5 DEF OneValid
  <1>10. UpTo(files', r)
    <2>1. r <= r /\ \A g \in Generations : g < r => g <= r
      BY <1>3 DEF Generations
    <2> QED
      BY Zenon, <1>3, <1>5, <2>1 DEF UpTo, Before
  <1>11. ASSUME OneValid(files) PROVE TwoValid(files')
    <2>1. PICK a \in Generations : files[a] \in State
      BY Zenon, <1>11 DEF OneValid
    <2>2. a < r
      BY Zenon, <1>3, <2>1, JournalAssumption DEF Before
    <2>3. a # r
      BY <1>3, <2>2 DEF Generations
    <2> QED
      BY Zenon, <1>3, <1>4, <1>5, <2>1, <2>3 DEF TwoValid
  <1>12. commits # 0 /\ corruptions = 0 => TwoValid(files')
    BY Zenon, <1>6, <1>11 DEF JournalInv, PossibleInv
  <1>13. commits = 2 => commits # 0
    OBVIOUS
  <1>14. job.state.revision = r
    BY Zenon DEF r
  <1>15. PossibleInv' /\ files' \in Directories /\ unflushed' \in Seq(Changes)
    BY Zenon, <1>1, <1>3, <1>4, <1>8, <1>9, <1>12, <1>13, <1>14, ChangeKeeps
  <1>16. files' \in [Generations -> Content]
    BY Zenon, <1>15 DEF Directories
  <1>17. JournalTypes'
    BY Zenon, <1>1, <1>7, <1>15, <1>16 DEF JournalInv, JournalTypes
  <1>18. JobInv'
    <2>1. /\ job'.step \notin {"write", "rename"} /\ job'.step # "quarantine"
          /\ job'.state.revision = r
      BY Zenon, <1>7, <1>14
    <2>2. files'[r] \in State
      BY Zenon, <1>4, <1>5
    <2> QED
      BY Zenon, <1>1, <1>3, <1>8, <1>10, <1>12, <2>1, <2>2 DEF JobInv
  <1>19. Latest' = job.state
    <2>1. files'[r] # NoFile
      BY Zenon, <1>4, <1>5, JournalAssumption
    <2>2. LatestOf(files') = files'[r]
      BY Zenon, <1>3, <1>10, <1>16, <2>1, LatestIsNewest
    <2> QED
      BY Zenon, <1>5, <2>2 DEF Latest, LatestOf
  <1>20. Latest.revision \in 0 .. MaxGeneration /\ Latest.revision < r
    <2>1. CASE Latest = DefaultState
      BY <1>3, <2>1, JournalAssumption DEF DefaultState, Generations
    <2>2. CASE Latest.revision \in Generations /\ files[Latest.revision] = Latest
      <3>1. Latest \in State
        BY Zenon, <1>3, <1>6, LatestIsState DEF Latest
      <3>2. Latest.revision < r
        BY Zenon, <1>3, <2>2, <3>1, JournalAssumption DEF Before
      <3> QED
        BY <2>2, <3>2 DEF Generations
    <2> QED
      BY Zenon, <1>3, <1>6, <2>1, <2>2, LatestIsState DEF Latest
  <1>21. TokenInv'
    <2>1. ASSUME Named(tokens, Latest) PROVE Named(tokens, job.state)
      <3>1. ASSUME NEW c \in Clients, tokens[c].held
            PROVE  /\ tokens[c].state.revision <= job.state.revision
                   /\ tokens[c].state.revision # job.state.revision
        <4>1. tokens[c].state.revision <= Latest.revision
          BY Zenon, <2>1, <3>1 DEF Named
        <4>2. tokens[c] \in [held: BOOLEAN, state: State]
          BY Zenon DEF JournalInv, JournalTypes
        <4>3. tokens[c].state.revision \in 0 .. MaxGeneration
          BY Zenon, <4>2 DEF State
        <4> QED
          BY <1>3, <1>14, <1>20, <4>1, <4>3 DEF Generations
      <3> QED
        BY Zenon, <3>1 DEF Named
    <2> QED
      BY Zenon, <1>1, <1>19, <2>1 DEF JournalInv, TokenInv
  <1>22. files[r] = NoFile
    <2>1. ~(r < r)
      BY <1>3 DEF Generations
    <2> QED
      BY Zenon, <1>3, <2>1 DEF Before
  <1> QED
    BY Zenon, <1>3, <1>10, <1>14, <1>15, <1>17, <1>18, <1>19, <1>20, <1>21, <1>22
       DEF JournalInv

(* prune_generations removes an old file, and neither the newest state    *)
(* nor, with it, the last but one.                                         *)
LEMMA PruneKeeps ==
    ASSUME JournalInv, PruneOldest
    PROVE  /\ JournalInv'
           /\ Latest' = Latest
           /\ Min(StateFiles) \in Generations
           /\ files[Min(StateFiles)] # NoFile
  <1> DEFINE o == Min(StateFiles)
  <1>1. /\ job.step = "prune"
        /\ Cardinality(StateFiles) > 2
        /\ files' = [files EXCEPT ![o] = NoFile]
        /\ unflushed' = Append(unflushed, Change(o))
        /\ UNCHANGED <<job, tokens, matched, commits, corruptions>>
    BY Zenon DEF PruneOldest, Retained
  <1>2. files \in [Generations -> Content] /\ files \in Directories
    BY Zenon, FilesAreDirectory DEF JournalInv, JournalTypes
  <1>3. StateFiles \in SUBSET Generations /\ StateFiles \in SUBSET Nat
    BY DEF StateFiles, Generations
  <1>4. StateFiles # {}
    <2>1. ASSUME StateFiles = {} PROVE FALSE
      <3>1. Cardinality(StateFiles) = 0 /\ Cardinality(StateFiles) > 2
        BY Zenon, <1>1, <2>1, FS_EmptySet
      <3> QED
        BY ONLY <3>1, SMT
    <2> QED
      BY Zenon, <2>1
  <1>5. o \in StateFiles /\ \A y \in StateFiles : o <= y
    BY Zenon, <1>3, <1>4, MinIsLeast
  <1> HIDE DEF o
  <1>6. o \in Generations
    BY Zenon, <1>3, <1>5
  <1>7. /\ files'[o] = NoFile
        /\ \A h \in Generations : h # o => files'[h] = files[h]
    BY Zenon, <1>1, <1>2, <1>6
  <1>8. Undamaged(files) /\ Undamaged(files')
    <2>1. Undamaged(files)
      BY Zenon, <1>1 DEF JournalInv, JobInv
    <2> QED
      BY Zenon, <1>7, <2>1, JournalAssumption DEF Undamaged
  <1>9. PICK a, b \in StateFiles \ {o} : a # b
    BY Zenon, <1>1, <1>3, <1>5, TwoStay
  <1>10. \A h \in StateFiles : files[h] \in State
    BY Zenon, <1>2, <1>8 DEF StateFiles, Undamaged, Content
  <1>11. TwoValid(files') /\ OneValid(files')
    BY Zenon, <1>3, <1>7, <1>9, <1>10 DEF TwoValid, OneValid
  <1>12. NoFile \in Content /\ NoFile \notin State
    BY Zenon, JournalAssumption DEF Content
  <1>13. PossibleInv' /\ files' \in Directories /\ unflushed' \in Seq(Changes)
    BY Zenon, <1>1, <1>6, <1>8, <1>11, <1>12, ChangeKeeps
  <1>14. files' \in [Generations -> Content]
    BY Zenon, <1>13 DEF Directories
  <1>15. JournalTypes'
    BY Zenon, <1>1, <1>13, <1>14 DEF JournalInv, JournalTypes
  <1>16. ASSUME NEW r \in Generations, UpTo(files, r)
         PROVE  r # o /\ UpTo(files', r)
    <2>1. o <= a /\ a <= r /\ a # o /\ a \in Generations
      BY Zenon, <1>3, <1>5, <1>9, <1>16 DEF UpTo, StateFiles
    <2>2. r # o
      BY <1>6, <2>1 DEF Generations
    <2> QED
      BY Zenon, <1>7, <1>16, <2>2 DEF UpTo
  <1>17. JobInv'
    <2>1. job'.step \notin {"write", "rename"}
      BY Zenon, <1>1
    <2>2. ASSUME job.who # "recover"
          PROVE  /\ job.state.revision \in Generations
                 /\ files'[job.state.revision] \in State
                 /\ UpTo(files', job.state.revision)
      <3>1. /\ job.state.revision \in Generations
            /\ files[job.state.revision] \in State
            /\ UpTo(files, job.state.revision)
        BY Zenon, <1>1, <2>2 DEF JournalInv, JobInv
      <3> QED
        BY Zenon, <1>7, <1>16, <3>1
    <2> QED
      BY Zenon, <1>1, <1>8, <1>11, <2>1, <2>2 DEF JobInv
  <1>18. Latest' = Latest
    <2>1. /\ Latest.revision \in Generations
          /\ files[Latest.revision] = Latest
          /\ UpTo(files, Latest.revision)
      BY Zenon, <1>2, <1>5, <1>8, LatestIsState DEF Latest, StateFiles
    <2>2. files'[Latest.revision] = Latest /\ UpTo(files', Latest.revision)
      BY Zenon, <1>7, <1>16, <2>1
    <2>3. Latest # NoFile
      BY Zenon, <1>2, <1>8, JournalAssumption, LatestIsState DEF Latest
    <2>4. LatestOf(files') = Latest
      BY Zenon, <1>14, <2>1, <2>2, <2>3, LatestIsNewest
    <2> QED
      BY Zenon, <2>4 DEF Latest, LatestOf
  <1>19. TokenInv'
    BY Zenon, <1>1, <1>18 DEF JournalInv, TokenInv
  <1> QED
    BY Zenon, <1>5, <1>6, <1>13, <1>15, <1>17, <1>18, <1>19 DEF JournalInv, StateFiles, o

(* recover puts corrupt files aside, and no valid one.                     *)
LEMMA QuarantineKeeps ==
    ASSUME JournalInv, NEW g \in Generations, QuarantineFile(g) PROVE JournalInv'
  <1>1. /\ job.step = "quarantine" /\ files[g] = Corrupt
        /\ files' = [files EXCEPT ![g] = NoFile]
        /\ unflushed' = Append(unflushed, Change(g))
        /\ UNCHANGED <<job, tokens, matched, commits, corruptions>>
    BY Zenon DEF QuarantineFile
  <1>2. files \in [Generations -> Content] /\ files \in Possible
    BY Zenon, FilesAreDirectory DEF JournalInv, JournalTypes
  <1>3. /\ files'[g] = NoFile
        /\ \A h \in Generations : h # g => files'[h] = files[h]
    BY Zenon, <1>1, <1>2
  <1>4. \A h \in Generations : files[h] \in State => files'[h] = files[h]
    BY Zenon, <1>1, <1>3, JournalAssumption
  <1>5. /\ Undamaged(files) => Undamaged(files')
        /\ OneValid(files) => OneValid(files')
        /\ TwoValid(files) => TwoValid(files')
    <2>1. Undamaged(files) => Undamaged(files')
      BY Zenon, <1>1 DEF Undamaged
    <2>2. OneValid(files) => OneValid(files')
      BY Zenon, <1>4 DEF OneValid
    <2>3. TwoValid(files) => TwoValid(files')
      BY Zenon, <1>4 DEF TwoValid
    <2> QED
      BY Zenon, <2>1, <2>2, <2>3
  <1>6. NoFile \in Content /\ NoFile \notin State
    BY Zenon, JournalAssumption DEF Content
  <1>7. /\ corruptions = 0 =>
             /\ Undamaged(files')
             /\ commits # 0 => OneValid(files')
             /\ commits = 2 => TwoValid(files')
        /\ corruptions = 1 /\ commits = 2 => OneValid(files')
    BY Zenon, <1>2, <1>5 DEF JournalInv, PossibleInv
  <1>8. PossibleInv' /\ files' \in Directories /\ unflushed' \in Seq(Changes)
    BY Zenon, <1>1, <1>6, <1>7, ChangeKeeps
  <1>9. JournalTypes'
    BY Zenon, <1>1, <1>8 DEF JournalInv, JournalTypes, Directories
  <1>10. JobInv'
    <2>1. job'.step \notin {"write", "rename", "sync", "prune"}
      BY Zenon, <1>1
    <2> QED
      BY Zenon, <1>1, <2>1 DEF JournalInv, JobInv
  <1>11. TokenInv'
    <2>1. corruptions # 0
      BY Zenon, <1>1, <1>2 DEF JournalInv, PossibleInv, Undamaged
    <2> QED
      BY Zenon, <1>1, <2>1 DEF TokenInv
  <1> QED
    BY Zenon, <1>8, <1>9, <1>10, <1>11 DEF JournalInv

(* The steps of a job that leave the files alone.                          *)
LEMMA QuietJobKeeps ==
    ASSUME JournalInv, WriteTemporary \/ CleanupRecovered \/ Abandon PROVE JournalInv'
  <1>1. UNCHANGED <<files, unflushed, tokens, matched, commits, corruptions>>
    BY Zenon DEF WriteTemporary, CleanupRecovered, Abandon
  <1>2. PossibleInv' /\ Latest' = Latest
    BY Zenon, <1>1, StillKeeps, SeenStays DEF JournalInv
  <1>3. TokenInv'
    BY Zenon, <1>1, <1>2 DEF JournalInv, TokenInv
  <1>4. job \in Jobs
    BY Zenon DEF JournalInv, JournalTypes
  <1>5. CASE WriteTemporary
    <2>1. job.step = "write" /\ job' = [job EXCEPT !.step = "rename"]
      BY Zenon, <1>5 DEF WriteTemporary
    <2>2. job' \in Jobs /\ job'.step = "rename" /\ job'.state = job.state
      BY Zenon, <1>4, <2>1 DEF Jobs
    <2>3. JournalTypes'
      BY Zenon, <1>1, <2>2 DEF JournalInv, JournalTypes
    <2>4. job'.step \notin {"sync", "prune"}
      BY Zenon, <2>2
    <2>5. JobInv'
      BY Zenon, <1>1, <2>1, <2>2, <2>4 DEF JournalInv, JobInv
    <2> QED
      BY Zenon, <1>2, <1>3, <2>3, <2>5 DEF JournalInv
  <1>6. CASE CleanupRecovered
    <2>1. /\ job.step = "quarantine" /\ Readable
          /\ job' = [job EXCEPT !.step = "prune"]
      BY Zenon, <1>6 DEF CleanupRecovered
    <2>2. job.who = "recover"
      BY Zenon, <2>1 DEF JournalInv, JobInv
    <2>3. job' \in Jobs /\ job'.step = "prune" /\ job'.who = "recover"
      BY Zenon, <1>4, <2>1, <2>2 DEF Jobs
    <2>4. JournalTypes'
      BY Zenon, <1>1, <2>3 DEF JournalInv, JournalTypes
    <2>5. job'.step \notin {"write", "rename"}
      BY Zenon, <2>3
    <2>6. Undamaged(files')
      BY Zenon, <1>1, <2>1, ReadableJournal
    <2>7. JobInv'
      BY Zenon, <2>3, <2>5, <2>6 DEF JobInv
    <2> QED
      BY Zenon, <1>2, <1>3, <2>4, <2>7 DEF JournalInv
  <1>7. CASE Abandon
    <2>1. job' = Idle
      BY Zenon, <1>7 DEF Abandon
    <2>2. job' \in Jobs /\ job'.step = "none"
      BY Zenon, <2>1, DefaultIsState DEF Idle, Jobs
    <2>3. JournalTypes'
      BY Zenon, <1>1, <2>2 DEF JournalInv, JournalTypes
    <2>4. JobInv'
      BY Zenon, <2>2 DEF JobInv
    <2> QED
      BY Zenon, <1>2, <1>3, <2>3, <2>4 DEF JournalInv
  <1> QED
    BY Zenon, <1>5, <1>6, <1>7

(* A flush, and the end of a commit: a second acknowledged commit finds    *)
(* two valid files.                                                        *)
LEMMA FlushKeeps ==
    ASSUME JournalInv, SyncDirectory \/ FinishCommit PROVE JournalInv'
  <1>1. unflushed' = <<>> /\ UNCHANGED <<files, tokens, matched, corruptions>>
    BY Zenon DEF SyncDirectory, FinishCommit
  <1>2. /\ files \in [Generations -> Content] /\ files \in Possible
        /\ files \in Directories /\ job \in Jobs /\ commits \in 0 .. 2
    BY Zenon, FilesAreDirectory DEF JournalInv, JournalTypes
  <1>3. Possible' = {files} /\ unflushed' \in Seq(Changes)
    <2>1. Possible' = {files'}
      BY Zenon, <1>1, <1>2, FlushLeavesOne
    <2> QED
      BY Zenon, <1>1, <2>1, EmptySeq
  <1>4. Latest' = Latest
    BY Zenon, <1>1, SeenStays
  <1>5. TokenInv'
    BY Zenon, <1>1, <1>4 DEF JournalInv, TokenInv
  <1>6. CASE SyncDirectory
    <2>1. /\ job.step = "sync" /\ job' = [job EXCEPT !.step = "prune"]
          /\ UNCHANGED commits
      BY Zenon, <1>6 DEF SyncDirectory
    <2>2. /\ job' \in Jobs /\ job'.step = "prune" /\ job'.who = job.who
          /\ job'.state = job.state
      BY Zenon, <1>2, <2>1 DEF Jobs
    <2>3. JournalTypes'
      BY Zenon, <1>1, <1>3, <2>1, <2>2 DEF JournalInv, JournalTypes
    <2>4. job'.step \notin {"write", "rename"}
      BY Zenon, <2>2
    <2>5. JobInv'
      BY Zenon, <1>1, <2>1, <2>2, <2>4 DEF JournalInv, JobInv
    <2>6. PossibleInv'
      BY Zenon, <1>1, <1>2, <1>3, <2>1 DEF JournalInv, PossibleInv
    <2> QED
      BY Zenon, <1>5, <2>3, <2>5, <2>6 DEF JournalInv
  <1>7. CASE FinishCommit
    <2>1. /\ job.step = "prune" /\ job' = Idle
          /\ IF job.who = "recover" THEN UNCHANGED commits
             ELSE commits' = Min({commits + 1, 2})
      BY Zenon, <1>7 DEF FinishCommit
    <2>2. job' \in Jobs /\ job'.step = "none"
      BY Zenon, <2>1, DefaultIsState DEF Idle, Jobs
    <2>3. JobInv'
      BY Zenon, <2>2 DEF JobInv
    <2>4. commits' \in 0 .. 2 /\ (commits' = 2 => commits # 0 \/ job.who = "recover")
             /\ (job.who = "recover" => commits' = commits)
      <3>1. CASE job.who = "recover"
        BY Zenon, <1>2, <2>1, <3>1
      <3>2. CASE job.who # "recover"
        <4>1. {commits + 1, 2} \in SUBSET Nat
          BY <1>2
        <4>2. Min({commits + 1, 2}) \in {commits + 1, 2}
                 /\ \A y \in {commits + 1, 2} : Min({commits + 1, 2}) <= y
          BY Zenon, <4>1, MinIsLeast
        <4> QED
          BY <1>2, <2>1, <3>2, <4>2
      <3> QED
        BY Zenon, <3>1, <3>2
    <2>5. JournalTypes'
      BY Zenon, <1>1, <1>3, <2>2, <2>4 DEF JournalInv, JournalTypes
    <2>6. /\ corruptions = 0 => Undamaged(files)
          /\ corruptions = 0 /\ commits # 0 => OneValid(files)
          /\ corruptions = 0 /\ commits = 2 => TwoValid(files)
          /\ corruptions = 1 /\ commits = 2 => OneValid(files)
      BY Zenon, <1>2 DEF JournalInv, PossibleInv
    <2>7. job.who # "recover" =>
             /\ OneValid(files)
             /\ commits # 0 /\ corruptions = 0 => TwoValid(files)
      BY Zenon, <2>1 DEF JournalInv, JobInv, OneValid
    <2>8. PossibleInv'
      BY Zenon, <1>1, <1>2, <1>3, <2>4, <2>6, <2>7 DEF PossibleInv
    <2> QED
      BY Zenon, <1>5, <2>3, <2>5, <2>8 DEF JournalInv
  <1> QED
    BY Zenon, <1>6, <1>7

(* After a power failure the directory is one of the possible ones, and    *)
(* nobody holds a revision.                                                *)
LEMMA PowerLossKeeps ==
    ASSUME JournalInv, DirectoryPowerLoss PROVE JournalInv'
  <1>1. /\ files' \in Possible /\ unflushed' = <<>> /\ job' = Idle
        /\ tokens' = [c \in Clients |-> NoToken]
        /\ UNCHANGED <<matched, commits, corruptions>>
    BY Zenon DEF DirectoryPowerLoss, Possible
  <1>2. files' \in Directories /\ files' \in [Generations -> Content]
    BY Zenon, <1>1 DEF JournalInv, PossibleInv, Directories
  <1>3. Possible' = {files'}
    BY Zenon, <1>1, <1>2, FlushLeavesOne
  <1>4. job' \in Jobs /\ job'.step = "none"
    BY Zenon, <1>1, DefaultIsState DEF Idle, Jobs
  <1>5. NoToken \in [held: BOOLEAN, state: State] /\ NoToken.held = FALSE
    BY Zenon, DefaultIsState DEF NoToken
  <1>6. JournalTypes'
    <2>1. unflushed' \in Seq(Changes)
      BY Zenon, <1>1, EmptySeq
    <2>2. tokens' \in [Clients -> [held: BOOLEAN, state: State]]
      BY Zenon, <1>1, <1>5
    <2> QED
      BY Zenon, <1>1, <1>2, <1>4, <2>1, <2>2 DEF JournalInv, JournalTypes
  <1>7. JobInv'
    BY Zenon, <1>4 DEF JobInv
  <1>8. PossibleInv'
    BY Zenon, <1>1, <1>2, <1>3 DEF JournalInv, PossibleInv
  <1>9. TokenInv'
    <2>1. ASSUME NEW latest PROVE Named(tokens', latest)
      <3>1. \A c \in Clients : tokens'[c].held = FALSE
        BY Zenon, <1>1, <1>5
      <3> QED
        BY Zenon, <3>1 DEF Named
    <2> QED
      BY Zenon, <1>1, <2>1 DEF JournalInv, TokenInv
  <1> QED
    BY Zenon, <1>6, <1>7, <1>8, <1>9 DEF JournalInv

(* One damaged file of two leaves one, in every directory that may be on   *)
(* the disk.                                                               *)
LEMMA DamageKeeps ==
    ASSUME JournalInv, NEW g \in Generations, DamageFile(g) PROVE JournalInv'
  <1>1. /\ job.step = "none"
        /\ files' = [files EXCEPT ![g] = Corrupt]
        /\ corruptions' = corruptions + 1
        /\ UNCHANGED <<unflushed, job, tokens, matched, commits>>
    BY Zenon DEF DamageFile, LockFree
  <1>2. files \in [Generations -> Content] /\ corruptions \in Nat
    BY Zenon DEF JournalInv, JournalTypes
  <1>3. /\ corruptions' \in Nat /\ corruptions' # 0
        /\ corruptions' = 1 => corruptions = 0
    BY <1>1, <1>2
  <1>4. Corrupt \in Content /\ Corrupt \notin State
    BY Zenon, JournalAssumption DEF Content
  <1>5. JournalTypes'
    <2>1. files' \in [Generations -> Content]
      BY Zenon, <1>1, <1>2, <1>4
    <2> QED
      BY Zenon, <1>1, <1>3, <2>1 DEF JournalInv, JournalTypes
  <1>6. JobInv'
    BY Zenon, <1>1 DEF JobInv
  <1>7. TokenInv'
    BY Zenon, <1>3 DEF TokenInv
  <1>8. ASSUME NEW after \in Possible'
        PROVE  /\ after \in Directories
               /\ corruptions' = 1 /\ commits' = 2 => OneValid(after)
    <2>1. PICK d \in Possible :
             /\ \A h \in Generations \ {g} : after[h] = d[h]
             /\ after[g] \in {d[g], Corrupt}
             /\ after = [h \in Generations |-> after[h]]
      BY Zenon, <1>1, <1>2, DamageOfOne
    <2>2. d \in Directories
      BY Zenon DEF JournalInv, PossibleInv
    <2>3. \A h \in Generations : after[h] = d[h] \/ after[h] = Corrupt
      BY Zenon, <2>1
    <2>4. \A h \in Generations : after[h] \in Content
      BY Zenon, <1>4, <2>2, <2>3 DEF Directories
    <2>5. \A h \in Generations : after[h] \in State => after[h].revision = h
      BY Zenon, <1>4, <2>2, <2>3 DEF Directories
    <2>6. after \in Directories
      BY Zenon, <2>1, <2>4, <2>5 DEF Directories
    <2>7. TwoValid(d) => OneValid(after)
      BY Zenon, <2>1 DEF TwoValid, OneValid
    <2> QED
      BY Zenon, <1>1, <1>3, <2>6, <2>7 DEF JournalInv, PossibleInv
  <1>9. PossibleInv'
    BY Zenon, <1>3, <1>8 DEF PossibleInv
  <1> QED
    BY Zenon, <1>5, <1>6, <1>7, <1>9 DEF JournalInv
-----------------------------------------------------------------------------
LEMMA DirectoryStarts == DirectoryInit => JournalInv
  <1> SUFFICES ASSUME DirectoryInit PROVE JournalInv
    BY Zenon
  <1>1. /\ files = [g \in Generations |-> NoFile] /\ unflushed = <<>> /\ job = Idle
        /\ tokens = [c \in Clients |-> NoToken] /\ matched = TRUE
        /\ commits = 0 /\ corruptions = 0
    BY Zenon DEF DirectoryInit
  <1>2. NoFile \in Content /\ NoFile \notin State /\ NoFile # Corrupt
    BY Zenon, JournalAssumption DEF Content
  <1>3. files \in [Generations -> Content] /\ files \in Directories /\ Undamaged(files)
    BY Zenon, <1>1, <1>2 DEF Directories, Undamaged
  <1>4. unflushed \in Seq(Changes) /\ Len(unflushed) = 0 /\ 0 .. 0 = {0}
    BY <1>1, EmptySeq
  <1>5. Possible = {files}
    <2>1. Undo(files, unflushed, 0) = files
      BY Zenon, <1>3, <1>4, UndoNothing
    <2> QED
      BY Zenon, <1>4, <2>1, PossibleIsUndone
  <1>6. job \in Jobs /\ job.step = "none"
    BY Zenon, <1>1, DefaultIsState DEF Idle, Jobs
  <1>7. NoToken \in [held: BOOLEAN, state: State] /\ NoToken.held = FALSE
    BY Zenon, DefaultIsState DEF NoToken
  <1>8. JournalTypes
    <2>1. tokens \in [Clients -> [held: BOOLEAN, state: State]]
      BY Zenon, <1>1, <1>7
    <2>2. commits \in 0 .. 2 /\ corruptions \in Nat
      BY <1>1
    <2> QED
      BY Zenon, <1>3, <1>4, <1>6, <2>1, <2>2 DEF JournalTypes
  <1>9. JobInv
    BY Zenon, <1>6 DEF JobInv
  <1>10. PossibleInv
    <2>1. commits # 2
      BY <1>1
    <2> QED
      BY Zenon, <1>1, <1>3, <1>5, <2>1 DEF PossibleInv
  <1>11. TokenInv
    <2>1. \A c \in Clients : tokens[c].held = FALSE
      BY Zenon, <1>1, <1>7
    <2> QED
      BY Zenon, <1>1, <2>1 DEF TokenInv, Named
  <1> QED
    BY Zenon, <1>8, <1>9, <1>10, <1>11 DEF JournalInv

LEMMA DirectoryStutters ==
    ASSUME JournalInv, UNCHANGED directoryVars PROVE JournalInv'
  <1>1. UNCHANGED <<files, unflushed, job, tokens, matched, commits, corruptions>>
    BY Zenon DEF directoryVars
  <1>2. PossibleInv' /\ Latest' = Latest
    BY Zenon, <1>1, StillKeeps, SeenStays DEF JournalInv
  <1>3. JournalTypes'
    BY Zenon, <1>1 DEF JournalInv, JournalTypes
  <1>4. JobInv'
    BY Zenon, <1>1 DEF JournalInv, JobInv
  <1>5. TokenInv'
    BY Zenon, <1>1, <1>2 DEF JournalInv, TokenInv
  <1> QED
    BY Zenon, <1>2, <1>3, <1>4, <1>5 DEF JournalInv

LEMMA DirectoryStepKeeps ==
    ASSUME JournalInv, [DirectoryNext]_directoryVars PROVE JournalInv'
  <1>1. CASE ClientNext
    BY Zenon, <1>1, ClientKeeps
  <1>2. CASE JobNext
    BY Zenon, <1>2, QuietJobKeeps, RenameKeeps, FlushKeeps, PruneKeeps, QuarantineKeeps
       DEF JobNext
  <1>3. CASE Abandon
    BY Zenon, <1>3, QuietJobKeeps
  <1>4. CASE DirectoryPowerLoss
    BY Zenon, <1>4, PowerLossKeeps
  <1>5. CASE \E g \in Generations : DamageFile(g)
    BY Zenon, <1>5, DamageKeeps
  <1>6. CASE UNCHANGED directoryVars
    BY Zenon, <1>6, DirectoryStutters
  <1> QED
    BY Zenon, <1>1, <1>2, <1>3, <1>4, <1>5, <1>6 DEF DirectoryNext

LEMMA JournalInvHolds == DirectorySpec => []JournalInv
  <1>1. JournalInv /\ [DirectoryNext]_directoryVars => JournalInv'
    BY Zenon, DirectoryStepKeeps
  <1> QED
    BY DirectoryStarts, <1>1, PTL DEF DirectorySpec

(* Once two commits were acknowledged, one damaged file never leaves the   *)
(* namespace without a valid generation, wherever a process died and       *)
(* whatever a power failure undid (commit_state, prune_generations and     *)
(* recover of the directory backend).                                      *)
THEOREM OneFileCanAlwaysBeLost == DirectorySpec => []OneFileCanBeLost
  <1>1. JournalInv => OneFileCanBeLost
    <2> SUFFICES ASSUME JournalInv, commits = 2, corruptions <= 1
                 PROVE  ValidFiles # {}
      BY Zenon DEF OneFileCanBeLost
    <2>1. files \in Possible
      BY Zenon, FilesAreDirectory
    <2>2. corruptions \in Nat
      BY Zenon DEF JournalInv, JournalTypes
    <2>3. corruptions = 0 \/ corruptions = 1
      BY <2>2
    <2>4. OneValid(files)
      BY Zenon, <2>1, <2>3 DEF JournalInv, PossibleInv, OneValid, TwoValid
    <2> QED
      BY Zenon, <2>4, JournalAssumption DEF OneValid, ValidFiles, StateFiles
  <1> QED
    BY JournalInvHolds, <1>1, PTL

(* compare_exchange and apply_batch change only the very state the         *)
(* caller's revision named, for any number of clients, crashes and power   *)
(* failures, as long as no file was damaged.                               *)
THEOREM TokensAlwaysNameState == DirectorySpec => []TokenNamesState
  <1>1. JournalInv => TokenNamesState
    BY Zenon DEF JournalInv, TokenInv, TokenNamesState
  <1> QED
    BY JournalInvHolds, <1>1, PTL
-----------------------------------------------------------------------------
(* No directory a power failure may leave is newer than the one that is    *)
(* seen, or older than what was acknowledged; and while a commit prunes,   *)
(* its state is on every one of them.                                      *)
LogInv ==
    /\ acked \in Nat
    /\ corruptions = 0 =>
          /\ \A d \in Possible :
                /\ LatestOf(d).revision <= Latest.revision
                /\ acked <= LatestOf(d).revision
          /\ job.step = "prune" /\ job.who # "recover" =>
                \A d \in Possible : LatestOf(d) = Latest

LEMMA LogIsPossible == VisibleLog = {LatestOf(d) : d \in Possible}
  BY Zenon DEF VisibleLog, Possible

LEMMA LogIsPossibleNext == VisibleLog' = {LatestOf(d) : d \in Possible'}
  BY Zenon DEF VisibleLog, Possible, LatestOf

(* What a step is for the log: it leaves it, or is a step of the promise.  *)
LogStep ==
    \/ UNCHANGED <<VisibleLog, acked, corruptions>>
    \/ Promised!StoreNext

(* Without damage, every possible directory has a newest state.            *)
LEMMA LatestOnDisk ==
    ASSUME JournalInv, corruptions = 0, NEW d \in Possible
    PROVE  LatestOf(d) \in State /\ LatestOf(d).revision \in 0 .. MaxGeneration
  BY Zenon, LatestIsState DEF JournalInv, PossibleInv

LEMMA LatestSeen ==
    ASSUME JournalInv, corruptions = 0
    PROVE  /\ Latest \in State /\ Latest.revision \in 0 .. MaxGeneration
           /\ files \in Possible
  BY Zenon, LatestOnDisk, FilesAreDirectory DEF Latest

(* A step that leaves the directory, the acknowledged revision and every   *)
(* commit's pruning alone.                                                 *)
LEMMA QuietKeepsLog ==
    ASSUME JournalInv, LogInv, UNCHANGED <<files, unflushed, acked, corruptions>>,
           job'.step = "prune" /\ job'.who # "recover" =>
              job.step = "prune" /\ job.who # "recover"
    PROVE  LogInv' /\ LogStep
  <1>1. Possible' = Possible /\ Latest' = Latest
    BY Zenon, PossibleStays, SeenStays
  <1>2. VisibleLog' = VisibleLog
    BY Zenon, <1>1, LogIsPossible, LogIsPossibleNext
  <1>3. LogInv'
    BY Zenon, <1>1 DEF LogInv
  <1> QED
    BY Zenon, <1>2, <1>3 DEF LogStep

(* fs::rename writes to the log.                                           *)
LEMMA RenameWrites ==
    ASSUME JournalInv, LogInv, RenameState, corruptions = 0
    PROVE  LogInv' /\ LogStep
  <1> DEFINE g == job.state.revision
  <1>1. /\ files' = [files EXCEPT ![g] = job.state]
        /\ unflushed' = Append(unflushed, Change(g))
        /\ job' = [job EXCEPT !.step = "sync"]
        /\ UNCHANGED <<acked, corruptions>>
    BY Zenon DEF RenameState
  <1>2. /\ g \in Generations /\ Latest' = job.state
        /\ Latest.revision \in 0 .. MaxGeneration /\ Latest.revision < g
    BY Zenon, RenameKeeps
  <1>3. /\ files \in [Generations -> Content] /\ unflushed \in Seq(Changes)
        /\ job \in Jobs
    BY Zenon DEF JournalInv, JournalTypes
  <1>4. job.state \in State /\ job.state \in Content /\ job'.step # "prune"
    BY <1>1, <1>3 DEF Jobs, Content
  <1>5. Possible' = Possible \cup {files'}
    BY Zenon, <1>1, <1>2, <1>3, <1>4, ChangeAddsOne
  <1>6. LatestOf(files') = job.state
    BY Zenon, <1>2 DEF Latest, LatestOf
  <1>7. job.state.revision = g
    BY Zenon
  <1> HIDE DEF g
  <1>8. VisibleLog' = VisibleLog \cup {job.state}
    BY Zenon, <1>5, <1>6, LogIsPossible, LogIsPossibleNext
  <1>9. ASSUME NEW d \in Possible
        PROVE  LatestOf(d).revision < g /\ LatestOf(d).revision <= g
    <2>1. LatestOf(d).revision \in 0 .. MaxGeneration
             /\ LatestOf(d).revision <= Latest.revision
      BY Zenon, LatestOnDisk DEF LogInv
    <2> QED
      BY <1>2, <2>1 DEF Generations
  <1>10. g <= g /\ acked <= g
    <2>1. acked <= Latest.revision /\ acked \in Nat
      BY Zenon, LatestSeen DEF LogInv, Latest
    <2> QED
      BY <1>2, <2>1 DEF Generations
  <1>11. LogInv'
    <2>1. ASSUME NEW d \in Possible'
          PROVE  LatestOf(d).revision <= g /\ acked <= LatestOf(d).revision
      BY Zenon, <1>5, <1>6, <1>7, <1>9, <1>10 DEF LogInv
    <2> QED
      BY Zenon, <1>1, <1>2, <1>4, <1>7, <2>1 DEF LogInv
  <1>12. Promised!Write
    <2>1. \A other \in VisibleLog : other.revision < job.state.revision
      BY Zenon, <1>7, <1>9, LogIsPossible
    <2> QED
      BY Zenon, <1>1, <1>4, <1>8, <2>1 DEF Promised!Write
  <1> QED
    BY Zenon, <1>11, <1>12 DEF LogStep, Promised!StoreNext

(* prune_generations leaves the log.                                       *)
LEMMA PruneLeavesLog ==
    ASSUME JournalInv, LogInv, PruneOldest, corruptions = 0
    PROVE  LogInv' /\ LogStep
  <1> DEFINE o == Min(StateFiles)
  <1>1. /\ files' = [files EXCEPT ![o] = NoFile]
        /\ unflushed' = Append(unflushed, Change(o))
        /\ UNCHANGED <<job, acked, corruptions>>
    BY Zenon DEF PruneOldest
  <1>2. o \in Generations /\ Latest' = Latest
    BY Zenon, PruneKeeps
  <1>3. /\ files \in [Generations -> Content] /\ unflushed \in Seq(Changes)
        /\ NoFile \in Content
    BY Zenon DEF JournalInv, JournalTypes, Content
  <1> HIDE DEF o
  <1>4. Possible' = Possible \cup {files'}
    BY Zenon, <1>1, <1>2, <1>3, ChangeAddsOne
  <1>5. LatestOf(files') = Latest /\ LatestOf(files) = Latest /\ files \in Possible
    BY Zenon, <1>2, LatestSeen DEF Latest, LatestOf
  <1>6. \A d \in Possible' : \E e \in Possible : LatestOf(d) = LatestOf(e)
    BY Zenon, <1>4, <1>5
  <1>7. VisibleLog' = VisibleLog
    BY Zenon, <1>4, <1>6, LogIsPossible, LogIsPossibleNext
  <1>8. LogInv'
    BY Zenon, <1>1, <1>2, <1>6 DEF LogInv
  <1> QED
    BY Zenon, <1>1, <1>7, <1>8 DEF LogStep

(* A flush makes the visible state durable.                                *)
LEMMA FlushPersists ==
    ASSUME JournalInv, LogInv, corruptions = 0,
           unflushed' = <<>>, UNCHANGED <<files, corruptions>>
    PROVE  /\ Possible' = {files'} /\ LatestOf(files') = Latest /\ Latest' = Latest
           /\ VisibleLog' = {Latest}
           /\ UNCHANGED acked => Promised!Persist
  <1>1. files \in [Generations -> Content]
    BY Zenon DEF JournalInv, JournalTypes
  <1>2. Possible' = {files'}
    BY Zenon, <1>1, FlushLeavesOne
  <1>3. Latest' = Latest /\ LatestOf(files') = Latest
    BY Zenon, SeenStays DEF Latest
  <1>4. VisibleLog' = {Latest}
    BY Zenon, <1>2, <1>3, LogIsPossibleNext
  <1>5. Latest \in VisibleLog
    BY Zenon, LatestSeen, LogIsPossible DEF Latest
  <1>6. \A other \in VisibleLog : other.revision <= Latest.revision
    BY Zenon, LogIsPossible DEF LogInv
  <1>7. UNCHANGED acked => Promised!Persist
    BY Zenon, <1>4, <1>5, <1>6 DEF Promised!Persist
  <1> QED
    BY Zenon, <1>2, <1>3, <1>4, <1>7

LEMMA SyncPersists ==
    ASSUME JournalInv, LogInv, SyncDirectory, corruptions = 0
    PROVE  LogInv' /\ LogStep
  <1>1. unflushed' = <<>> /\ UNCHANGED <<files, corruptions, acked>>
    BY Zenon DEF SyncDirectory
  <1>2. /\ Possible' = {files'} /\ LatestOf(files') = Latest /\ Latest' = Latest
        /\ Promised!Persist
    BY Zenon, <1>1, FlushPersists
  <1>3. Latest.revision <= Latest.revision /\ acked <= Latest.revision
    <2>1. Latest.revision \in 0 .. MaxGeneration /\ acked <= Latest.revision
      BY Zenon, LatestSeen DEF LogInv, Latest
    <2> QED
      BY <2>1
  <1>4. LogInv'
    BY Zenon, <1>1, <1>2, <1>3 DEF LogInv
  <1> QED
    BY Zenon, <1>2, <1>4 DEF LogStep, Promised!StoreNext

(* The end of a commit promises the state that is durable.                 *)
LEMMA FinishPromises ==
    ASSUME JournalInv, LogInv, FinishCommit, corruptions = 0
    PROVE  LogInv' /\ LogStep
  <1>1. /\ job.step = "prune" /\ unflushed' = <<>> /\ job' = Idle
        /\ UNCHANGED <<files, corruptions>>
    BY Zenon DEF FinishCommit
  <1>2. /\ Possible' = {files'} /\ LatestOf(files') = Latest /\ Latest' = Latest
        /\ VisibleLog' = {Latest}
        /\ UNCHANGED acked => Promised!Persist
    BY Zenon, <1>1, FlushPersists
  <1>3. job'.step # "prune"
    BY <1>1 DEF Idle
  <1>4. /\ Latest.revision \in 0 .. MaxGeneration /\ acked <= Latest.revision
        /\ files \in Possible /\ Latest.revision \in Nat
    <2>1. /\ Latest.revision \in 0 .. MaxGeneration /\ acked <= Latest.revision
          /\ files \in Possible
      BY Zenon, LatestSeen DEF LogInv, Latest
    <2> QED
      BY <2>1
  <1>5. Latest.revision <= Latest.revision
    BY <1>4
  <1>6. CASE job.who = "recover"
    <2>1. UNCHANGED acked
      BY Zenon, <1>6 DEF FinishCommit
    <2>2. LogInv'
      BY Zenon, <1>1, <1>2, <1>3, <1>4, <1>5, <2>1 DEF LogInv
    <2> QED
      BY Zenon, <1>2, <2>1, <2>2 DEF LogStep, Promised!StoreNext
  <1>7. CASE job.who # "recover"
    <2> DEFINE r == job.state.revision
    <2>1. acked' = r
      BY Zenon, <1>7 DEF FinishCommit
    <2>2. r \in Generations /\ files[r] \in State /\ UpTo(files, r)
      BY Zenon, <1>1, <1>7 DEF JournalInv, JobInv
    <2> HIDE DEF r
    <2>3. files \in Directories /\ files \in [Generations -> Content]
      BY Zenon, FilesAreDirectory DEF Directories
    <2>4. Latest = files[r] /\ files[r].revision = r
      BY Zenon, <2>2, <2>3, JournalAssumption, LatestIsNewest DEF Latest, Directories
    <2>5. LogInv'
      BY Zenon, <1>1, <1>2, <1>3, <1>4, <1>5, <2>1, <2>4 DEF LogInv
    <2>6. VisibleLog = {Latest}
      BY Zenon, <1>1, <1>4, <1>7, LogIsPossible DEF LogInv
    <2>7. Promised!Promise
      BY Zenon, <1>2, <2>1, <2>4, <2>6 DEF Promised!Promise
    <2> QED
      BY Zenon, <2>5, <2>7 DEF LogStep, Promised!StoreNext
  <1> QED
    BY Zenon, <1>6, <1>7

(* A power failure keeps one state of the log.                             *)
LEMMA PowerLossKeepsOne ==
    ASSUME JournalInv, LogInv, DirectoryPowerLoss, corruptions = 0
    PROVE  LogInv' /\ LogStep
  <1>1. /\ files' \in Possible /\ unflushed' = <<>> /\ job' = Idle
        /\ UNCHANGED <<acked, corruptions>>
    BY Zenon DEF DirectoryPowerLoss, Possible
  <1>2. files' \in [Generations -> Content]
    BY Zenon, <1>1 DEF JournalInv, PossibleInv, Directories
  <1>3. Possible' = {files'}
    BY Zenon, <1>1, <1>2, FlushLeavesOne
  <1>4. VisibleLog' = {LatestOf(files')} /\ LatestOf(files') \in VisibleLog
    BY Zenon, <1>1, <1>3, LogIsPossible, LogIsPossibleNext
  <1>5. Promised!PowerFailure
    BY Zenon, <1>1, <1>4 DEF Promised!PowerFailure
  <1>6. job'.step # "prune"
    BY <1>1 DEF Idle
  <1>7. Latest' = LatestOf(files')
    BY Zenon DEF Latest, LatestOf
  <1>8. acked <= LatestOf(files').revision
           /\ LatestOf(files').revision <= LatestOf(files').revision
    <2>1. LatestOf(files').revision \in 0 .. MaxGeneration
             /\ acked <= LatestOf(files').revision
      BY Zenon, <1>1, LatestOnDisk DEF LogInv
    <2> QED
      BY <2>1
  <1>9. LogInv'
    BY Zenon, <1>1, <1>3, <1>6, <1>7, <1>8 DEF LogInv
  <1> QED
    BY Zenon, <1>5, <1>9 DEF LogStep, Promised!StoreNext

(* A client's call leaves the directory, and starts no pruning.            *)
LEMMA ClientIsQuiet ==
    ASSUME ClientNext
    PROVE  /\ UNCHANGED <<files, unflushed, acked, corruptions>>
           /\ job' = job \/ job'.step # "prune"
  <1>1. UNCHANGED <<files, unflushed, acked, corruptions>>
    BY Zenon DEF ClientNext, Prepare, Put, Delete, ReadRevision, CompareExchange,
       ApplyBatch, Restore, Recover, Open
  <1>2. ASSUME NEW state, NEW who, StartCommit(state, who) PROVE job'.step # "prune"
    BY <1>2 DEF StartCommit
  <1>3. ASSUME NEW write, Conclude(write) PROVE job' = job \/ job'.step # "prune"
    BY Zenon, <1>2, <1>3 DEF Conclude
  <1>4. ASSUME NEW c, NEW mutations, Transact(c, mutations)
        PROVE  job' = job \/ job'.step # "prune"
    BY Zenon, <1>3, <1>4 DEF Transact
  <1>5. ASSUME Recover PROVE job'.step # "prune"
    BY <1>5 DEF Recover, Idle
  <1>6. job' = job \/ job'.step # "prune"
    BY Zenon, <1>2, <1>3, <1>4, <1>5 DEF ClientNext, Prepare, Put, Delete,
       ReadRevision, CompareExchange, ApplyBatch, Restore, CommitRestored
  <1> QED
    BY Zenon, <1>1, <1>6

LEMMA QuietJobLeavesLog ==
    ASSUME JournalInv, LogInv, WriteTemporary \/ CleanupRecovered \/ Abandon
    PROVE  LogInv' /\ LogStep
  <1>1. UNCHANGED <<files, unflushed, acked, corruptions>>
    BY Zenon DEF WriteTemporary, CleanupRecovered, Abandon
  <1>2. job \in Jobs
    BY Zenon DEF JournalInv, JournalTypes
  <1>3. CASE WriteTemporary \/ Abandon
    <2>1. job'.step # "prune"
      BY <1>2, <1>3 DEF WriteTemporary, Abandon, Idle, Jobs
    <2> QED
      BY Zenon, <1>1, <2>1, QuietKeepsLog
  <1>4. CASE CleanupRecovered
    <2>1. job.step = "quarantine" /\ job' = [job EXCEPT !.step = "prune"]
      BY Zenon, <1>4 DEF CleanupRecovered
    <2>2. job.who = "recover"
      BY Zenon, <2>1 DEF JournalInv, JobInv
    <2>3. job'.who = "recover"
      BY <1>2, <2>1, <2>2 DEF Jobs
    <2> QED
      BY Zenon, <1>1, <2>3, QuietKeepsLog
  <1> QED
    BY Zenon, <1>3, <1>4

(* Without damage recover finds nothing to put aside.                      *)
LEMMA NothingToQuarantine ==
    ASSUME JournalInv, corruptions = 0, NEW g \in Generations
    PROVE  ~ QuarantineFile(g)
  <1>1. files[g] # Corrupt
    BY Zenon, FilesAreDirectory DEF JournalInv, PossibleInv, Undamaged
  <1> QED
    BY Zenon, <1>1 DEF QuarantineFile

(* Once a file is damaged, nothing is promised.                            *)
LEMMA DamagedKeepsLog ==
    ASSUME JournalInv, LogInv, corruptions # 0,
           UNCHANGED <<files, unflushed, acked, corruptions>>
              \/ JobNext \/ DirectoryPowerLoss
    PROVE  LogInv' /\ corruptions' > 0
  <1>1. corruptions' = corruptions
    BY Zenon DEF JobNext, WriteTemporary, RenameState, SyncDirectory, PruneOldest,
       FinishCommit, QuarantineFile, CleanupRecovered, DirectoryPowerLoss
  <1>2. corruptions \in Nat
    BY Zenon DEF JournalInv, JournalTypes
  <1>3. corruptions' > 0
    BY <1>1, <1>2
  <1>4. acked' \in Nat
    <2>1. CASE acked' = acked
      BY Zenon, <2>1 DEF LogInv
    <2>2. CASE FinishCommit /\ acked' = job.state.revision
      <3>1. job \in Jobs
        BY Zenon DEF JournalInv, JournalTypes
      <3> QED
        BY <2>2, <3>1 DEF Jobs, State
    <2> QED
      BY Zenon, <2>1, <2>2 DEF JobNext, WriteTemporary, RenameState, SyncDirectory,
         PruneOldest, FinishCommit, QuarantineFile, CleanupRecovered, DirectoryPowerLoss
  <1> QED
    BY Zenon, <1>1, <1>3, <1>4 DEF LogInv

LEMMA DamageKeepsLog ==
    ASSUME JournalInv, LogInv, NEW g \in Generations, DamageFile(g)
    PROVE  LogInv' /\ corruptions' > 0
  <1>1. corruptions' = corruptions + 1 /\ acked' = acked
    BY Zenon DEF DamageFile
  <1>2. corruptions \in Nat
    BY Zenon DEF JournalInv, JournalTypes
  <1>3. corruptions' > 0 /\ corruptions' # 0
    BY <1>1, <1>2
  <1> QED
    BY Zenon, <1>1, <1>3 DEF LogInv

(* Every effect of the journal is one of the log.                          *)
LEMMA JobStepOfLog ==
    ASSUME JournalInv, LogInv, JobNext \/ Abandon \/ DirectoryPowerLoss
    PROVE  LogInv' /\ (corruptions' > 0 \/ LogStep)
  <1>1. CASE corruptions = 0
    BY Zenon, <1>1, QuietJobLeavesLog, RenameWrites, SyncPersists, PruneLeavesLog,
       FinishPromises, NothingToQuarantine, PowerLossKeepsOne DEF JobNext
  <1>2. CASE corruptions # 0
    BY Zenon, <1>2, DamagedKeepsLog DEF Abandon
  <1> QED
    BY Zenon, <1>1, <1>2

LEMMA DirectoryStepOfLog ==
    ASSUME JournalInv, LogInv, [DirectoryNext]_directoryVars
    PROVE  LogInv' /\ (corruptions' > 0 \/ LogStep)
  <1>1. CASE ClientNext
    BY Zenon, <1>1, ClientIsQuiet, QuietKeepsLog
  <1>2. CASE JobNext \/ Abandon \/ DirectoryPowerLoss
    BY Zenon, <1>2, JobStepOfLog
  <1>3. CASE \E g \in Generations : DamageFile(g)
    BY Zenon, <1>3, DamageKeepsLog
  <1>4. CASE UNCHANGED directoryVars
    <2>1. UNCHANGED <<files, unflushed, acked, corruptions, job>>
      BY Zenon, <1>4 DEF directoryVars
    <2> QED
      BY Zenon, <2>1, QuietKeepsLog
  <1> QED
    BY Zenon, <1>1, <1>2, <1>3, <1>4 DEF DirectoryNext

LEMMA DirectoryStartsLog ==
    ASSUME DirectoryInit PROVE LogInv /\ Promised!StoreInit
  <1>1. JournalInv
    BY Zenon, DirectoryStarts
  <1>2. /\ files = [g \in Generations |-> NoFile] /\ unflushed = <<>>
        /\ acked = 0 /\ job = Idle
    BY Zenon DEF DirectoryInit
  <1>3. Possible = {files}
    <2>1. Len(unflushed) = 0
      BY <1>2
    <2>2. \A n : n \in 0 .. Len(unflushed) <=> n = 0
      BY <2>1
    <2>3. files \in [Generations -> Content] /\ unflushed \in Seq(Changes)
      BY Zenon, <1>1 DEF JournalInv, JournalTypes
    <2>4. Undo(files, unflushed, 0) = files
      BY Zenon, <2>1, <2>3, UndoNothing
    <2> QED
      BY Zenon, <2>2, <2>4, PossibleIsUndone
  <1>4. LatestOf(files) = DefaultState /\ Latest = DefaultState
    <2>1. \A g \in Generations : files[g] = NoFile
      BY Zenon, <1>2
    <2> QED
      BY Zenon, <2>1 DEF Latest, LatestOf, StateFiles
  <1>5. DefaultState.revision = 0 /\ job.step # "prune" /\ 0 <= 0 /\ 0 \in Nat
    BY <1>2 DEF DefaultState, Idle
  <1>6. LogInv
    BY Zenon, <1>2, <1>3, <1>4, <1>5 DEF LogInv
  <1>7. VisibleLog = {DefaultState}
    BY Zenon, <1>3, <1>4, LogIsPossible
  <1> QED
    BY Zenon, <1>2, <1>5, <1>6, <1>7, DefaultIsState DEF Promised!StoreInit

(* A step that leaves the log or makes a step of it is one the             *)
(* documentation allows.                                                   *)
LEMMA LogStepIsAllowed ==
    ASSUME corruptions' > 0 \/ LogStep
    PROVE  [corruptions' > 0 \/ Promised!StoreNext]_<<VisibleLog, acked, corruptions>>
  BY Zenon DEF LogStep

LEMMA LogInvHolds == DirectorySpec => [](JournalInv /\ LogInv)
  <1>1. DirectoryInit => JournalInv /\ LogInv
    BY Zenon, DirectoryStarts, DirectoryStartsLog
  <1>2. JournalInv /\ LogInv /\ [DirectoryNext]_directoryVars => (JournalInv /\ LogInv)'
    BY Zenon, DirectoryStepKeeps, DirectoryStepOfLog
  <1> QED
    BY <1>1, <1>2, PTL DEF DirectorySpec

(* The journal implements the log of states: as long as no file is         *)
(* damaged, every step of the directory backend writes a newer state to    *)
(* it, makes its newest state durable, promises the durable one, keeps one *)
(* of its states in a power failure, or leaves it alone (commit_state,     *)
(* sync_directory, prune_generations, recover).                            *)
THEOREM JournalImplementsStore == DirectorySpec => ImplementsRevisionedStore
  <1>1. DirectoryInit => Promised!StoreInit
    BY Zenon, DirectoryStartsLog
  <1>2. JournalInv /\ LogInv /\ [DirectoryNext]_directoryVars
          => [corruptions' > 0 \/ Promised!StoreNext]_<<VisibleLog, acked, corruptions>>
    BY Zenon, DirectoryStepOfLog, LogStepIsAllowed
  <1> QED
    BY <1>1, <1>2, LogInvHolds, PTL DEF DirectorySpec, ImplementsRevisionedStore

(* Whatever directory a power failure leaves, its newest state is not      *)
(* older than the last commit a client was told is stored, as long as no   *)
(* file is damaged (commit_state returns after sync_directory).            *)
THEOREM AcknowledgedCommitsSurvive ==
    DirectorySpec => [](corruptions = 0 => Promised!PromiseKept)
  <1>1. JournalInv /\ LogInv => (corruptions = 0 => Promised!PromiseKept)
    BY Zenon, LogIsPossible DEF LogInv, Promised!PromiseKept
  <1> QED
    BY <1>1, LogInvHolds, PTL

-----------------------------------------------------------------------------
(* The migration worker                                                    *)

MigrationSteps == {"idle", "captured", "saved", "migrated", "intended", "committing"}

MigrationTypes ==
    /\ migrator \in [step: MigrationSteps, source: State, result: State]
    /\ receipt \in [written: BOOLEAN, source: State, target: State]

(* What the worker knows at each step, and what its commit replaces.       *)
WorkerInv ==
    /\ migrator.step \in {"saved", "migrated", "intended", "committing"} =>
          rollback = migrator.source
    /\ migrator.step \in {"intended", "committing"} =>
          /\ receipt.written
          /\ receipt.target = TargetState(migrator.source, migrator.result)
    /\ job.who = "migration" =>
          /\ migrator.step = "committing"
          /\ job.step # "none"
          /\ job.state = receipt.target
          /\ job.step \in {"write", "rename"} => Latest = migrator.source
    /\ receipt.written =>
          /\ receipt.target.revision \in Generations
          /\ receipt.source.revision < receipt.target.revision

(* A generation that is seen and was changed since the flush was renamed   *)
(* since.                                                                  *)
RenamedInv ==
    \A i \in DOMAIN unflushed :
        files[unflushed[i].generation] # NoFile =>
            \E j \in DOMAIN unflushed :
                /\ unflushed[j].generation = unflushed[i].generation
                /\ unflushed[j].old = NoFile

(* The target is there, or was there and later ones are.                   *)
Reached(d, target) ==
    /\ d[target.revision] \in {target, NoFile}
    /\ target.revision <= LatestOf(d).revision

LandedInv ==
    receipt.written /\ corruptions = 0 =>
        /\ files[receipt.target.revision] = receipt.target => landed
        /\ landed => Reached(files, receipt.target)
        /\ landed /\ ~TargetUnflushed => \A d \in Possible : Reached(d, receipt.target)

MigrationInv == MigrationTypes /\ WorkerInv /\ RenamedInv /\ LandedInv
-----------------------------------------------------------------------------
LEMMA TargetFollows ==
    ASSUME NEW source \in State, NEW result \in State,
           Max({source.revision, result.revision}) < MaxGeneration
    PROVE  /\ TargetState(source, result) \in State
           /\ TargetState(source, result).revision \in Generations
           /\ source.revision < TargetState(source, result).revision
  <1>1. source.revision \in 0 .. MaxGeneration /\ result.revision \in 0 .. MaxGeneration
    BY Zenon DEF State
  <1> DEFINE number == Max({source.revision, result.revision})
  <1>2. number \in 0 .. MaxGeneration /\ source.revision <= number
    BY Zenon, <1>1, MaxOfTwo
  <1>3. TargetState(source, result) = [result EXCEPT !.revision = number + 1]
    BY Zenon DEF TargetState
  <1>4. number < MaxGeneration
    BY Zenon
  <1> HIDE DEF number
  <1>5. number + 1 \in Generations /\ number + 1 \in 0 .. MaxGeneration
           /\ source.revision < number + 1
    BY <1>1, <1>2, <1>4, JournalAssumption DEF Generations
  <1> QED
    BY Zenon, <1>3, <1>5 DEF State

(* The directory is left to the rules of DirectoryStorage.                 *)
LEMMA MigrationKeepsJournalStep ==
    ASSUME JournalInv, MigrationTypes, [StorageNext]_storageVars PROVE JournalInv'
  <1>1. CASE DirectoryNext \/ UNCHANGED directoryVars
    BY Zenon, <1>1, DirectoryStepKeeps
  <1>2. CASE RestoreIfUnchanged
    <2>1. /\ Open /\ Readable /\ UNCHANGED matched
          /\ \/ CommitRestored(Latest, migrator.result, "migration")
             \/ job' = job
      BY Zenon, <1>2 DEF RestoreIfUnchanged, Open
    <2>2. migrator.result \in State
      BY Zenon DEF MigrationTypes
    <2>3. job' = job \/ Committing
      BY Zenon, <2>1, <2>2, RestoredFollows
    <2> QED
      BY Zenon, <2>1, <2>3, OpenKeeps, MatchedStays
  <1>3. CASE MigrationNext /\ ~RestoreIfUnchanged
    <2>1. UNCHANGED directoryVars \/ Abandon
      BY Zenon, <1>3 DEF MigrationNext, MigrateCapture, WriteRollback, MigrateBranch,
                         WriteReceipt, WorkerDies
    <2> QED
      BY Zenon, <1>1, <2>1 DEF DirectoryNext
  <1>4. CASE StorageJobNext \/ ClientAbandons \/ StoragePowerLoss
    BY Zenon, <1>1, <1>4 DEF StorageJobNext, ClientAbandons, StoragePowerLoss, DirectoryNext
  <1>5. CASE ClientNext \/ \E g \in Generations : DamageFile(g)
    BY Zenon, <1>1, <1>5 DEF DirectoryNext
  <1>6. CASE UNCHANGED storageVars
    BY Zenon, <1>1, <1>6 DEF storageVars
  <1> QED
    BY Zenon, <1>2, <1>3, <1>4, <1>5, <1>6 DEF StorageNext

-----------------------------------------------------------------------------
LEMMA NoWorkerTypes ==
    /\ NoWorker \in [step: MigrationSteps, source: State, result: State]
    /\ NoWorker.step = "idle"
  BY Zenon, DefaultIsState DEF NoWorker, MigrationSteps

(* A step of somebody else leaves the worker's knowledge.                  *)
LEMMA OthersKeepWorker ==
    ASSUME MigrationTypes, WorkerInv, UNCHANGED <<migrator, rollback, receipt>>,
           job'.who # "migration"
    PROVE  MigrationTypes' /\ WorkerInv'
  BY Zenon DEF MigrationTypes, WorkerInv

LEMMA WorkerGone ==
    ASSUME MigrationTypes, WorkerInv, migrator' = NoWorker, UNCHANGED <<rollback, receipt>>,
           job'.who # "migration"
    PROVE  MigrationTypes' /\ WorkerInv'
  <1>1. MigrationTypes'
    BY Zenon, NoWorkerTypes DEF MigrationTypes
  <1>2. migrator'.step \notin {"saved", "migrated", "intended", "committing"}
    BY Zenon, NoWorkerTypes
  <1>3. WorkerInv'
    BY Zenon, <1>2 DEF WorkerInv
  <1> QED
    BY Zenon, <1>1, <1>3

LEMMA IdleWho == Idle.who = "none" /\ Idle.step = "none"
  BY Zenon DEF Idle

LEMMA ClientWho ==
    ASSUME JournalInv, WorkerInv, ClientNext
    PROVE  job'.who # "migration"
  <1>1. job.step = "none" /\ job.who # "migration"
    BY Zenon DEF WorkerInv, ClientNext, Prepare, Put, Delete, ReadRevision,
                 CompareExchange, ApplyBatch, Restore, Recover, Open, LockFree
  <1>2. CASE job' = job
    BY Zenon, <1>1, <1>2
  <1>3. ASSUME NEW state, StartCommit(state, "client") PROVE job'.who # "migration"
    BY Zenon, <1>3 DEF StartCommit
  <1>4. CASE Recover
    BY Zenon, <1>4 DEF Recover, Idle
  <1> QED
    BY Zenon, <1>2, <1>3, <1>4
       DEF ClientNext, Prepare, Put, Delete, ReadRevision, CompareExchange,
           ApplyBatch, Restore, Conclude, CommitRestored, Transact

(* restore_if_unchanged starts the commit the receipt announced, over the  *)
(* state the worker captured.                                              *)
LEMMA RestoreIfUnchangedKeeps ==
    ASSUME JournalInv, MigrationTypes, WorkerInv, RestoreIfUnchanged
    PROVE  MigrationTypes' /\ WorkerInv'
  <1>1. /\ migrator.step = "intended" /\ Open
        /\ UNCHANGED <<files, rollback, receipt>> /\ job.step = "none"
    BY Zenon DEF RestoreIfUnchanged, Open, LockFree
  <1>2. job.who # "migration"
    BY Zenon, <1>1 DEF WorkerInv
  <1>3. CASE job' = job /\ migrator' = NoWorker
    BY Zenon, <1>1, <1>2, <1>3, WorkerGone
  <1>4. CASE /\ Latest = migrator.source
             /\ CommitRestored(Latest, migrator.result, "migration")
             /\ migrator' = [migrator EXCEPT !.step = "committing"]
    <2>1. /\ migrator' \in [step: MigrationSteps, source: State, result: State]
          /\ migrator'.step = "committing"
          /\ migrator'.source = migrator.source /\ migrator'.result = migrator.result
      BY Zenon, <1>4 DEF MigrationTypes, MigrationSteps
    <2>2. MigrationTypes'
      BY Zenon, <1>1, <2>1 DEF MigrationTypes
    <2>3. /\ rollback = migrator.source /\ receipt.written
          /\ receipt.target = TargetState(migrator.source, migrator.result)
      BY Zenon, <1>1 DEF WorkerInv
    <2>4. Latest' = Latest
      BY Zenon, <1>1, SeenStays
    <2>5. CASE job' = job
      BY Zenon, <1>1, <1>2, <2>1, <2>2, <2>3, <2>5 DEF WorkerInv
    <2>6. CASE job' # job
      <3> DEFINE number == Max({Latest.revision, migrator.result.revision})
      <3>1. job' = [step |-> "write", who |-> "migration",
                    state |-> [[migrator.result EXCEPT !.revision = number]
                                 EXCEPT !.revision = @ + 1]]
        BY Zenon, <1>4, <2>6 DEF CommitRestored, StartCommit
      <3> HIDE DEF number
      <3>2. [[migrator.result EXCEPT !.revision = number] EXCEPT !.revision = @ + 1]
               = [migrator.result EXCEPT !.revision = number + 1]
        <4>1. migrator.result \in State
          BY Zenon DEF MigrationTypes
        <4> QED
          BY Zenon, <4>1 DEF State
      <3>3. receipt.target = [migrator.result EXCEPT !.revision = number + 1]
        BY Zenon, <1>4, <2>3 DEF TargetState, number
      <3>4. job'.step = "write" /\ job'.state = receipt.target
        BY Zenon, <3>1, <3>2, <3>3
      <3>5. job'.step # "none"
        BY Zenon, <3>4
      <3> QED
        BY Zenon, <1>1, <1>4, <2>1, <2>2, <2>3, <2>4, <3>4, <3>5 DEF WorkerInv
    <2> QED
      BY Zenon, <2>5, <2>6
  <1> QED
    BY Zenon, <1>3, <1>4 DEF RestoreIfUnchanged, Unchanged

(* The other steps of the worker.                                          *)
LEMMA WorkerKeeps ==
    ASSUME JournalInv, MigrationTypes, WorkerInv, MigrationNext
    PROVE  MigrationTypes' /\ WorkerInv'
  <1>1. CASE MigrateCapture
    <2>1. /\ migrator.step = "idle" /\ Readable
          /\ migrator' = [NoWorker EXCEPT !.step = "captured", !.source = Latest]
          /\ UNCHANGED <<job, files, rollback, receipt>>
      BY Zenon, <1>1 DEF MigrateCapture, directoryVars
    <2>2. Latest \in State
      BY Zenon, <2>1, ReadableJournal
    <2>3. /\ migrator' \in [step: MigrationSteps, source: State, result: State]
          /\ migrator'.step = "captured"
      BY Zenon, <2>1, <2>2, DefaultIsState DEF NoWorker, MigrationSteps
    <2>4. MigrationTypes'
      BY Zenon, <2>1, <2>3 DEF MigrationTypes
    <2>5. migrator'.step \notin {"saved", "migrated", "intended", "committing"}
             /\ job.who # "migration"
      BY Zenon, <2>1, <2>3 DEF WorkerInv
    <2> QED
      BY Zenon, <2>1, <2>4, <2>5 DEF WorkerInv
  <1>2. CASE WriteRollback
    <2>1. /\ migrator.step = "captured"
          /\ rollback' = migrator.source
          /\ migrator' = [migrator EXCEPT !.step = "saved"]
          /\ UNCHANGED <<job, files, receipt>>
      BY Zenon, <1>2 DEF WriteRollback, directoryVars
    <2>2. /\ migrator' \in [step: MigrationSteps, source: State, result: State]
          /\ migrator'.step = "saved" /\ migrator'.source = migrator.source
      BY Zenon, <2>1 DEF MigrationTypes, MigrationSteps
    <2>3. MigrationTypes'
      BY Zenon, <2>1, <2>2 DEF MigrationTypes
    <2>4. migrator'.step \notin {"intended", "committing"} /\ job.who # "migration"
      BY Zenon, <2>1, <2>2 DEF WorkerInv
    <2> QED
      BY Zenon, <2>1, <2>2, <2>3, <2>4 DEF WorkerInv
  <1>3. CASE MigrateBranch
    <2>1. PICK result \in Migrated(migrator.source) :
             migrator' = [migrator EXCEPT !.step = "migrated", !.result = result]
      BY Zenon, <1>3 DEF MigrateBranch
    <2>2. result \in State
      BY Zenon DEF Migrated
    <2>3. migrator.step = "saved" /\ UNCHANGED <<job, files, rollback, receipt>>
      BY Zenon, <1>3 DEF MigrateBranch, directoryVars
    <2>4. /\ migrator' \in [step: MigrationSteps, source: State, result: State]
          /\ migrator'.step = "migrated" /\ migrator'.source = migrator.source
      BY Zenon, <2>1, <2>2 DEF MigrationTypes, MigrationSteps
    <2>5. MigrationTypes'
      BY Zenon, <2>3, <2>4 DEF MigrationTypes
    <2>6. migrator'.step \notin {"intended", "committing"} /\ job.who # "migration"
      BY Zenon, <2>3, <2>4 DEF WorkerInv
    <2> QED
      BY Zenon, <2>3, <2>4, <2>5, <2>6 DEF WorkerInv
  <1>4. CASE WriteReceipt
    <2> DEFINE target == TargetState(migrator.source, migrator.result)
    <2>1. /\ migrator.step = "migrated"
          /\ Max({migrator.source.revision, migrator.result.revision}) < MaxGeneration
          /\ receipt' = [written |-> TRUE, source |-> migrator.source, target |-> target]
          /\ migrator' = [migrator EXCEPT !.step = "intended"]
          /\ UNCHANGED <<job, files, rollback>>
      BY Zenon, <1>4 DEF WriteReceipt, directoryVars
    <2>2. migrator.source \in State /\ migrator.result \in State
      BY Zenon DEF MigrationTypes
    <2>3. /\ target \in State /\ target.revision \in Generations
          /\ migrator.source.revision < target.revision
      BY Zenon, <2>1, <2>2, TargetFollows
    <2>4. /\ migrator' \in [step: MigrationSteps, source: State, result: State]
          /\ migrator'.step = "intended" /\ migrator'.source = migrator.source
          /\ migrator'.result = migrator.result
      BY Zenon, <2>1 DEF MigrationTypes, MigrationSteps
    <2>5. target = TargetState(migrator'.source, migrator'.result)
      BY Zenon, <2>4
    <2> HIDE DEF target
    <2>6. /\ receipt' \in [written: BOOLEAN, source: State, target: State]
          /\ receipt'.written /\ receipt'.target = target
          /\ receipt'.source = migrator.source
      BY Zenon, <2>1, <2>2, <2>3
    <2>7. MigrationTypes'
      BY Zenon, <2>4, <2>6 DEF MigrationTypes
    <2>8. job.who # "migration" /\ rollback = migrator.source
      BY Zenon, <2>1 DEF WorkerInv
    <2> QED
      BY Zenon, <2>1, <2>3, <2>4, <2>5, <2>6, <2>7, <2>8 DEF WorkerInv
  <1>5. CASE RestoreIfUnchanged
    BY Zenon, <1>5, RestoreIfUnchangedKeeps
  <1>6. CASE WorkerDies
    <2>1. /\ migrator' = NoWorker /\ UNCHANGED <<rollback, receipt>>
          /\ IF job.who = "migration" THEN job' = Idle ELSE job' = job
      BY Zenon, <1>6 DEF WorkerDies, Abandon, directoryVars
    <2>2. job'.who # "migration"
      BY Zenon, <2>1, IdleWho
    <2> QED
      BY Zenon, <2>1, <2>2, WorkerGone
  <1> QED
    BY Zenon, <1>1, <1>2, <1>3, <1>4, <1>5, <1>6 DEF MigrationNext

(* The steps of the operation that holds the lock.                         *)
LEMMA JobKeepsWorker ==
    ASSUME JournalInv, MigrationTypes, WorkerInv, StorageJobNext
    PROVE  MigrationTypes' /\ WorkerInv'
  <1>1. /\ JobNext /\ UNCHANGED <<rollback, receipt>>
        /\ migrator' = IF job.who = "migration" /\ job'.step = "none"
                       THEN NoWorker ELSE migrator
    BY Zenon DEF StorageJobNext
  <1>2. job \in Jobs
    BY Zenon DEF JournalInv, JournalTypes
  <1>3. CASE FinishCommit
    <2>1. job' = Idle
      BY Zenon, <1>3 DEF FinishCommit
    <2>2. job'.who # "migration"
      BY Zenon, <2>1, IdleWho
    <2> QED
      BY Zenon, <1>1, <2>2, OthersKeepWorker, WorkerGone
  <1>4. CASE /\ job'.who = job.who /\ job'.state = job.state /\ job'.step # "none"
             /\ job'.step \in {"write", "rename"} =>
                   job.step \in {"write", "rename"} /\ files' = files
    <2>1. migrator' = migrator
      BY Zenon, <1>1, <1>4
    <2>2. MigrationTypes'
      BY Zenon, <1>1, <2>1 DEF MigrationTypes
    <2>3. files' = files => Latest' = Latest
      BY Zenon, SeenStays
    <2> QED
      BY Zenon, <1>1, <1>4, <2>1, <2>2, <2>3 DEF WorkerInv
  <1>5. CASE WriteTemporary
    <2>1. job.step = "write" /\ job' = [job EXCEPT !.step = "rename"] /\ files' = files
      BY Zenon, <1>5 DEF WriteTemporary
    <2> QED
      BY Zenon, <1>2, <1>4, <2>1 DEF Jobs
  <1>6. CASE RenameState
    <2>1. job' = [job EXCEPT !.step = "sync"]
      BY Zenon, <1>6 DEF RenameState
    <2> QED
      BY Zenon, <1>2, <1>4, <2>1 DEF Jobs
  <1>7. CASE SyncDirectory \/ CleanupRecovered
    <2>1. job' = [job EXCEPT !.step = "prune"]
      BY Zenon, <1>7 DEF SyncDirectory, CleanupRecovered
    <2> QED
      BY Zenon, <1>2, <1>4, <2>1 DEF Jobs
  <1>8. CASE PruneOldest \/ \E g \in Generations : QuarantineFile(g)
    <2>1. job' = job /\ (job.step = "prune" \/ job.step = "quarantine")
      BY Zenon, <1>8 DEF PruneOldest, QuarantineFile
    <2> QED
      BY Zenon, <1>4, <2>1
  <1> QED
    BY Zenon, <1>1, <1>3, <1>5, <1>6, <1>7, <1>8 DEF JobNext

LEMMA WorkerStepKeeps ==
    ASSUME JournalInv, MigrationTypes, WorkerInv, [StorageNext]_storageVars
    PROVE  MigrationTypes' /\ WorkerInv'
  <1>1. CASE UNCHANGED migrationVars /\ ClientNext
    <2>1. UNCHANGED <<migrator, rollback, receipt>>
      BY Zenon, <1>1 DEF migrationVars
    <2> QED
      BY Zenon, <1>1, <2>1, ClientWho, OthersKeepWorker
  <1>2. CASE UNCHANGED migrationVars /\ \E g \in Generations : DamageFile(g)
    <2>1. UNCHANGED <<migrator, rollback, receipt, job>> /\ job.step = "none"
      BY Zenon, <1>2 DEF migrationVars, DamageFile, LockFree
    <2>2. job'.who # "migration"
      BY Zenon, <2>1 DEF WorkerInv
    <2> QED
      BY Zenon, <2>1, <2>2, OthersKeepWorker
  <1>3. CASE MigrationNext
    BY Zenon, <1>3, WorkerKeeps
  <1>4. CASE StorageJobNext
    BY Zenon, <1>4, JobKeepsWorker
  <1>5. CASE ClientAbandons
    <2>1. UNCHANGED <<migrator, rollback, receipt>> /\ job' = Idle
      BY Zenon, <1>5 DEF ClientAbandons, Abandon, migrationVars
    <2>2. job'.who # "migration"
      BY Zenon, <2>1, IdleWho
    <2> QED
      BY Zenon, <2>1, <2>2, OthersKeepWorker
  <1>6. CASE StoragePowerLoss
    <2>1. migrator' = NoWorker /\ UNCHANGED <<rollback, receipt>> /\ job' = Idle
      BY Zenon, <1>6 DEF StoragePowerLoss, DirectoryPowerLoss
    <2>2. job'.who # "migration"
      BY Zenon, <2>1, IdleWho
    <2> QED
      BY Zenon, <2>1, <2>2, WorkerGone
  <1>7. CASE UNCHANGED storageVars
    <2>1. UNCHANGED <<migrator, rollback, receipt, job, files>>
      BY Zenon, <1>7 DEF storageVars, migrationVars, directoryVars
    <2>2. Latest' = Latest
      BY Zenon, <2>1, SeenStays
    <2> QED
      BY Zenon, <2>1, <2>2 DEF MigrationTypes, WorkerInv
  <1> QED
    BY Zenon, <1>1, <1>2, <1>3, <1>4, <1>5, <1>6, <1>7 DEF StorageNext
-----------------------------------------------------------------------------
(* What one more change of the directory adds to the unflushed ones.       *)
LEMMA AppendedChange ==
    ASSUME JournalInv, NEW g \in Generations,
           unflushed' = Append(unflushed, Change(g))
    PROVE  /\ \A i \in DOMAIN unflushed :
                 i \in DOMAIN unflushed' /\ unflushed'[i] = unflushed[i]
           /\ \E i \in DOMAIN unflushed' : unflushed'[i] = Change(g)
           /\ \A i \in DOMAIN unflushed' :
                 i \in DOMAIN unflushed \/ unflushed'[i] = Change(g)
           /\ Change(g).generation = g
           /\ Change(g).old = files[g]
  <1>1. unflushed \in Seq(Changes) /\ files \in [Generations -> Content]
    BY Zenon DEF JournalInv, JournalTypes
  <1>2. Change(g) \in Changes
    BY Zenon, <1>1 DEF Change, Changes
  <1>3. Change(g).generation = g /\ Change(g).old = files[g]
    BY Zenon DEF Change
  <1>4. /\ Len(unflushed) \in Nat /\ DOMAIN unflushed = 1 .. Len(unflushed)
        /\ unflushed' \in Seq(Changes)
        /\ Len(unflushed') = Len(unflushed) + 1
        /\ DOMAIN unflushed' = 1 .. Len(unflushed')
        /\ \A i \in 1 .. Len(unflushed) : unflushed'[i] = unflushed[i]
        /\ unflushed'[Len(unflushed) + 1] = Change(g)
    BY <1>1, <1>2, AppendProperties, LenProperties, SMTT(30)
  <1>5. /\ \A i \in 1 .. Len(unflushed) : i \in 1 .. Len(unflushed')
        /\ Len(unflushed) + 1 \in 1 .. Len(unflushed')
        /\ \A i \in 1 .. Len(unflushed') :
              i \in 1 .. Len(unflushed) \/ i = Len(unflushed) + 1
    BY <1>4
  <1> QED
    BY Zenon, <1>3, <1>4, <1>5

LEMMA ChangeKeepsRenamed ==
    ASSUME JournalInv, RenamedInv, NEW g \in Generations, NEW content,
           files' = [files EXCEPT ![g] = content],
           unflushed' = Append(unflushed, Change(g)),
           content = NoFile \/ files[g] = NoFile
    PROVE  RenamedInv'
  <1>1. files \in [Generations -> Content]
    BY Zenon DEF JournalInv, JournalTypes
  <1>2. unflushed \in [DOMAIN unflushed -> Changes]
    BY Zenon, LenProperties DEF JournalInv, JournalTypes
  <1>3. \A i \in DOMAIN unflushed : unflushed[i].generation \in Generations
    BY Zenon, <1>2 DEF Changes
  <1>4. files'[g] = content /\ \A h \in Generations : h # g => files'[h] = files[h]
    BY Zenon, <1>1
  <1>5. ASSUME NEW i \in DOMAIN unflushed', files'[unflushed'[i].generation] # NoFile
        PROVE  \E j \in DOMAIN unflushed' :
                  /\ unflushed'[j].generation = unflushed'[i].generation
                  /\ unflushed'[j].old = NoFile
    <2>1. CASE unflushed'[i].generation = g
      <3>1. files[g] = NoFile
        BY Zenon, <1>4, <1>5, <2>1
      <3>2. PICK j \in DOMAIN unflushed' : unflushed'[j] = Change(g)
        BY Zenon, AppendedChange
      <3>3. Change(g).generation = g /\ Change(g).old = NoFile
        BY Zenon, <3>1, AppendedChange
      <3> QED
        BY Zenon, <2>1, <3>2, <3>3
    <2>2. CASE unflushed'[i].generation # g
      <3>1. i \in DOMAIN unflushed /\ unflushed'[i] = unflushed[i]
        BY Zenon, <2>2, AppendedChange
      <3>2. files[unflushed[i].generation] # NoFile
        BY Zenon, <1>3, <1>4, <1>5, <2>2, <3>1
      <3>3. PICK j \in DOMAIN unflushed :
               /\ unflushed[j].generation = unflushed[i].generation
               /\ unflushed[j].old = NoFile
        BY Zenon, <3>1, <3>2 DEF RenamedInv
      <3> QED
        BY Zenon, <3>1, <3>3, AppendedChange
    <2> QED
      BY Zenon, <2>1, <2>2
  <1> QED
    BY Zenon, <1>5 DEF RenamedInv

LEMMA NothingUnflushed ==
    ASSUME unflushed' = <<>>
    PROVE  RenamedInv' /\ ~TargetUnflushed'
  <1>1. DOMAIN unflushed' = {}
    OBVIOUS
  <1> QED
    BY Zenon, <1>1 DEF RenamedInv, TargetUnflushed

LEMMA RenamedStepKeeps ==
    ASSUME JournalInv, RenamedInv, [StorageNext]_storageVars PROVE RenamedInv'
  <1>1. CASE UNCHANGED <<files, unflushed>>
    BY Zenon, <1>1 DEF RenamedInv
  <1>2. CASE RenameState
    <2>1. /\ files' = [files EXCEPT ![job.state.revision] = job.state]
          /\ unflushed' = Append(unflushed, Change(job.state.revision))
      BY Zenon, <1>2 DEF RenameState
    <2> QED
      BY Zenon, <1>2, <2>1, RenameKeeps, ChangeKeepsRenamed
  <1>3. CASE PruneOldest
    <2>1. /\ files' = [files EXCEPT ![Min(StateFiles)] = NoFile]
          /\ unflushed' = Append(unflushed, Change(Min(StateFiles)))
      BY Zenon, <1>3 DEF PruneOldest
    <2> QED
      BY Zenon, <1>3, <2>1, PruneKeeps, ChangeKeepsRenamed
  <1>4. ASSUME NEW g \in Generations, QuarantineFile(g) PROVE RenamedInv'
    <2>1. /\ files' = [files EXCEPT ![g] = NoFile]
          /\ unflushed' = Append(unflushed, Change(g))
      BY Zenon, <1>4 DEF QuarantineFile
    <2> QED
      BY Zenon, <2>1, ChangeKeepsRenamed
  <1>5. ASSUME NEW g \in Generations, DamageFile(g) PROVE RenamedInv'
    <2>1. /\ files' = [files EXCEPT ![g] = Corrupt] /\ UNCHANGED unflushed
          /\ files[g] # NoFile
      BY Zenon, <1>5 DEF DamageFile, ValidFiles, StateFiles
    <2>2. files \in [Generations -> Content]
      BY Zenon DEF JournalInv, JournalTypes
    <2>3. unflushed \in [DOMAIN unflushed -> Changes]
      BY Zenon, LenProperties DEF JournalInv, JournalTypes
    <2>4. \A i \in DOMAIN unflushed : unflushed[i].generation \in Generations
      BY Zenon, <2>3 DEF Changes
    <2>5. \A h \in Generations : files'[h] # NoFile => files[h] # NoFile
      BY Zenon, <2>1, <2>2
    <2>6. ASSUME NEW i \in DOMAIN unflushed', files'[unflushed'[i].generation] # NoFile
          PROVE  \E j \in DOMAIN unflushed' :
                    /\ unflushed'[j].generation = unflushed'[i].generation
                    /\ unflushed'[j].old = NoFile
      <3>1. unflushed' = unflushed
        BY Zenon, <2>1
      <3>2. i \in DOMAIN unflushed /\ files[unflushed[i].generation] # NoFile
        BY Zenon, <2>4, <2>5, <2>6, <3>1
      <3>3. \E j \in DOMAIN unflushed :
               /\ unflushed[j].generation = unflushed[i].generation
               /\ unflushed[j].old = NoFile
        BY Zenon, <3>2 DEF RenamedInv
      <3> QED
        BY Zenon, <3>1, <3>3
    <2> QED
      BY Zenon, <2>6 DEF RenamedInv
  <1>6. CASE unflushed' = <<>>
    BY Zenon, <1>6, NothingUnflushed
  <1>7. CASE ClientNext \/ WriteTemporary \/ CleanupRecovered \/ Abandon
    <2>1. UNCHANGED <<files, unflushed>>
      BY Zenon, <1>7
         DEF ClientNext, Prepare, Put, Delete, ReadRevision, CompareExchange, ApplyBatch,
             Restore, Recover, Open, WriteTemporary, CleanupRecovered, Abandon
    <2> QED
      BY Zenon, <1>1, <2>1
  <1>8. CASE SyncDirectory \/ FinishCommit \/ StoragePowerLoss
    BY Zenon, <1>6, <1>8 DEF SyncDirectory, FinishCommit, StoragePowerLoss, DirectoryPowerLoss
  <1>9. CASE MigrationNext
    <2>1. UNCHANGED directoryVars => UNCHANGED <<files, unflushed>>
      BY Zenon DEF directoryVars
    <2>2. ASSUME Abandon \/ Open PROVE UNCHANGED <<files, unflushed>>
      BY Zenon, <2>2 DEF Abandon, Open
    <2>3. UNCHANGED directoryVars \/ Abandon \/ Open
      BY Zenon, <1>9 DEF MigrationNext, MigrateCapture, WriteRollback, MigrateBranch,
           WriteReceipt, RestoreIfUnchanged, WorkerDies
    <2> QED
      BY Zenon, <1>1, <2>1, <2>2, <2>3
  <1>10. CASE UNCHANGED storageVars
    BY Zenon, <1>1, <1>10 DEF storageVars, directoryVars
  <1> QED
    BY Zenon, <1>2, <1>3, <1>4, <1>5, <1>7, <1>8, <1>9, <1>10
       DEF StorageNext, StorageJobNext, JobNext, ClientAbandons
-----------------------------------------------------------------------------
(* A generation no unflushed change is about is the same on every disk.    *)
LEMMA UntouchedOnDisk ==
    ASSUME JournalInv, NEW d \in Possible, NEW g \in Generations,
           \A i \in DOMAIN unflushed : unflushed[i].generation # g
    PROVE  d[g] = files[g]
  <1>1. PICK n \in 0 .. Len(unflushed) : d = Undo(files, unflushed, n)
    BY Zenon, PossibleIsUndone
  <1>2. Len(unflushed) \in Nat /\ DOMAIN unflushed = 1 .. Len(unflushed)
    BY Zenon, LenProperties DEF JournalInv, JournalTypes
  <1>3. \A i \in n + 1 .. Len(unflushed) : i \in DOMAIN unflushed
    BY <1>2
  <1> DEFINE undone == {i \in n + 1 .. Len(unflushed) : unflushed[i].generation = g}
  <1>4. undone = {}
    BY Zenon, <1>3
  <1>5. d[g] = IF undone = {} THEN files[g] ELSE unflushed[Min(undone)].old
    BY Zenon, <1>1 DEF Undo
  <1> QED
    BY Zenon, <1>4, <1>5

(* A step that leaves the directory, the receipt and what landed.          *)
LEMMA QuietKeepsLanded ==
    ASSUME LandedInv, UNCHANGED <<files, unflushed, corruptions, receipt>>,
           receipt.written => (landed' <=> landed)
    PROVE  LandedInv'
  <1>1. Possible' = Possible
    BY Zenon, PossibleStays
  <1>2. TargetUnflushed' <=> TargetUnflushed
    BY Zenon DEF TargetUnflushed
  <1> QED
    BY Zenon, <1>1, <1>2 DEF LandedInv

(* The receipt is written: its state landed before only if an import put   *)
(* the very same one there.                                                *)
LEMMA ReceiptKeepsLanded ==
    ASSUME JournalInv, MigrationTypes, RenamedInv, WriteReceipt, WorkerInv'
    PROVE  LandedInv'
  <1>1. /\ UNCHANGED <<files, unflushed, corruptions>>
        /\ landed' = (receipt'.written /\ files'[receipt'.target.revision] = receipt'.target)
    BY Zenon DEF WriteReceipt, directoryVars, TargetPresent
  <1> DEFINE t == receipt'.target
             r == t.revision
  <1>0. t \in State
    <2>1. migrator.source \in State /\ migrator.result \in State
      BY Zenon DEF MigrationTypes
    <2>2. TargetState(migrator.source, migrator.result) \in State
      BY Zenon, <2>1, TargetFollows DEF WriteReceipt
    <2>3. receipt' = [written |-> TRUE, source |-> migrator.source,
                      target |-> TargetState(migrator.source, migrator.result)]
      BY Zenon DEF WriteReceipt
    <2> QED
      BY Zenon, <2>2, <2>3
  <1>2. CASE receipt'.written /\ files'[r] = t /\ corruptions' = 0
    <2>1. r \in Generations
      BY Zenon, <1>2 DEF WorkerInv
    <2>2. /\ files \in Directories /\ files \in Possible /\ files \in [Generations -> Content]
          /\ Undamaged(files)
      BY Zenon, <1>1, <1>2, FilesAreDirectory DEF JournalInv, JournalTypes, PossibleInv
    <2>3. ASSUME NEW d \in Directories, Undamaged(d), d[r] = t PROVE Reached(d, t)
      <3>1. UpTo(d, LatestOf(d).revision)
        BY Zenon, <2>3, LatestIsState
      <3> QED
        BY Zenon, <1>0, <2>1, <2>3, <3>1, JournalAssumption DEF UpTo, Reached
    <2>4. Reached(files', t)
      BY Zenon, <1>1, <1>2, <2>2, <2>3
    <2>5. ASSUME ~TargetUnflushed', NEW d \in Possible' PROVE Reached(d, t)
      <3>1. d \in Possible
        BY Zenon, <1>1, <2>5, PossibleStays
      <3>2. d \in Directories /\ Undamaged(d)
        BY Zenon, <1>1, <1>2, <3>1 DEF JournalInv, PossibleInv
      <3>3. files[r] # NoFile
        BY Zenon, <1>0, <1>1, <1>2, JournalAssumption
      <3>4. \A i \in DOMAIN unflushed : unflushed[i].generation # r
        BY Zenon, <1>1, <2>5, <3>3 DEF RenamedInv, TargetUnflushed
      <3>5. d[r] = files[r]
        BY Zenon, <2>1, <3>1, <3>4, UntouchedOnDisk
      <3> QED
        BY Zenon, <1>1, <1>2, <2>3, <3>2, <3>5
    <2> HIDE DEF r
    <2> QED
      BY Zenon, <1>1, <1>2, <2>4, <2>5 DEF LandedInv
  <1>3. CASE ~(receipt'.written /\ files'[r] = t /\ corruptions' = 0)
    BY Zenon, <1>1, <1>3 DEF LandedInv
  <1> QED
    BY Zenon, <1>2, <1>3

(* A change of the directory during a job.                                 *)
LEMMA ChangeKeepsLanded ==
    ASSUME JournalInv, WorkerInv, LandedInv, JournalInv', NEW g \in Generations,
           unflushed' = Append(unflushed, Change(g)),
           UNCHANGED <<corruptions, receipt>>,
           Possible' \subseteq Possible \cup {files'},
           landed' = (landed \/ TargetPresent),
           receipt.written /\ corruptions = 0 /\ landed => Reached(files', receipt.target),
           receipt.written /\ files'[receipt.target.revision] = receipt.target =>
              \/ landed
              \/ files[g] = NoFile /\ g = receipt.target.revision,
           receipt.written /\ files'[receipt.target.revision] = receipt.target =>
              receipt.target.revision <= LatestOf(files').revision
    PROVE  LandedInv'
  <1> DEFINE t == receipt.target
             r == t.revision
  <1>1. SUFFICES ASSUME receipt.written, corruptions = 0
                 PROVE  /\ files'[r] = t => landed'
                        /\ landed' => Reached(files', t)
                        /\ landed' /\ ~TargetUnflushed' =>
                              \A d \in Possible' : Reached(d, t)
    BY Zenon DEF LandedInv
  <1>2. landed' <=> (landed \/ files'[r] = t)
    BY Zenon, <1>1 DEF TargetPresent
  <1>3. landed' => Reached(files', t)
    BY Zenon, <1>1, <1>2 DEF Reached
  <1>4. TargetUnflushed => TargetUnflushed'
    BY Zenon, AppendedChange DEF TargetUnflushed
  <1>5. files[g] = NoFile /\ g = r => TargetUnflushed'
    BY Zenon, AppendedChange DEF TargetUnflushed
  <1>6. ASSUME landed', ~TargetUnflushed', NEW d \in Possible' PROVE Reached(d, t)
    <2>1. landed
      BY Zenon, <1>1, <1>2, <1>5, <1>6
    <2>2. \A e \in Possible : Reached(e, t)
      BY Zenon, <1>1, <1>4, <1>6, <2>1 DEF LandedInv
    <2> QED
      BY Zenon, <1>3, <1>6, <2>2
  <1> QED
    BY Zenon, <1>2, <1>3, <1>6

LEMMA JobKeepsLanded ==
    ASSUME JournalInv, MigrationTypes, WorkerInv, LandedInv, StorageJobNext, JournalInv'
    PROVE  LandedInv'
  <1> DEFINE t == receipt.target
             r == t.revision
  <1>1. /\ JobNext /\ UNCHANGED receipt
        /\ landed' = (landed \/ TargetPresent)
    BY Zenon DEF StorageJobNext
  <1>2. /\ files \in [Generations -> Content] /\ unflushed \in Seq(Changes)
        /\ files \in Possible
    BY Zenon, FilesAreDirectory DEF JournalInv, JournalTypes
  <1>3. t \in State /\ r \in 0 .. MaxGeneration
    BY Zenon DEF MigrationTypes, State
  <1>4. receipt.written => r \in Generations
    BY Zenon DEF WorkerInv
  <1>5. CASE UNCHANGED <<files, unflushed, corruptions>>
    <2>1. receipt.written /\ corruptions = 0 => (landed' <=> landed)
      BY Zenon, <1>1, <1>5 DEF TargetPresent, LandedInv
    <2>2. CASE corruptions = 0
      BY Zenon, <1>1, <1>5, <2>1, <2>2, QuietKeepsLanded
    <2>3. CASE corruptions # 0
      BY Zenon, <1>5, <2>3 DEF LandedInv
    <2> QED
      BY Zenon, <2>2, <2>3
  <1>6. CASE SyncDirectory \/ FinishCommit
    <2>1. unflushed' = <<>> /\ UNCHANGED <<files, corruptions>>
      BY Zenon, <1>6 DEF SyncDirectory, FinishCommit
    <2>2. Possible' = {files'}
      BY Zenon, <1>2, <2>1, FlushLeavesOne
    <2>3. receipt.written /\ corruptions = 0 => (landed' <=> landed)
      BY Zenon, <1>1, <2>1 DEF TargetPresent, LandedInv
    <2> QED
      BY Zenon, <1>1, <2>1, <2>2, <2>3 DEF LandedInv
  <1>7. CASE RenameState
    <2> DEFINE g == job.state.revision
    <2>1. /\ files' = [files EXCEPT ![g] = job.state]
          /\ unflushed' = Append(unflushed, Change(g))
          /\ UNCHANGED corruptions
      BY Zenon, <1>7 DEF RenameState
    <2>2. /\ g \in Generations /\ files[g] = NoFile /\ Latest' = job.state
          /\ Latest.revision \in 0 .. MaxGeneration /\ Latest.revision < g
      BY Zenon, <1>7, RenameKeeps
    <2>3. job.state \in State /\ job.state \in Content
      BY Zenon DEF JournalInv, JournalTypes, Jobs, Content
    <2>4. Possible' \subseteq Possible \cup {files'}
      BY Zenon, <1>2, <2>1, <2>2, <2>3, ChangeAddsOne
    <2>5. LatestOf(files') = job.state
      BY Zenon, <2>2 DEF Latest, LatestOf
    <2>6. files'[g] = job.state /\ \A h \in Generations : h # g => files'[h] = files[h]
      BY Zenon, <1>2, <2>1, <2>2
    <2>7. job.state.revision = g
      BY Zenon
    <2> HIDE DEF g
    <2>8. ASSUME receipt.written, corruptions = 0, landed PROVE Reached(files', t)
      <3>1. r <= Latest.revision /\ files[r] \in {t, NoFile}
        BY Zenon, <2>8 DEF LandedInv, Reached, Latest
      <3>2. r # g /\ r <= g
        BY <1>3, <2>2, <3>1 DEF Generations
      <3>3. files'[r] = files[r]
        BY Zenon, <1>4, <2>6, <2>8, <3>2
      <3> QED
        BY Zenon, <2>5, <2>7, <3>1, <3>2, <3>3 DEF Reached
    <2>9. ASSUME receipt.written, files'[r] = t
          PROVE  /\ landed \/ (files[g] = NoFile /\ g = r) \/ corruptions # 0
                 /\ r <= LatestOf(files').revision
      <3>1. CASE r = g
        <4>1. g <= g
          BY <2>2 DEF Generations
        <4> QED
          BY Zenon, <2>2, <2>5, <2>7, <3>1, <4>1
      <3>2. CASE r # g
        <4>1. files[r] = t /\ r \in Generations
          BY Zenon, <1>4, <2>6, <2>9, <3>2
        <4>2. landed \/ corruptions # 0
          BY Zenon, <2>9, <4>1 DEF LandedInv
        <4>3. UpTo(files', g)
          BY Zenon, <1>7, <2>7, RenameKeeps
        <4>4. r <= g
          BY Zenon, <1>3, <2>9, <4>1, <4>3, JournalAssumption DEF UpTo
        <4> QED
          BY Zenon, <2>5, <2>7, <4>2, <4>4
      <3> QED
        BY Zenon, <3>1, <3>2
    <2>10. CASE corruptions = 0
      BY Zenon, <1>1, <2>1, <2>2, <2>4, <2>8, <2>9, <2>10, ChangeKeepsLanded
    <2>11. CASE corruptions # 0
      BY Zenon, <2>1, <2>11 DEF LandedInv
    <2> QED
      BY Zenon, <2>10, <2>11
  <1>8. CASE PruneOldest
    <2> DEFINE o == Min(StateFiles)
    <2>1. /\ files' = [files EXCEPT ![o] = NoFile]
          /\ unflushed' = Append(unflushed, Change(o))
          /\ UNCHANGED corruptions
      BY Zenon, <1>8 DEF PruneOldest
    <2>2. o \in Generations /\ files[o] # NoFile /\ Latest' = Latest
      BY Zenon, <1>8, PruneKeeps
    <2>3. NoFile \in Content /\ NoFile # t
      BY Zenon, <1>3, JournalAssumption DEF Content
    <2> HIDE DEF o
    <2>4. Possible' \subseteq Possible \cup {files'}
      BY Zenon, <1>2, <2>1, <2>2, <2>3, ChangeAddsOne
    <2>5. LatestOf(files') = LatestOf(files)
      BY Zenon, <2>2 DEF Latest, LatestOf
    <2>6. files'[o] = NoFile /\ \A h \in Generations : h # o => files'[h] = files[h]
      BY Zenon, <1>2, <2>1, <2>2
    <2>7. ASSUME receipt.written, corruptions = 0, landed PROVE Reached(files', t)
      BY Zenon, <1>4, <2>5, <2>6, <2>7 DEF LandedInv, Reached
    <2>8. ASSUME receipt.written, files'[r] = t, corruptions = 0
          PROVE  landed /\ r <= LatestOf(files').revision
      BY Zenon, <1>4, <2>3, <2>5, <2>6, <2>8 DEF LandedInv, Reached
    <2>9. CASE corruptions = 0
      BY Zenon, <1>1, <2>1, <2>2, <2>4, <2>7, <2>8, <2>9, ChangeKeepsLanded
    <2>10. CASE corruptions # 0
      BY Zenon, <2>1, <2>10 DEF LandedInv
    <2> QED
      BY Zenon, <2>9, <2>10
  <1>9. ASSUME NEW g \in Generations, QuarantineFile(g) PROVE LandedInv'
    <2>1. files[g] = Corrupt /\ UNCHANGED corruptions
      BY Zenon, <1>9 DEF QuarantineFile
    <2>2. corruptions # 0
      BY Zenon, <1>2, <2>1 DEF JournalInv, PossibleInv, Undamaged
    <2> QED
      BY Zenon, <2>1, <2>2 DEF LandedInv
  <1>10. CASE WriteTemporary \/ CleanupRecovered
    BY Zenon, <1>5, <1>10 DEF WriteTemporary, CleanupRecovered
  <1> QED
    BY Zenon, <1>1, <1>6, <1>7, <1>8, <1>9, <1>10 DEF JobNext

(* A power failure that keeps the rename of the target keeps what landed.  *)
LEMMA PowerLossKeepsLanded ==
    ASSUME JournalInv, MigrationTypes, WorkerInv, LandedInv, StoragePowerLoss
    PROVE  LandedInv'
  <1> DEFINE t == receipt.target
             r == t.revision
  <1>1. /\ files' \in Possible /\ unflushed' = <<>> /\ UNCHANGED <<corruptions, receipt>>
        /\ landed' = (TargetPresent \/ (landed /\ ~TargetUnflushed))
    BY Zenon DEF StoragePowerLoss, DirectoryPowerLoss, Possible
  <1>2. files' \in Directories /\ files' \in [Generations -> Content]
    BY Zenon, <1>1 DEF JournalInv, PossibleInv, Directories
  <1>3. Possible' = {files'}
    BY Zenon, <1>1, <1>2, FlushLeavesOne
  <1>4. t \in State
    BY Zenon DEF MigrationTypes
  <1>5. CASE receipt.written /\ corruptions = 0
    <2>1. landed' <=> (files'[r] = t \/ (landed /\ ~TargetUnflushed))
      BY Zenon, <1>1, <1>5 DEF TargetPresent
    <2>2. ASSUME files'[r] = t PROVE Reached(files', t)
      <3>1. Undamaged(files') /\ r \in Generations
        BY Zenon, <1>1, <1>5 DEF JournalInv, PossibleInv, WorkerInv
      <3>2. UpTo(files', LatestOf(files').revision)
        BY Zenon, <1>2, <3>1, LatestIsState
      <3> QED
        BY Zenon, <1>4, <2>2, <3>1, <3>2, JournalAssumption DEF UpTo, Reached
    <2>3. ASSUME landed, ~TargetUnflushed PROVE Reached(files', t)
      BY Zenon, <1>1, <1>5, <2>3 DEF LandedInv
    <2> QED
      BY Zenon, <1>1, <1>3, <2>1, <2>2, <2>3 DEF LandedInv
  <1>6. CASE ~(receipt.written /\ corruptions = 0)
    BY Zenon, <1>1, <1>6 DEF LandedInv
  <1> QED
    BY Zenon, <1>5, <1>6

LEMMA LandedStepKeeps ==
    ASSUME JournalInv, MigrationInv, [StorageNext]_storageVars, JournalInv', WorkerInv'
    PROVE  LandedInv'
  <1> USE DEF MigrationInv
  <1>1. CASE UNCHANGED <<files, unflushed, corruptions, receipt, landed>>
    BY Zenon, <1>1, QuietKeepsLanded
  <1>2. CASE UNCHANGED migrationVars /\ ClientNext
    <2>1. UNCHANGED <<receipt, landed>>
      BY Zenon, <1>2 DEF migrationVars
    <2>2. UNCHANGED <<files, unflushed, corruptions>>
      BY Zenon, <1>2
         DEF ClientNext, Prepare, Put, Delete, ReadRevision, CompareExchange, ApplyBatch,
             Restore, Recover, Open
    <2> QED
      BY Zenon, <1>1, <2>1, <2>2
  <1>3. CASE UNCHANGED migrationVars /\ \E g \in Generations : DamageFile(g)
    <2>1. corruptions' = corruptions + 1 /\ corruptions \in Nat
      BY Zenon, <1>3 DEF DamageFile, JournalInv, JournalTypes
    <2>2. corruptions' # 0
      BY <2>1
    <2> QED
      BY Zenon, <2>2 DEF LandedInv
  <1>4. CASE WriteReceipt
    BY Zenon, <1>4, ReceiptKeepsLanded
  <1>5. CASE MigrationNext /\ ~WriteReceipt
    <2>1. UNCHANGED <<receipt, landed>>
      BY Zenon, <1>5 DEF MigrationNext, MigrateCapture, WriteRollback, MigrateBranch,
           RestoreIfUnchanged, WorkerDies
    <2>2. ASSUME UNCHANGED directoryVars PROVE UNCHANGED <<files, unflushed, corruptions>>
      BY Zenon, <2>2 DEF directoryVars
    <2>3. ASSUME Abandon \/ Open PROVE UNCHANGED <<files, unflushed, corruptions>>
      BY Zenon, <2>3 DEF Abandon, Open
    <2>4. UNCHANGED directoryVars \/ Abandon \/ Open
      BY Zenon, <1>5 DEF MigrationNext, MigrateCapture, WriteRollback, MigrateBranch,
           RestoreIfUnchanged, WorkerDies
    <2>5. UNCHANGED <<files, unflushed, corruptions>>
      BY Zenon, <2>2, <2>3, <2>4
    <2> QED
      BY Zenon, <1>1, <2>1, <2>5
  <1>6. CASE StorageJobNext
    BY Zenon, <1>6, JobKeepsLanded
  <1>7. CASE ClientAbandons
    BY Zenon, <1>1, <1>7 DEF ClientAbandons, Abandon, migrationVars
  <1>8. CASE StoragePowerLoss
    BY Zenon, <1>8, PowerLossKeepsLanded
  <1>9. CASE UNCHANGED storageVars
    BY Zenon, <1>1, <1>9 DEF storageVars, directoryVars, migrationVars
  <1> QED
    BY Zenon, <1>2, <1>3, <1>4, <1>5, <1>6, <1>7, <1>8, <1>9 DEF StorageNext
-----------------------------------------------------------------------------
LEMMA StorageStarts == StorageInit => JournalInv /\ MigrationInv
  <1> SUFFICES ASSUME StorageInit PROVE JournalInv /\ MigrationInv
    BY Zenon
  <1>1. /\ DirectoryInit /\ migrator = NoWorker /\ receipt = NoReceipt
    BY Zenon DEF StorageInit, MigrationInit
  <1>2. /\ NoReceipt \in [written: BOOLEAN, source: State, target: State]
        /\ NoReceipt.written = FALSE
    BY Zenon, DefaultIsState DEF NoReceipt
  <1>3. job.who # "migration" /\ DOMAIN unflushed = {}
    BY <1>1, IdleWho DEF DirectoryInit
  <1>4. MigrationTypes
    BY Zenon, <1>1, <1>2, NoWorkerTypes DEF MigrationTypes
  <1>5. WorkerInv
    <2>1. migrator.step \notin {"saved", "migrated", "intended", "committing"}
      BY Zenon, <1>1, NoWorkerTypes
    <2> QED
      BY Zenon, <1>1, <1>2, <1>3, <2>1 DEF WorkerInv
  <1>6. RenamedInv /\ LandedInv
    BY Zenon, <1>1, <1>2, <1>3 DEF RenamedInv, LandedInv
  <1> QED
    BY Zenon, <1>1, <1>4, <1>5, <1>6, DirectoryStarts DEF MigrationInv

LEMMA StorageStepKeeps ==
    ASSUME JournalInv, MigrationInv, [StorageNext]_storageVars
    PROVE  JournalInv' /\ MigrationInv'
  <1>1. MigrationTypes /\ WorkerInv /\ RenamedInv
    BY Zenon DEF MigrationInv
  <1>2. JournalInv'
    BY Zenon, <1>1, MigrationKeepsJournalStep
  <1>3. MigrationTypes' /\ WorkerInv'
    BY Zenon, <1>1, WorkerStepKeeps
  <1>4. RenamedInv'
    BY Zenon, <1>1, RenamedStepKeeps
  <1>5. LandedInv'
    BY Zenon, <1>2, <1>3, LandedStepKeeps
  <1> QED
    BY Zenon, <1>2, <1>3, <1>4, <1>5 DEF MigrationInv

LEMMA StorageInvHolds == StorageSpec => [](JournalInv /\ MigrationInv)
  <1>1. JournalInv /\ MigrationInv /\ [StorageNext]_storageVars
          => (JournalInv /\ MigrationInv)'
    BY Zenon, StorageStepKeeps
  <1> QED
    BY StorageStarts, <1>1, PTL DEF StorageSpec

(* A migration replaces the state it captured and no other, and what       *)
(* recovery says of it is true, wherever the worker died and whatever was  *)
(* written, pruned or lost in a power failure since (restore_if_unchanged, *)
(* storage_migration_recover_command).                                     *)
THEOREM MigrationsStayAccountable == StorageSpec => []MigrationIsAccountable
  <1>1. JournalInv /\ MigrationInv => MigrationIsAccountable
    <2> SUFFICES ASSUME JournalInv, MigrationInv PROVE MigrationIsAccountable
      BY Zenon
    <2> USE DEF MigrationInv
    <2>1. ASSUME job.who = "migration", job.step \in {"write", "rename"}
          PROVE  Latest = migrator.source /\ rollback = Latest /\ job.state = receipt.target
      BY Zenon, <2>1 DEF WorkerInv
    <2>2. ASSUME receipt.written, corruptions = 0
          PROVE  /\ RecoveryStatus \in {"committed", "committed_then_changed"} => landed
                 /\ RecoveryStatus = "not_committed" => ~landed
      <3> DEFINE t == receipt.target
      <3>1. CASE files[t.revision] = t
        <4>1. RecoveryStatus \in {"committed", "committed_then_changed"}
          BY Zenon, <3>1 DEF RecoveryStatus
        <4>2. RecoveryStatus # "not_committed"
          BY Zenon, <4>1
        <4> QED
          BY Zenon, <2>2, <3>1, <4>2 DEF LandedInv
      <3>2. CASE files[t.revision] # t /\ (files[t.revision] # NoFile \/ Latest = receipt.source)
        <4>1. RecoveryStatus = "not_committed"
          BY Zenon, <3>2 DEF RecoveryStatus
        <4>2. ASSUME landed PROVE FALSE
          <5>1. files[t.revision] = NoFile /\ t.revision <= Latest.revision
            BY Zenon, <2>2, <3>2, <4>2 DEF LandedInv, Reached, Latest
          <5>2. receipt.source.revision < t.revision /\ Latest = receipt.source
            BY Zenon, <2>2, <3>2, <5>1 DEF WorkerInv
          <5>3. t.revision \in 0 .. MaxGeneration /\ receipt.source.revision \in 0 .. MaxGeneration
            BY Zenon DEF MigrationTypes, State
          <5>4. t.revision <= receipt.source.revision
            BY Zenon, <5>1, <5>2
          <5> QED
            BY ONLY <5>2, <5>3, <5>4, SMTT(30)
        <4>3. RecoveryStatus \notin {"committed", "committed_then_changed"}
          BY Zenon, <4>1
        <4> QED
          BY Zenon, <4>2, <4>3
      <3>3. CASE files[t.revision] = NoFile /\ files[t.revision] # t
                    /\ Latest # receipt.source
        <4>1. RecoveryStatus = "indeterminate"
          BY Zenon, <3>3 DEF RecoveryStatus
        <4> QED
          BY Zenon, <4>1
      <3> QED
        BY Zenon, <3>1, <3>2, <3>3
    <2> QED
      BY Zenon, <2>1, <2>2 DEF MigrationIsAccountable
  <1> QED
    BY StorageInvHolds, <1>1, PTL

LEMMA StorageStepOfLog ==
    ASSUME JournalInv, LogInv, [StorageNext]_storageVars
    PROVE  LogInv' /\ (corruptions' > 0 \/ LogStep)
  <1>1. CASE RestoreIfUnchanged
    <2>1. UNCHANGED <<files, unflushed, acked, corruptions>>
      BY Zenon, <1>1 DEF RestoreIfUnchanged, Open
    <2>2. ASSUME NEW state, StartCommit(state, "migration") PROVE job'.step # "prune"
      BY Zenon, <2>2 DEF StartCommit
    <2>3. job' = job \/ job'.step # "prune"
      BY Zenon, <1>1, <2>2 DEF RestoreIfUnchanged, CommitRestored
    <2> QED
      BY Zenon, <2>1, <2>3, QuietKeepsLog
  <1>2. CASE [DirectoryNext]_directoryVars
    BY Zenon, <1>2, DirectoryStepOfLog
  <1> QED
    BY Zenon, <1>1, <1>2 DEF StorageNext, storageVars, MigrationNext, MigrateCapture,
       WriteRollback, MigrateBranch, WriteReceipt, WorkerDies, StorageJobNext,
       ClientAbandons, StoragePowerLoss, DirectoryNext

(* The same for a namespace that guests and a migration worker share: the  *)
(* worker's commits are commits of the log, and an acknowledged one        *)
(* survives (restore_if_unchanged).                                        *)
THEOREM SharedJournalImplementsStore == StorageSpec => ImplementsRevisionedStore
  <1>1. StorageInit => JournalInv /\ LogInv /\ Promised!StoreInit
    BY Zenon, DirectoryStarts, DirectoryStartsLog DEF StorageInit
  <1>2. JournalInv /\ LogInv /\ [StorageNext]_storageVars => LogInv'
    BY Zenon, StorageStepOfLog
  <1>3. JournalInv /\ LogInv /\ [StorageNext]_storageVars
          => [corruptions' > 0 \/ Promised!StoreNext]_<<VisibleLog, acked, corruptions>>
    BY Zenon, StorageStepOfLog, LogStepIsAllowed
  <1> QED
    BY <1>1, <1>2, <1>3, StorageInvHolds, PTL DEF StorageSpec, ImplementsRevisionedStore
=============================================================================
