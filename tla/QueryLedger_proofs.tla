------------------------- MODULE QueryLedger_proofs -------------------------
(***************************************************************************)
(* Proofs about QueryLedger, for any number of threads, any limit and any  *)
(* file system: the types, the cap the mutex guards, the order of the      *)
(* history in memory and on disk, and, as long as two persists do not      *)
(* overlap, a file that parses and that matches the list once no call is   *)
(* in progress.                                                            *)
(***************************************************************************)
EXTENDS QueryLedger, SequenceTheorems, TLAPS

USE LedgerAssumption

-----------------------------------------------------------------------------
(***************************************************************************)
(* The strengthening.                                                      *)
(***************************************************************************)
\* A list of queries in the order they were recorded, none after r.
Ordered(s, r) ==
  /\ s \in Seq(Nat)
  /\ \A i \in 1 .. Len(s) : s[i] <= r
  /\ Increasing(s)

\* Every copy of the list, in memory, on its way or on disk, is ordered.
OrderInv ==
  /\ Ordered(entries, recorded)
  /\ \A t \in Threads : Ordered(snap[t], recorded)
  /\ \A i \in Inodes : Ordered(disk[i].rows, recorded)

Idle(t) == ~Persisting(t)
Pending == \E t \in Threads : pc[t] \in {"trim", "snapshot"}

\* Without an overlap one thread persists at a time; it writes into an empty
\* temporary file and renames the document it has written.
AloneInv ==
  ~overlapped =>
    /\ \A t, u \in Threads : Persisting(t) /\ Persisting(u) => t = u
    /\ tmp = 0 \/ tmp # file
    /\ file # 0 => disk[file].kind = "json"
    /\ \A t \in Threads : pc[t] = "write" =>
         tmp # 0 /\ fd[t] = tmp /\ disk[tmp] = Blank
    /\ \A t \in Threads : pc[t] = "replace" =>
         tmp # 0 /\ disk[tmp] = Json(snap[t])

\* Without an overlap the list is about to be persisted, is being persisted, is
\* known to be unsaved, or is what a restart finds.
SavedInv ==
  ~overlapped =>
    \/ Pending
    \/ \E t \in Threads : Persisting(t) /\ snap[t] = entries
    \/ (\A t \in Threads : Idle(t)) /\ (degraded \/ Load = entries)

IInv ==
  /\ TypeOK
  /\ LockedViewCapped
  /\ OrderInv
  /\ AloneInv
  /\ SavedInv

-----------------------------------------------------------------------------
(***************************************************************************)
(* The operators on lists and inodes.                                      *)
(***************************************************************************)
LEMMA EmptyOrdered == ASSUME NEW r \in Nat PROVE Ordered(<<>>, r)
BY DEF Ordered, Increasing

LEMMA MoreRecorded ==
  ASSUME NEW s, NEW r \in Nat, Ordered(s, r)
  PROVE  Ordered(s, r + 1)
BY DEF Ordered

LEMMA AppendOrdered ==
  ASSUME NEW s, NEW r \in Nat, Ordered(s, r)
  PROVE  Ordered(Append(s, r + 1), r + 1)
<1>1. /\ Append(s, r + 1) \in Seq(Nat) /\ Len(Append(s, r + 1)) = Len(s) + 1
      /\ \A i \in 1 .. Len(s) : Append(s, r + 1)[i] = s[i]
      /\ Append(s, r + 1)[Len(s) + 1] = r + 1
      /\ Len(s) \in Nat
  BY DEF Ordered
<1>2. \A i \in 1 .. Len(s) : s[i] \in Nat /\ s[i] <= r
  BY DEF Ordered
<1>3. Increasing(Append(s, r + 1))
  <2>. SUFFICES ASSUME NEW i \in 1 .. Len(s) + 1, NEW j \in 1 .. Len(s) + 1, i < j
                PROVE  Append(s, r + 1)[i] < Append(s, r + 1)[j]
    BY <1>1 DEF Increasing
  <2>1. i \in 1 .. Len(s)
    BY <1>1
  <2>2. CASE j \in 1 .. Len(s)
    BY <1>1, <2>1, <2>2 DEF Ordered, Increasing
  <2>3. CASE j = Len(s) + 1
    BY <1>1, <1>2, <2>1, <2>3
  <2>. QED
    BY <1>1, <2>2, <2>3
<1>4. \A i \in 1 .. Len(s) + 1 : Append(s, r + 1)[i] <= r + 1
  BY <1>1, <1>2
<1>. QED
  BY <1>1, <1>3, <1>4 DEF Ordered

\* The slice keeps the order and the cap.
LEMMA NewestOrdered ==
  ASSUME NEW s, NEW r \in Nat, Ordered(s, r)
  PROVE  Ordered(Newest(s), r) /\ Len(Newest(s)) <= MAX_ENTRIES
<1>1. CASE Len(s) <= MAX_ENTRIES
  <2>1. Newest(s) = s
    BY <1>1 DEF Newest, Ordered
  <2>. QED
    BY <1>1, <2>1
<1>2. CASE Len(s) > MAX_ENTRIES
  <2>. DEFINE k == Len(s) - MAX_ENTRIES
  <2>1. /\ Newest(s) = SubSeq(s, k + 1, Len(s))
        /\ s \in Seq(Nat) /\ Len(s) \in Nat /\ k \in Nat
    BY <1>2 DEF Newest, Ordered
  <2>2. /\ Newest(s) \in Seq(Nat) /\ Len(Newest(s)) = MAX_ENTRIES
        /\ \A i \in 1 .. MAX_ENTRIES : Newest(s)[i] = s[i + k]
    <3>1. k + 1 \in Int /\ Len(s) \in Int /\ Len(s) - (k + 1) + 1 = MAX_ENTRIES
      BY <2>1
    <3>2. \A i \in k + 1 .. Len(s) : s[i] \in Nat
      BY <2>1, ElementOfSeq
    <3>3. /\ SubSeq(s, k + 1, Len(s)) \in Seq(Nat)
          /\ Len(SubSeq(s, k + 1, Len(s))) =
               IF k + 1 <= Len(s) THEN Len(s) - (k + 1) + 1 ELSE 0
          /\ \A i \in 1 .. Len(s) - (k + 1) + 1 :
               SubSeq(s, k + 1, Len(s))[i] = s[k + 1 + i - 1]
      BY <3>1, <3>2, SubSeqProperties
    <3>4. k + 1 <= Len(s) /\ \A i \in 1 .. MAX_ENTRIES : k + 1 + i - 1 = i + k
      BY <2>1
    <3>. HIDE DEF k
    <3>. QED
      BY <2>1, <3>1, <3>3, <3>4
  <2>3. \A i \in 1 .. MAX_ENTRIES : i + k \in 1 .. Len(s)
    BY <2>1
  <2>4. Increasing(Newest(s))
    <3>. SUFFICES ASSUME NEW i \in 1 .. MAX_ENTRIES, NEW j \in 1 .. MAX_ENTRIES, i < j
                  PROVE  Newest(s)[i] < Newest(s)[j]
      BY <2>2 DEF Increasing
    <3>1. i + k < j + k
      BY <2>1
    <3>. QED
      BY <2>2, <2>3, <3>1 DEF Ordered, Increasing
  <2>5. \A i \in 1 .. MAX_ENTRIES : Newest(s)[i] <= r
    BY <2>2, <2>3 DEF Ordered
  <2>. QED
    BY <2>2, <2>4, <2>5 DEF Ordered
<1>. QED
  BY <1>1, <1>2 DEF Ordered

\* A list within the cap is its own slice.
LEMMA NewestSame ==
  ASSUME NEW s \in Seq(Nat), Len(s) <= MAX_ENTRIES
  PROVE  Newest(s) = s
BY DEF Newest

\* Reclaiming touches no inode that has a name.
LEMMA NamedKept ==
  ASSUME NEW d, NEW named, NEW open, NEW i \in Inodes, i \in named
  PROVE  Reclaimed(d, named, open)[i] = d[i]
BY DEF Reclaimed

LEMMA FileKept ==
  ASSUME NEW d, NEW open, file \in Inodes
  PROVE  Reclaimed(d, {tmp, file}, open)[file] = d[file]
BY DEF Reclaimed

LEMMA ReclaimedOr ==
  ASSUME NEW d, NEW named, NEW open, NEW i \in Inodes
  PROVE  Reclaimed(d, named, open)[i] \in {d[i], Blank}
BY DEF Reclaimed

Contents == [kind : {"blank", "json", "torn"}, rows : Seq(Nat)]

LEMMA ReclaimedType ==
  ASSUME NEW d \in [Inodes -> Contents], NEW named, NEW open
  PROVE  Reclaimed(d, named, open) \in [Inodes -> Contents]
BY DEF Reclaimed, Contents, Blank

\* What the contents of inodes can be.
LEMMA ContentsTyped ==
  /\ Blank \in Contents /\ Torn \in Contents
  /\ \A s \in Seq(Nat) : Json(s) \in Contents /\ Json(s).rows = s /\ Json(s).kind = "json"
  /\ Blank.rows = <<>> /\ Torn.rows = <<>>
BY DEF Blank, Torn, Json, Contents

-----------------------------------------------------------------------------
(***************************************************************************)
(* Every action preserves the strengthening.                               *)
(***************************************************************************)
LEMMA InitIInv == Init => IInv
<1>. SUFFICES ASSUME Init PROVE IInv
  OBVIOUS
<1>1. TypeOK
  BY ContentsTyped DEF Init, TypeOK, Contents
<1>2. LockedViewCapped
  BY DEF Init, LockedViewCapped
<1>3. OrderInv
  BY EmptyOrdered, ContentsTyped DEF Init, OrderInv
<1>4. AloneInv
  BY DEF Init, AloneInv, Persisting
<1>5. SavedInv
  BY DEF Init, SavedInv, Idle, Persisting, Load, LoadFrom
<1>. QED
  BY <1>1, <1>2, <1>3, <1>4, <1>5 DEF IInv

LEMMA AppendStep ==
  ASSUME IInv, NEW t \in Threads, RecordAppend(t)
  PROVE  IInv'
<1>1. /\ pc[t] = "idle" /\ lock = NoThread /\ lock' = t
      /\ recorded' = recorded + 1 /\ entries' = Append(entries, recorded + 1)
      /\ pc' = [pc EXCEPT ![t] = "trim"]
      /\ UNCHANGED <<snap, fd, tmp, file, disk, degraded, overlapped>>
  BY DEF RecordAppend, disks
<1>2. recorded \in Nat /\ recorded' \in Nat /\ entries \in Seq(Nat)
  BY <1>1 DEF IInv, TypeOK
<1>3. OrderInv'
  BY <1>1, <1>2, MoreRecorded, AppendOrdered DEF IInv, OrderInv
<1>4. TypeOK'
  BY <1>1, <1>2 DEF IInv, TypeOK
<1>5. LockedViewCapped'
  BY <1>1, <1>2 DEF IInv, LockedViewCapped
<1>6. AloneInv'
  BY <1>1 DEF IInv, TypeOK, AloneInv, Persisting
<1>7. SavedInv'
  BY <1>1 DEF IInv, TypeOK, SavedInv, Pending
<1>. QED
  BY <1>3, <1>4, <1>5, <1>6, <1>7 DEF IInv

LEMMA TrimStep ==
  ASSUME IInv, NEW t \in Threads, RecordTrim(t)
  PROVE  IInv'
<1>1. /\ pc[t] = "trim" /\ lock' = NoThread /\ entries' = Newest(entries)
      /\ pc' = [pc EXCEPT ![t] = "snapshot"]
      /\ UNCHANGED <<snap, fd, tmp, file, disk, recorded, degraded, overlapped>>
  BY DEF RecordTrim, disks
<1>2. Ordered(entries', recorded) /\ Len(entries') <= MAX_ENTRIES
  BY <1>1, NewestOrdered DEF IInv, TypeOK, OrderInv
<1>3. OrderInv'
  BY <1>1, <1>2 DEF IInv, OrderInv
<1>4. TypeOK'
  BY <1>1, <1>2 DEF IInv, TypeOK, Ordered
<1>5. LockedViewCapped'
  BY <1>1, <1>2 DEF LockedViewCapped, Ordered
<1>6. AloneInv'
  BY <1>1 DEF IInv, TypeOK, AloneInv, Persisting
<1>7. SavedInv'
  BY <1>1 DEF IInv, TypeOK, SavedInv, Pending
<1>. QED
  BY <1>3, <1>4, <1>5, <1>6, <1>7 DEF IInv

LEMMA ClearStep ==
  ASSUME IInv, NEW t \in Threads, Clear(t)
  PROVE  IInv'
<1>1. /\ pc[t] = "idle" /\ lock = NoThread /\ entries' = <<>>
      /\ pc' = [pc EXCEPT ![t] = "snapshot"]
      /\ UNCHANGED <<lock, snap, fd, tmp, file, disk, recorded, degraded, overlapped>>
  BY DEF Clear, disks
<1>2. Ordered(entries', recorded) /\ Len(entries') = 0
  BY <1>1, EmptyOrdered DEF IInv, TypeOK
<1>3. OrderInv'
  BY <1>1, <1>2 DEF IInv, OrderInv
<1>4. TypeOK'
  BY <1>1, <1>2 DEF IInv, TypeOK, Ordered
<1>5. LockedViewCapped'
  BY <1>1, <1>2 DEF LockedViewCapped
<1>6. AloneInv'
  BY <1>1 DEF IInv, TypeOK, AloneInv, Persisting
<1>7. SavedInv'
  BY <1>1 DEF IInv, TypeOK, SavedInv, Pending
<1>. QED
  BY <1>3, <1>4, <1>5, <1>6, <1>7 DEF IInv

\* The thread joins the persisting ones: either it is alone, or it is recorded
\* that two overlap.
LEMMA SnapshotStep ==
  ASSUME IInv, NEW t \in Threads, PersistSnapshot(t)
  PROVE  IInv'
<1>1. /\ pc[t] = "snapshot" /\ snap' = [snap EXCEPT ![t] = entries]
      /\ overlapped' = (overlapped \/ \E u \in Threads : Persisting(u))
      /\ pc' = [pc EXCEPT ![t] = "open"]
      /\ UNCHANGED <<entries, lock, fd, tmp, file, disk, recorded, degraded>>
  BY DEF PersistSnapshot, disks, memory
<1>2. OrderInv'
  BY <1>1 DEF IInv, TypeOK, OrderInv
<1>3. TypeOK'
  BY <1>1 DEF IInv, TypeOK
<1>4. LockedViewCapped'
  BY <1>1 DEF IInv, LockedViewCapped
<1>5. ASSUME ~overlapped'
      PROVE  /\ ~overlapped /\ \A u \in Threads : ~Persisting(u)
             /\ \A u \in Threads : Persisting(u)' => u = t
             /\ \A u \in Threads : pc'[u] \notin {"write", "replace"}
  BY <1>1, <1>5 DEF IInv, TypeOK, Persisting
<1>6. AloneInv'
  BY <1>1, <1>5 DEF IInv, AloneInv
<1>7. Persisting(t)' /\ snap'[t] = entries'
  BY <1>1 DEF IInv, TypeOK, Persisting
<1>8. SavedInv'
  BY <1>7 DEF SavedInv
<1>. QED
  BY <1>2, <1>3, <1>4, <1>6, <1>8 DEF IInv

LEMMA OpenStep ==
  ASSUME IInv, NEW t \in Threads, PersistOpen(t)
  PROVE  IInv'
<1>1. PICK i \in Inodes :
        /\ IF tmp # 0 THEN i = tmp ELSE i \notin InUse
        /\ tmp' = i /\ fd' = [fd EXCEPT ![t] = i] /\ disk' = [disk EXCEPT ![i] = Blank]
  BY DEF PersistOpen
<1>2. /\ pc[t] = "open" /\ pc' = [pc EXCEPT ![t] = "write"]
      /\ UNCHANGED <<entries, lock, snap, file, recorded, degraded, overlapped>>
  BY DEF PersistOpen, memory
<1>3. TypeOK'
  BY <1>1, <1>2, ContentsTyped DEF IInv, TypeOK, Contents
<1>4. OrderInv'
  BY <1>1, <1>2, ContentsTyped, EmptyOrdered DEF IInv, TypeOK, OrderInv
<1>5. LockedViewCapped'
  BY <1>2 DEF IInv, LockedViewCapped
<1>6. \A u \in Threads : Persisting(u)' <=> Persisting(u)
  BY <1>2 DEF IInv, TypeOK, Persisting
<1>7. ASSUME ~overlapped PROVE i # file /\ i # 0
  <2>1. tmp = 0 => i # file
    BY <1>1 DEF InUse
  <2>. QED
    BY <1>1, <1>7, <2>1 DEF IInv, AloneInv
<1>8. AloneInv'
  <2>. SUFFICES ASSUME ~overlapped' PROVE AloneInv'
    BY DEF AloneInv
  <2>1. ~overlapped /\ Persisting(t)
    BY <1>2 DEF Persisting
  <2>2. \A u \in Threads : pc'[u] \in {"write", "replace"} => u = t
    BY <1>2, <2>1 DEF IInv, AloneInv, TypeOK, Persisting
  <2>3. pc'[t] = "write" /\ tmp' # 0 /\ fd'[t] = tmp' /\ disk'[tmp'] = Blank
    BY <1>1, <1>2, <1>7, <2>1 DEF IInv, TypeOK
  <2>4. tmp' # file' /\ (file' # 0 => disk'[file'] = disk[file])
    BY <1>1, <1>2, <1>7, <2>1 DEF IInv, TypeOK
  <2>. QED
    BY <1>2, <1>6, <2>1, <2>2, <2>3, <2>4 DEF IInv, AloneInv
<1>9. SavedInv'
  <2>1. Pending => Pending'
    BY <1>2 DEF IInv, TypeOK, Pending
  <2>2. Persisting(t)
    BY <1>2 DEF Persisting
  <2>. QED
    BY <1>2, <1>6, <2>1, <2>2 DEF IInv, SavedInv, Idle
<1>. QED
  BY <1>3, <1>4, <1>5, <1>8, <1>9 DEF IInv

LEMMA WriteStep ==
  ASSUME IInv, NEW t \in Threads, PersistWrite(t)
  PROVE  IInv'
<1>. DEFINE open == [fd EXCEPT ![t] = 0]
<1>1. PICK c \in IF disk[fd[t]] = Blank THEN {Json(snap[t])} ELSE {Json(snap[t]), Torn} :
        disk' = Reclaimed([disk EXCEPT ![fd[t]] = c], {tmp, file}, open)
  BY DEF PersistWrite
<1>2. /\ pc[t] = "write" /\ pc' = [pc EXCEPT ![t] = "replace"]
      /\ fd' = open
      /\ UNCHANGED <<entries, lock, snap, tmp, file, recorded, degraded, overlapped>>
  BY DEF PersistWrite, memory
<1>3. /\ snap[t] \in Seq(Nat) /\ recorded \in Nat
      /\ c \in Contents /\ c.rows \in {snap[t], <<>>}
      /\ disk \in [Inodes -> Contents]
  BY <1>1, ContentsTyped DEF IInv, TypeOK, Contents
<1>. DEFINE written == [disk EXCEPT ![fd[t]] = c]
<1>4. written \in [Inodes -> Contents] /\ \A i \in Inodes : written[i] \in {disk[i], c}
  BY <1>3
<1>5. /\ disk' \in [Inodes -> Contents]
      /\ \A i \in Inodes : disk'[i] \in {written[i], Blank}
      /\ \A i \in Inodes : i \in {tmp, file} => disk'[i] = written[i]
  <2>. HIDE DEF written, open
  <2>1. disk' = Reclaimed(written, {tmp, file}, open)
    BY <1>1 DEF written
  <2>. QED
    BY <2>1, <1>4, ReclaimedType, ReclaimedOr, NamedKept
<1>6. TypeOK'
  BY <1>2, <1>5 DEF IInv, TypeOK, Contents
<1>7. OrderInv'
  <2>1. Ordered(c.rows, recorded) /\ Ordered(Blank.rows, recorded)
    BY <1>3, EmptyOrdered, ContentsTyped DEF IInv, OrderInv
  <2>2. \A i \in Inodes : Ordered(disk'[i].rows, recorded)
    BY <1>4, <1>5, <2>1 DEF IInv, OrderInv
  <2>. QED
    BY <1>2, <2>2 DEF IInv, OrderInv
<1>8. LockedViewCapped'
  BY <1>2 DEF IInv, LockedViewCapped
<1>9. \A u \in Threads : Persisting(u)' <=> Persisting(u)
  BY <1>2 DEF IInv, TypeOK, Persisting
<1>10. AloneInv'
  <2>. SUFFICES ASSUME ~overlapped' PROVE AloneInv'
    BY DEF AloneInv
  <2>1. ~overlapped /\ Persisting(t)
    BY <1>2 DEF Persisting
  <2>2. \A u \in Threads : pc'[u] \in {"write", "replace"} => u = t /\ pc'[u] = "replace"
    BY <1>2, <2>1 DEF IInv, AloneInv, TypeOK, Persisting
  <2>3. tmp # 0 /\ tmp \in Inodes /\ fd[t] = tmp /\ disk[tmp] = Blank /\ tmp # file
    BY <1>2, <2>1 DEF IInv, AloneInv, TypeOK
  <2>4. written[tmp] = Json(snap[t])
    BY <1>1, <1>3, <2>3
  <2>5. disk'[tmp'] = Json(snap'[t]) /\ tmp' # 0
    BY <1>2, <1>5, <2>3, <2>4
  <2>6. file # 0 => file \in Inodes /\ written[file] = disk[file]
    BY <1>3, <2>3 DEF IInv, TypeOK
  <2>7. file' # 0 => disk'[file'] = disk[file]
    BY <1>2, <1>5, <2>6
  <2>. QED
    BY <1>2, <1>9, <2>1, <2>2, <2>5, <2>7 DEF IInv, AloneInv
<1>11. SavedInv'
  <2>1. Pending => Pending'
    BY <1>2 DEF IInv, TypeOK, Pending
  <2>2. Persisting(t)
    BY <1>2 DEF Persisting
  <2>. QED
    BY <1>2, <1>9, <2>1, <2>2 DEF IInv, SavedInv, Idle
<1>. QED
  BY <1>6, <1>7, <1>8, <1>10, <1>11 DEF IInv

LEMMA ReplaceStep ==
  ASSUME IInv, NEW t \in Threads, PersistReplace(t)
  PROVE  IInv'
<1>1. \/ /\ tmp # 0 /\ file' = tmp /\ tmp' = 0 /\ degraded' = FALSE
         /\ disk' = Reclaimed(disk, {tmp}, fd)
      \/ tmp = 0 /\ degraded' = TRUE /\ UNCHANGED <<tmp, file, disk>>
  BY DEF PersistReplace, disks
<1>2. /\ pc[t] = "replace" /\ pc' = [pc EXCEPT ![t] = "idle"]
      /\ snap' = [snap EXCEPT ![t] = <<>>]
      /\ UNCHANGED <<entries, lock, fd, recorded, overlapped>>
  BY DEF PersistReplace, memory
<1>3. disk \in [Inodes -> Contents] /\ tmp \in Inodes \cup {0} /\ recorded \in Nat
  BY DEF IInv, TypeOK, Contents
<1>4. /\ disk' \in [Inodes -> Contents]
      /\ \A i \in Inodes : disk'[i] \in {disk[i], Blank}
      /\ tmp # 0 => disk'[tmp] = disk[tmp]
  BY <1>1, <1>3, ReclaimedType, ReclaimedOr, NamedKept
<1>5. TypeOK'
  <2>1. <<>> \in Seq(Nat) /\ snap' \in [Threads -> Seq(Nat)] /\ degraded' \in BOOLEAN
    BY <1>1, <1>2, EmptySeq DEF IInv, TypeOK
  <2>2. tmp' \in Inodes \cup {0} /\ file' \in Inodes \cup {0}
    BY <1>1, <1>3 DEF IInv, TypeOK
  <2>. QED
    BY <1>2, <1>4, <2>1, <2>2 DEF IInv, TypeOK, Contents
<1>6. OrderInv'
  BY <1>2, <1>3, <1>4, EmptyOrdered, ContentsTyped DEF IInv, TypeOK, OrderInv
<1>7. LockedViewCapped'
  BY <1>2 DEF IInv, LockedViewCapped
<1>8. \A u \in Threads : u # t => pc'[u] = pc[u]
  BY <1>2 DEF IInv, TypeOK
<1>9. Persisting(t) /\ pc'[t] = "idle"
  BY <1>2 DEF IInv, TypeOK, Persisting
<1>10. ASSUME ~overlapped
       PROVE  /\ \A u \in Threads : pc'[u] \notin {"open", "write", "replace"}
              /\ tmp # 0 /\ disk[tmp] = Json(snap[t])
  BY <1>2, <1>8, <1>9, <1>10 DEF IInv, AloneInv, Persisting
<1>11. ASSUME ~overlapped
       PROVE  /\ file' = tmp /\ tmp' = 0 /\ file' # 0 /\ snap[t] \in Seq(Nat)
              /\ disk'[file'].kind = "json" /\ disk'[file'].rows = snap[t]
  BY <1>1, <1>4, <1>10, <1>11, ContentsTyped DEF IInv, TypeOK
<1>12. AloneInv'
  BY <1>2, <1>10, <1>11 DEF AloneInv, Persisting
<1>13. SavedInv'
  <2>. SUFFICES ASSUME ~overlapped', ~Pending' PROVE Load' = entries'
    BY <1>2, <1>10 DEF SavedInv, Idle, Persisting
  <2>1. ~overlapped /\ ~Pending
    BY <1>2, <1>8 DEF Pending
  <2>2. snap[t] = entries
    BY <1>9, <2>1 DEF IInv, SavedInv, AloneInv, Idle
  <2>3. Len(entries) <= MAX_ENTRIES
    BY <2>1 DEF IInv, TypeOK, LockedViewCapped, Pending
  <2>. QED
    BY <1>2, <1>11, <2>1, <2>2, <2>3, NewestSame DEF Load, LoadFrom
<1>. QED
  BY <1>5, <1>6, <1>7, <1>12, <1>13 DEF IInv

\* A write that stops halfway leaves every other inode alone, and no rows.
LEMMA HalfwayInodes ==
  ASSUME TypeOK, NEW W \in SUBSET Threads
  PROVE  /\ Halfway(W) \in [Inodes -> Contents]
         /\ \A i \in Inodes : Halfway(W)[i] \in {disk[i], Torn}
         /\ \A i \in Inodes :
              (\A t \in W : pc[t] = "write" => fd[t] # i) => Halfway(W)[i] = disk[i]
BY ContentsTyped DEF TypeOK, Halfway, Contents

\* Without an overlap, whoever writes does not write into the history file.
LEMMA FileUntouched ==
  ASSUME IInv, ~overlapped, file # 0, NEW W \in SUBSET Threads
  PROVE  Halfway(W)[file] = disk[file]
<1>1. \A t \in W : pc[t] = "write" => fd[t] # file
  BY DEF IInv, AloneInv
<1>. QED
  BY <1>1, HalfwayInodes DEF IInv, TypeOK

LEMMA FailsStep ==
  ASSUME IInv, NEW t \in Threads, PersistFails(t)
  PROVE  IInv'
<1>1. PICK W \in SUBSET {t} :
        disk' = Reclaimed(Halfway(W), {tmp, file}, [fd EXCEPT ![t] = 0])
  BY DEF PersistFails
<1>2. /\ Persisting(t) /\ pc' = [pc EXCEPT ![t] = "idle"] /\ degraded' = TRUE
      /\ snap' = [snap EXCEPT ![t] = <<>>] /\ fd' = [fd EXCEPT ![t] = 0]
      /\ UNCHANGED <<entries, lock, tmp, file, recorded, overlapped>>
  BY DEF PersistFails, memory
<1>3. file \in Inodes \cup {0} /\ recorded \in Nat /\ W \in SUBSET Threads
  BY DEF IInv, TypeOK
<1>4. /\ Halfway(W) \in [Inodes -> Contents]
      /\ \A i \in Inodes : Halfway(W)[i] \in {disk[i], Torn}
  BY <1>3, HalfwayInodes DEF IInv
<1>5. /\ disk' \in [Inodes -> Contents]
      /\ \A i \in Inodes : disk'[i] \in {Halfway(W)[i], Blank}
      /\ file # 0 => disk'[file] = Halfway(W)[file]
  BY <1>1, <1>3, <1>4, ReclaimedType, ReclaimedOr, NamedKept
<1>6. TypeOK'
  <2>1. <<>> \in Seq(Nat) /\ snap' \in [Threads -> Seq(Nat)]
    BY <1>2, EmptySeq DEF IInv, TypeOK
  <2>. QED
    BY <1>2, <1>5, <2>1 DEF IInv, TypeOK, Contents, Persisting
<1>7. OrderInv'
  <2>1. Ordered(Torn.rows, recorded) /\ Ordered(Blank.rows, recorded)
    BY <1>3, EmptyOrdered, ContentsTyped
  <2>2. \A i \in Inodes : Ordered(disk'[i].rows, recorded)
    BY <1>4, <1>5, <2>1 DEF IInv, OrderInv
  <2>. QED
    BY <1>2, <1>3, <2>2, EmptyOrdered DEF IInv, TypeOK, OrderInv
<1>8. LockedViewCapped'
  BY <1>2 DEF IInv, LockedViewCapped
<1>9. ~overlapped => \A u \in Threads : pc'[u] \notin {"open", "write", "replace"}
  BY <1>2 DEF IInv, TypeOK, AloneInv, Persisting
<1>10. ~overlapped /\ file # 0 => disk'[file] = disk[file]
  BY <1>3, <1>5, FileUntouched
<1>11. AloneInv'
  BY <1>2, <1>9, <1>10 DEF IInv, AloneInv, Persisting
<1>12. SavedInv'
  BY <1>2, <1>9 DEF SavedInv, Idle, Persisting
<1>. QED
  BY <1>6, <1>7, <1>8, <1>11, <1>12 DEF IInv

\* _load slices what it reads, and a named inode survives the restart.
LEMMA RestartStep ==
  ASSUME IInv, Restart
  PROVE  IInv'
<1>1. PICK W \in SUBSET Threads :
        /\ entries' = LoadFrom(Halfway(W))
        /\ disk' = Reclaimed(Halfway(W), {tmp, file}, [t \in Threads |-> 0])
  BY DEF Restart
<1>2. /\ lock' = NoThread /\ pc' = [t \in Threads |-> "idle"]
      /\ snap' = [t \in Threads |-> <<>>] /\ fd' = [t \in Threads |-> 0]
      /\ degraded' = FALSE /\ UNCHANGED <<tmp, file, recorded, overlapped>>
  BY DEF Restart
<1>3. file \in Inodes \cup {0} /\ recorded \in Nat
  BY DEF IInv, TypeOK
<1>4. /\ Halfway(W) \in [Inodes -> Contents]
      /\ \A i \in Inodes : Halfway(W)[i] \in {disk[i], Torn}
  BY HalfwayInodes DEF IInv
<1>5. /\ disk' \in [Inodes -> Contents]
      /\ \A i \in Inodes : disk'[i] \in {Halfway(W)[i], Blank}
      /\ file # 0 => disk'[file] = Halfway(W)[file]
  <2>. DEFINE closed == [t \in Threads |-> 0]
  <2>1. disk' = Reclaimed(Halfway(W), {tmp, file}, closed)
    BY <1>1
  <2>. HIDE DEF closed
  <2>. QED
    BY <2>1, <1>3, <1>4, ReclaimedType, ReclaimedOr, NamedKept
<1>6. \A i \in Inodes : /\ Ordered(Halfway(W)[i].rows, recorded)
                        /\ Ordered(disk'[i].rows, recorded)
  <2>1. Ordered(Torn.rows, recorded) /\ Ordered(Blank.rows, recorded)
    BY <1>3, EmptyOrdered, ContentsTyped
  <2>. QED
    BY <1>4, <1>5, <2>1 DEF IInv, OrderInv
<1>7. Ordered(entries', recorded) /\ Len(entries') <= MAX_ENTRIES
  <2>1. CASE entries' = <<>>
    BY <1>3, <2>1, EmptyOrdered
  <2>2. CASE file # 0 /\ entries' = Newest(Halfway(W)[file].rows)
    BY <1>3, <1>6, <2>2, NewestOrdered
  <2>. QED
    BY <1>1, <2>1, <2>2 DEF LoadFrom
<1>8. Load' = entries'
  BY <1>1, <1>2, <1>5 DEF Load, LoadFrom
<1>9. TypeOK'
  <2>1. <<>> \in Seq(Nat) /\ snap' \in [Threads -> Seq(Nat)] /\ entries' \in Seq(Nat)
    BY <1>2, <1>7, EmptySeq DEF Ordered
  <2>. QED
    BY <1>2, <1>5, <2>1 DEF IInv, TypeOK, Contents
<1>10. OrderInv'
  BY <1>2, <1>3, <1>6, <1>7, EmptyOrdered DEF OrderInv
<1>11. LockedViewCapped'
  BY <1>7 DEF LockedViewCapped, Ordered
<1>12. \A t \in Threads : ~Persisting(t)' /\ pc'[t] = "idle"
  BY <1>2 DEF Persisting
<1>13. ~overlapped /\ file # 0 => disk'[file] = disk[file]
  BY <1>5, FileUntouched
<1>14. AloneInv'
  BY <1>2, <1>12, <1>13 DEF IInv, AloneInv
<1>15. SavedInv'
  BY <1>8, <1>12 DEF SavedInv, Idle
<1>. QED
  BY <1>7, <1>9, <1>10, <1>11, <1>14, <1>15 DEF IInv

LEMMA NextIInv == IInv /\ [Next]_vars => IInv'
<1>. SUFFICES ASSUME IInv, [Next]_vars PROVE IInv'
  OBVIOUS
<1>1. ASSUME NEW t \in Threads, RecordAppend(t) \/ Clear(t) \/ Step(t) PROVE IInv'
  BY <1>1, AppendStep, ClearStep, TrimStep, SnapshotStep, OpenStep, WriteStep,
     ReplaceStep, FailsStep DEF Step
<1>2. CASE Restart
  BY <1>2, RestartStep
<1>3. CASE UNCHANGED vars
  BY <1>3 DEF vars, IInv, TypeOK, LockedViewCapped, OrderInv, AloneInv, SavedInv,
              Pending, Idle, Persisting, Load, LoadFrom
<1>. QED
  BY <1>1, <1>2, <1>3 DEF Next

-----------------------------------------------------------------------------
(***************************************************************************)
(* The theorems.                                                           *)
(***************************************************************************)
\* The strengthening holds in every reachable state.
THEOREM Strengthened == Spec => []IInv
BY InitIInv, NextIInv, PTL DEF Spec

\* The ledger keeps its types, and the holder of the mutex is in the middle of
\* record().
THEOREM TypeCorrect == Spec => []TypeOK
<1>1. IInv => TypeOK
  BY DEF IInv
<1>. QED
  BY <1>1, Strengthened, PTL

\* Whoever takes the mutex sees a list within MAX_ENTRIES.
THEOREM MutexGuardsTheCap == Spec => []LockedViewCapped
<1>1. IInv => LockedViewCapped
  BY DEF IInv
<1>. QED
  BY <1>1, Strengthened, PTL

\* Neither the list nor a file ever shows a query twice or out of order, with any
\* number of threads writing over each other, failing and restarting.
THEOREM OrderIsKept == Spec => []HistoryInOrder
<1>1. IInv => HistoryInOrder
  BY DEF IInv, OrderInv, Ordered, HistoryInOrder
<1>. QED
  BY <1>1, Strengthened, PTL

\* Without an overlap the history file parses at every moment, also in the
\* middle of a write and after a crash or a failed write.
THEOREM FileParses == Spec => []FileIntact
<1>1. IInv => FileIntact
  BY DEF IInv, AloneInv, FileIntact
<1>. QED
  BY <1>1, Strengthened, PTL

\* Without an overlap, a restart between two calls loses nothing.
THEOREM RestartFindsTheList == Spec => []QuietMeansSaved
<1>1. IInv => QuietMeansSaved
  BY DEF IInv, SavedInv, QuietMeansSaved, Quiet, Pending, Persisting
<1>. QED
  BY <1>1, Strengthened, PTL

\* The history is kept, whatever the threads, the disk and restarts do: the list
\* that is shown always, and its copy in the file until two persists overlap (the
\* theorems above in one).
THEOREM TheHistoryIsKept == Spec => []HistoryIsKept
<1>1. TypeOK /\ LockedViewCapped /\ HistoryInOrder => ListIsKept
  BY DEF ListIsKept
<1>2. FileIntact /\ QuietMeansSaved => FileIsKept
  BY DEF FileIsKept
<1>3. ListIsKept /\ FileIsKept => HistoryIsKept
  BY DEF HistoryIsKept
<1>. QED
  BY <1>1, <1>2, <1>3, TypeCorrect, MutexGuardsTheCap, OrderIsKept, FileParses,
     RestartFindsTheList, PTL

-----------------------------------------------------------------------------
(***************************************************************************)
(* The ledger implements SavedList.                                        *)
(***************************************************************************)
List == Newest(entries)

Same ==
  /\ List' = List /\ recorded' = recorded /\ Copies' = Copies /\ Load' = Load
  /\ overlapped' = overlapped

SavedStep == [Saved!Next]_<<List, recorded, Copies, Load, overlapped>>

LEMMA Stutter == Same => SavedStep
BY Zenon DEF Same, SavedStep

LEMMA HistoryIs ==
  ASSUME NEW s, recorded \in Nat
  PROVE  Ordered(s, recorded) /\ Len(s) <= MAX_ENTRIES <=> Saved!IsHistory(s)
BY DEF Ordered, Increasing, Saved!IsHistory

LEMMA LoadIsHistory ==
  ASSUME IInv
  PROVE  Saved!IsHistory(Load)
<1>1. file \in Inodes \cup {0} /\ recorded \in Nat
  BY DEF IInv, TypeOK
<1>2. CASE Load = <<>>
  <2>1. Ordered(<<>>, recorded)
    BY <1>1, EmptyOrdered
  <2>2. Len(<<>>) <= MAX_ENTRIES
    <3>1. Len(<<>>) = 0
      BY SMT
    <3>2. 0 <= MAX_ENTRIES
      BY LedgerAssumption, SMT
    <3>. QED
      BY <3>1, <3>2, Zenon
  <2>. QED
    BY <1>1, <1>2, <2>1, <2>2, HistoryIs, Zenon
<1>3. CASE file # 0 /\ Load = Newest(disk[file].rows)
  BY <1>1, <1>3, NewestOrdered, HistoryIs DEF IInv, OrderInv
<1>. QED
  BY <1>2, <1>3 DEF Load, LoadFrom

LEMMA ListIsHistory ==
  ASSUME IInv
  PROVE  Saved!IsHistory(List) /\ (Len(entries) <= MAX_ENTRIES => List = entries)
BY NewestOrdered, NewestSame, HistoryIs DEF IInv, TypeOK, OrderInv, List

\* What is loaded depends on the inode of the history file alone.
LEMMA LoadSame ==
  ASSUME file' = file, file # 0 => disk'[file] = disk[file]
  PROVE  Load' = Load
BY DEF Load, LoadFrom

\* Nobody begins or ends a persist: the copies are the same.
LEMMA CopiesSame ==
  ASSUME \A u \in Threads : Persisting(u)' <=> Persisting(u),
         \A u \in Threads : Persisting(u) => snap'[u] = snap[u]
  PROVE  Copies' = Copies
<1>1. \A u \in Threads : Persisting(u) => Newest(snap[u])' = Newest(snap[u])
  BY Zenon DEF Newest
<1>2. \A c : c \in Copies' <=> \E u \in Threads : Persisting(u)' /\ c = Newest(snap[u])'
  BY Zenon DEF Copies
<1>3. \A c : c \in Copies <=> \E u \in Threads : Persisting(u) /\ c = Newest(snap[u])
  BY Zenon DEF Copies
<1>4. \A c : c \in Copies' <=> c \in Copies
  BY <1>1, <1>2, <1>3, Zenon
<1>. QED
  BY <1>4, Zenon

\* A persist ends: no copy is new, and without an overlap none is left.
LEMMA CopiesFewer ==
  ASSUME IInv, NEW t \in Threads, Persisting(t), ~Persisting(t)',
         \A u \in Threads : u # t => pc'[u] = pc[u] /\ snap'[u] = snap[u]
  PROVE  /\ Copies' \in SUBSET Copies
         /\ ~overlapped => Copies' = {} /\ Copies = {Newest(snap[t])}
<1>1. \A u \in Threads : Persisting(u)' => u # t /\ Persisting(u) /\ Newest(snap[u])' = Newest(snap[u])
  BY Zenon DEF Persisting, Newest
<1>2. Copies' \in SUBSET Copies
  BY <1>1, Zenon DEF Copies
<1>3. ASSUME ~overlapped PROVE Copies' = {} /\ Copies = {Newest(snap[t])}
  <2>1. \A u \in Threads : Persisting(u) => u = t
    BY <1>3, Zenon DEF IInv, AloneInv
  <2>. QED
    BY <1>1, <2>1, Zenon DEF Copies
<1>. QED
  BY <1>2, <1>3, Zenon

LEMMA SavedInit == Init => Saved!Init
<1>. SUFFICES ASSUME Init PROVE Saved!Init
  OBVIOUS
<1>1. Newest(entries) = <<>> /\ recorded = 0 /\ Load = <<>> /\ overlapped = FALSE
  BY DEF Init, Newest, Load, LoadFrom
<1>2. Copies = {}
  BY DEF Init, Copies, Persisting
<1>. QED
  BY <1>1, <1>2, Zenon DEF Saved!Init

LEMMA AppendSaved ==
  ASSUME IInv, NEW t \in Threads, RecordAppend(t)
  PROVE  SavedStep
<1>1. /\ lock = NoThread /\ recorded' = recorded + 1 /\ entries' = Append(entries, recorded + 1)
      /\ pc[t] = "idle" /\ pc' = [pc EXCEPT ![t] = "trim"]
      /\ UNCHANGED <<snap, tmp, file, disk, overlapped>>
  BY DEF RecordAppend, disks
<1>2. Copies' = Copies
  BY <1>1, CopiesSame DEF IInv, TypeOK, Persisting
<1>3. List = entries
  BY <1>1, ListIsHistory DEF IInv, LockedViewCapped
<1>4. List' = Saved!Newest(Append(List, recorded + 1))
  BY <1>1, <1>3 DEF List, Newest, Saved!Newest
<1>5. Load' = Load
  BY <1>1, LoadSame
<1>6. Saved!Record
  BY <1>1, <1>2, <1>4, <1>5, Zenon DEF Saved!Record, List
<1>. QED
  BY <1>6, Zenon DEF SavedStep, Saved!Next

LEMMA TrimSaved ==
  ASSUME IInv, NEW t \in Threads, RecordTrim(t)
  PROVE  SavedStep
<1>1. /\ entries' = Newest(entries) /\ pc[t] = "trim" /\ pc' = [pc EXCEPT ![t] = "snapshot"]
      /\ UNCHANGED <<snap, tmp, file, disk, recorded, overlapped>>
  BY DEF RecordTrim, disks
<1>2. Copies' = Copies
  BY <1>1, CopiesSame DEF IInv, TypeOK, Persisting
<1>3. Newest(Newest(entries)) = Newest(entries)
  BY NewestOrdered, NewestSame DEF IInv, OrderInv, TypeOK, Ordered
<1>4. List' = List
  BY <1>1, <1>3 DEF List, Newest
<1>5. Load' = Load
  BY <1>1, LoadSame
<1>. QED
  BY <1>1, <1>2, <1>4, <1>5, Stutter DEF Same

LEMMA ClearSaved ==
  ASSUME IInv, NEW t \in Threads, Clear(t)
  PROVE  SavedStep
<1>1. /\ entries' = <<>> /\ pc[t] = "idle" /\ pc' = [pc EXCEPT ![t] = "snapshot"]
      /\ UNCHANGED <<snap, tmp, file, disk, recorded, overlapped>>
  BY DEF Clear, disks
<1>2. Copies' = Copies
  BY <1>1, CopiesSame DEF IInv, TypeOK, Persisting
<1>4. List' = <<>>
  BY <1>1 DEF List, Newest
<1>5. Load' = Load
  BY <1>1, LoadSame
<1>6. Saved!Clear
  BY <1>1, <1>2, <1>4, <1>5, Zenon DEF Saved!Clear, List
<1>. QED
  BY <1>6, Zenon DEF SavedStep, Saved!Next

LEMMA SnapshotSaved ==
  ASSUME IInv, NEW t \in Threads, PersistSnapshot(t)
  PROVE  SavedStep
<1>1. /\ pc[t] = "snapshot" /\ snap' = [snap EXCEPT ![t] = entries]
      /\ overlapped' = (overlapped \/ \E u \in Threads : Persisting(u))
      /\ pc' = [pc EXCEPT ![t] = "open"]
      /\ UNCHANGED <<entries, tmp, file, disk, recorded>>
  BY DEF PersistSnapshot, disks, memory
<1>2. /\ \A u \in Threads : u # t => (Persisting(u)' <=> Persisting(u)) /\ snap'[u] = snap[u]
      /\ Persisting(t)' /\ ~Persisting(t) /\ snap'[t] = entries
  BY <1>1 DEF IInv, TypeOK, Persisting
<1>3. \A u \in Threads : u # t => Newest(snap[u])' = Newest(snap[u])
  BY <1>2, Zenon DEF Newest
<1>4. Newest(snap[t])' = List
  BY <1>2, Zenon DEF Newest, List
<1>5. \A c : c \in Copies' <=> c \in Copies \cup {List}
  BY <1>2, <1>3, <1>4, Zenon DEF Copies
<1>6. Copies' = Copies \cup {List}
  BY <1>5, Zenon
<1>7. (\E u \in Threads : Persisting(u)) <=> Copies # {}
  BY Zenon DEF Copies
<1>8. overlapped' = (overlapped \/ Copies # {})
  <2>1. (\E u \in Threads : Persisting(u)) = (Copies # {})
    BY <1>7
  <2>. QED
    BY <1>1, <2>1, Zenon
<1>9. Load' = Load /\ List' = List
  BY <1>1, LoadSame DEF List, Newest
<1>10. Saved!Copy
  BY <1>1, <1>6, <1>8, <1>9, Zenon DEF Saved!Copy, List
<1>. QED
  BY <1>10, Zenon DEF SavedStep, Saved!Next

\* Once two persists have overlapped, a step that leaves the list alone may leave
\* any history on disk.
LEMMA GarbleSaved ==
  ASSUME IInv', overlapped, UNCHANGED <<entries, recorded, overlapped>>, Copies' \in SUBSET Copies
  PROVE  SavedStep
<1>1. Saved!IsHistory(Load)'
  BY LoadIsHistory, PTL
<1>2. List' = List
  BY Zenon DEF List, Newest
<1>3. Saved!Garble
  BY <1>1, <1>2, Zenon DEF Saved!Garble, Saved!IsHistory, List
<1>. QED
  BY <1>3, Zenon DEF SavedStep, Saved!Next
LEMMA OpenSaved ==
  ASSUME IInv, NEW t \in Threads, PersistOpen(t)
  PROVE  SavedStep
<1>1. PICK i \in Inodes :
        /\ IF tmp # 0 THEN i = tmp ELSE i \notin InUse
        /\ disk' = [disk EXCEPT ![i] = Blank]
  BY DEF PersistOpen
<1>2. /\ pc[t] = "open" /\ pc' = [pc EXCEPT ![t] = "write"]
      /\ UNCHANGED <<entries, snap, file, recorded, overlapped>>
  BY DEF PersistOpen, memory
<1>3. Copies' = Copies
  BY <1>2, CopiesSame DEF IInv, TypeOK, Persisting
<1>4. CASE overlapped
  BY <1>2, <1>3, <1>4, OpenStep, GarbleSaved, Zenon
<1>5. CASE ~overlapped
  <2>1. i # file
    BY <1>1, <1>5 DEF InUse, IInv, AloneInv
  <2>2. file # 0 => disk'[file] = disk[file]
    BY <1>1, <2>1 DEF IInv, TypeOK
  <2>3. Load' = Load /\ List' = List
    BY <1>2, <2>2, LoadSame DEF List, Newest
  <2>. QED
    BY <1>2, <1>3, <2>3, Stutter DEF Same
<1>. QED
  BY <1>4, <1>5

LEMMA WriteSaved ==
  ASSUME IInv, NEW t \in Threads, PersistWrite(t)
  PROVE  SavedStep
<1>. DEFINE open == [fd EXCEPT ![t] = 0]
<1>1. PICK c : disk' = Reclaimed([disk EXCEPT ![fd[t]] = c], {tmp, file}, open)
  BY DEF PersistWrite
<1>2. /\ pc[t] = "write" /\ pc' = [pc EXCEPT ![t] = "replace"]
      /\ UNCHANGED <<entries, snap, tmp, file, recorded, overlapped>>
  BY DEF PersistWrite, memory
<1>3. Copies' = Copies
  BY <1>2, CopiesSame DEF IInv, TypeOK, Persisting
<1>4. CASE overlapped
  BY <1>2, <1>3, <1>4, WriteStep, GarbleSaved, Zenon
<1>5. CASE ~overlapped
  <2>. DEFINE written == [disk EXCEPT ![fd[t]] = c]
  <2>1. file # 0 => file \in Inodes /\ written[file] = disk[file]
    BY <1>2, <1>5 DEF IInv, TypeOK, AloneInv
  <2>2. file # 0 => disk'[file] = written[file]
    <3>. HIDE DEF written, open
    <3>1. disk' = Reclaimed(written, {tmp, file}, open)
      BY <1>1 DEF written
    <3>. QED
      BY <2>1, <3>1, NamedKept
  <2>3. Load' = Load /\ List' = List
    BY <1>2, <2>1, <2>2, LoadSame DEF List, Newest
  <2>. QED
    BY <1>2, <1>3, <2>3, Stutter DEF Same
<1>. QED
  BY <1>4, <1>5

LEMMA ReplaceSaved ==
  ASSUME IInv, NEW t \in Threads, PersistReplace(t)
  PROVE  SavedStep
<1>1. \/ /\ tmp # 0 /\ file' = tmp /\ disk' = Reclaimed(disk, {tmp}, fd)
      \/ tmp = 0 /\ UNCHANGED <<tmp, file, disk>>
  BY DEF PersistReplace, disks
<1>2. /\ pc[t] = "replace" /\ pc' = [pc EXCEPT ![t] = "idle"]
      /\ snap' = [snap EXCEPT ![t] = <<>>]
      /\ UNCHANGED <<entries, recorded, overlapped>>
  BY DEF PersistReplace, memory
<1>3. /\ Persisting(t) /\ ~Persisting(t)'
      /\ \A u \in Threads : u # t => pc'[u] = pc[u] /\ snap'[u] = snap[u]
  BY <1>2 DEF IInv, TypeOK, Persisting
<1>4. Copies' \in SUBSET Copies /\ (~overlapped => Copies' = {} /\ Copies = {Newest(snap[t])})
  BY <1>3, CopiesFewer, Zenon
<1>5. CASE overlapped
  BY <1>2, <1>4, <1>5, ReplaceStep, GarbleSaved, Zenon
<1>6. CASE ~overlapped
  <2>1. tmp # 0 /\ tmp \in Inodes /\ disk[tmp] = Json(snap[t]) /\ snap[t] \in Seq(Nat)
    BY <1>2, <1>6 DEF IInv, TypeOK, AloneInv
  <2>2. file' = tmp /\ disk'[file'] = Json(snap[t])
    BY <1>1, <2>1, NamedKept
  <2>3. Load' = Newest(snap[t])
    BY <2>1, <2>2, ContentsTyped DEF Load, LoadFrom, Newest
  <2>4. List' = List
    BY <1>2, Zenon DEF List, Newest
  <2>5. Saved!Save
    BY <1>2, <1>4, <1>6, <2>3, <2>4, Zenon DEF Saved!Save, List
  <2>. QED
    BY <2>5, Zenon DEF SavedStep, Saved!Next
<1>. QED
  BY <1>5, <1>6

LEMMA FailsSaved ==
  ASSUME IInv, NEW t \in Threads, PersistFails(t)
  PROVE  SavedStep
<1>. DEFINE open == [fd EXCEPT ![t] = 0]
<1>1. PICK W \in SUBSET {t} : disk' = Reclaimed(Halfway(W), {tmp, file}, open)
  BY DEF PersistFails
<1>2. /\ Persisting(t) /\ pc' = [pc EXCEPT ![t] = "idle"]
      /\ snap' = [snap EXCEPT ![t] = <<>>]
      /\ UNCHANGED <<entries, tmp, file, recorded, overlapped>>
  BY DEF PersistFails, memory
<1>3. /\ Persisting(t) /\ ~Persisting(t)'
      /\ \A u \in Threads : u # t => pc'[u] = pc[u] /\ snap'[u] = snap[u]
  BY <1>2 DEF IInv, TypeOK, Persisting
<1>4. Copies' \in SUBSET Copies /\ (~overlapped => Copies' = {} /\ Copies = {Newest(snap[t])})
  BY <1>3, CopiesFewer, Zenon
<1>5. CASE overlapped
  BY <1>2, <1>4, <1>5, FailsStep, GarbleSaved, Zenon
<1>6. CASE ~overlapped
  <2>1. file # 0 => file \in Inodes /\ Halfway(W)[file] = disk[file]
    BY <1>6, FileUntouched DEF IInv, TypeOK
  <2>2. file # 0 => disk'[file] = Halfway(W)[file]
    <3>. HIDE DEF open
    <3>. QED
      BY <1>1, <2>1, FileKept, Zenon
  <2>3. Load' = Load /\ List' = List
    BY <1>2, <2>1, <2>2, LoadSame DEF List, Newest
  <2>4. Saved!Lose
    BY <1>2, <1>4, <1>6, <2>3, Zenon DEF Saved!Lose, List
  <2>. QED
    BY <2>4, Zenon DEF SavedStep, Saved!Next
<1>. QED
  BY <1>5, <1>6

LEMMA RestartSaved ==
  ASSUME IInv, Restart
  PROVE  SavedStep
<1>. DEFINE closed == [t \in Threads |-> 0]
<1>1. PICK W \in SUBSET Threads :
        entries' = LoadFrom(Halfway(W)) /\ disk' = Reclaimed(Halfway(W), {tmp, file}, closed)
  BY DEF Restart
<1>2. pc' = [t \in Threads |-> "idle"] /\ UNCHANGED <<tmp, file, recorded, overlapped>>
  BY DEF Restart
<1>3. Copies' = {}
  BY <1>2 DEF Copies, Persisting
<1>4. file # 0 => file \in Inodes /\ disk'[file] = Halfway(W)[file]
  <2>1. file # 0 => file \in Inodes
    BY DEF IInv, TypeOK
  <2>. HIDE DEF closed
  <2>. QED
    BY <1>1, <2>1, FileKept, Zenon
<1>5. Load' = entries'
  <2>. HIDE DEF closed
  <2>. QED
    BY <1>1, <1>2, <1>4 DEF Load, LoadFrom
<1>6. IInv'
  BY RestartStep
<1>7. Saved!IsHistory(Load)' /\ (Len(entries) <= MAX_ENTRIES => List = entries)'
  BY <1>6, LoadIsHistory, ListIsHistory, PTL
<1>8. List' = Load'
  <2>1. lock' = NoThread
    BY DEF Restart
  <2>. QED
    BY <1>5, <1>6, <1>7, <2>1 DEF IInv, LockedViewCapped
<1>9. ~overlapped => Load' = Load
  BY <1>2, <1>4, FileUntouched, LoadSame
<1>10. Saved!Crash
  BY <1>2, <1>3, <1>7, <1>8, <1>9, Zenon DEF Saved!Crash, Saved!IsHistory, List
<1>. QED
  BY <1>10, Zenon DEF SavedStep, Saved!Next

\* Until two persists overlap, a failure or a crash at any file-system call leaves
\* a restart the list of the last complete persist; after that, a history still.
THEOREM PersistIsAtomic == Spec => SavesAtomically
<1>1. ASSUME IInv, [Next]_vars PROVE SavedStep
  <2>1. ASSUME NEW t \in Threads, RecordAppend(t) \/ Clear(t) \/ Step(t) PROVE SavedStep
    BY <1>1, <2>1, AppendSaved, ClearSaved, TrimSaved, SnapshotSaved, OpenSaved, WriteSaved,
       ReplaceSaved, FailsSaved DEF Step
  <2>2. CASE Restart
    BY <1>1, <2>2, RestartSaved
  <2>3. CASE UNCHANGED vars
    <3>1. UNCHANGED <<entries, pc, snap, file, disk, recorded, overlapped>>
      BY <2>3 DEF vars
    <3>2. Copies' = Copies
      BY <3>1, CopiesSame DEF Persisting
    <3>3. Load' = Load /\ List' = List
      BY <3>1, LoadSame DEF List, Newest
    <3>. QED
      BY <3>1, <3>2, <3>3, Stutter DEF Same
  <2>. QED
    BY <1>1, <2>1, <2>2, <2>3 DEF Next
<1>2. IInv /\ [Next]_vars => [Saved!Next]_<<List, recorded, Copies, Load, overlapped>>
  BY <1>1, Zenon DEF SavedStep
<1>. QED
  BY <1>2, SavedInit, Strengthened, PTL DEF Spec, SavesAtomically, Saved!Spec, Saved!lvars, List

-----------------------------------------------------------------------------
(***************************************************************************)
(* What the promise amounts to, of any implementation: the list, the saved *)
(* list and the copies on their way are histories.                         *)
(***************************************************************************)
Capped(s, r) == Ordered(s, r) /\ Len(s) <= MAX_ENTRIES

PromiseInv ==
  /\ recorded \in Nat
  /\ Capped(List, recorded) /\ Capped(Load, recorded)
  /\ \A c \in Copies : Capped(c, recorded)

LEMMA CappedIs ==
  ASSUME NEW s, recorded \in Nat
  PROVE  Capped(s, recorded) <=> Saved!IsHistory(s)
BY HistoryIs DEF Capped

LEMMA EmptyCapped ==
  ASSUME NEW r \in Nat
  PROVE  Capped(<<>>, r)
<1>1. Len(<<>>) = 0
  BY SMT
<1>2. 0 <= MAX_ENTRIES
  BY LedgerAssumption, SMT
<1>3. Len(<<>>) <= MAX_ENTRIES
  BY <1>1, <1>2, Zenon
<1>. QED
  BY <1>3, EmptyOrdered DEF Capped

LEMMA CappedGrows ==
  ASSUME NEW s, NEW r \in Nat, Capped(s, r)
  PROVE  Capped(s, r + 1)
<1>1. s \in Seq(Nat) /\ \A i \in 1 .. Len(s) : s[i] \in Nat /\ s[i] <= r
  BY DEF Capped, Ordered
<1>2. \A i \in 1 .. Len(s) : s[i] <= r + 1
  BY <1>1
<1>. QED
  BY <1>2 DEF Capped, Ordered

LEMMA CappedAppend ==
  ASSUME NEW s, NEW r \in Nat, Capped(s, r)
  PROVE  Capped(Saved!Newest(Append(s, r + 1)), r + 1)
<1>1. Saved!Newest(Append(s, r + 1)) = Newest(Append(s, r + 1))
  BY Zenon DEF Saved!Newest, Newest
<1>2. Ordered(Append(s, r + 1), r + 1)
  BY AppendOrdered DEF Capped
<1>3. r + 1 \in Nat
  OBVIOUS
<1>. QED
  BY <1>1, <1>2, <1>3, NewestOrdered, Zenon DEF Capped

LEMMA PromiseStep ==
  ASSUME PromiseInv, SavedStep
  PROVE  PromiseInv'
<1>1. /\ recorded \in Nat /\ Capped(List, recorded) /\ Capped(Load, recorded)
      /\ \A c \in Copies : Capped(c, recorded)
  BY Zenon DEF PromiseInv
<1>2. SUFFICES /\ recorded' \in Nat /\ Capped(List', recorded') /\ Capped(Load', recorded')
               /\ \A c \in Copies' : Capped(c, recorded')
  BY Zenon DEF PromiseInv, Capped, Ordered, Increasing
<1>3. CASE Saved!Record
  <2>1. /\ recorded' = recorded + 1 /\ List' = Saved!Newest(Append(List, recorded + 1))
        /\ Copies' = Copies /\ Load' = Load
    BY <1>3, Zenon DEF Saved!Record, List
  <2>. QED
    BY <1>1, <2>1, CappedGrows, CappedAppend
<1>4. CASE Saved!Clear
  <2>1. List' = <<>> /\ recorded' = recorded /\ Copies' = Copies /\ Load' = Load
    BY <1>4, Zenon DEF Saved!Clear, List
  <2>2. Capped(<<>>, recorded)
    BY <1>1, EmptyCapped
  <2>. QED
    BY <1>1, <2>1, <2>2, Zenon
<1>5. CASE Saved!Copy
  <2>1. List' = List /\ recorded' = recorded /\ Copies' = Copies \cup {List} /\ Load' = Load
    BY <1>5, Zenon DEF Saved!Copy, List
  <2>. QED
    BY <1>1, <2>1, Zenon
<1>6. CASE Saved!Save
  <2>1. List' = List /\ recorded' = recorded /\ Copies' = {} /\ Load' \in Copies
    BY <1>6, Zenon DEF Saved!Save, List
  <2>. QED
    BY <1>1, <2>1, Zenon
<1>7. CASE Saved!Lose
  <2>1. List' = List /\ recorded' = recorded /\ Copies' = {} /\ Load' = Load
    BY <1>7, Zenon DEF Saved!Lose, List
  <2>. QED
    BY <1>1, <2>1, Zenon
<1>8. CASE Saved!Garble
  <2>1. List' = List /\ recorded' = recorded /\ Copies' \in SUBSET Copies
    BY <1>8, Zenon DEF Saved!Garble, List
  <2>2. Capped(Load', recorded)
    BY <1>1, <1>8, CappedIs DEF Saved!Garble
  <2>. QED
    BY <1>1, <2>1, <2>2, Zenon
<1>9. CASE Saved!Crash
  <2>1. List' = Load' /\ recorded' = recorded /\ Copies' = {}
    BY <1>9, Zenon DEF Saved!Crash, List
  <2>2. Capped(Load', recorded)
    BY <1>1, <1>9, CappedIs DEF Saved!Crash
  <2>. QED
    BY <1>1, <2>1, <2>2, Zenon
<1>10. CASE UNCHANGED <<List, recorded, Copies, Load, overlapped>>
  BY <1>1, <1>10
<1>. QED
  BY <1>3, <1>4, <1>5, <1>6, <1>7, <1>8, <1>9, <1>10, Zenon DEF SavedStep, Saved!Next

\* The abstract ledger, by itself: what is shown, what a restart finds and what
\* is on its way there are lists of recorded queries, in order, each once, capped.
THEOREM PromisedHistories == Saved!Spec => []Saved!Histories
<1>1. Saved!Init => PromiseInv
  <2>1. Saved!Init => recorded = 0 /\ List = <<>> /\ Load = <<>> /\ Copies = {}
    BY Zenon DEF Saved!Init, List
  <2>2. 0 \in Nat
    OBVIOUS
  <2>. QED
    BY <2>1, <2>2, EmptyCapped, Zenon DEF PromiseInv
<1>2. PromiseInv /\ [Saved!Next]_<<List, recorded, Copies, Load, overlapped>> => PromiseInv'
  BY PromiseStep, Zenon DEF SavedStep
<1>3. PromiseInv => Saved!Histories
  BY CappedIs, Zenon DEF PromiseInv, Saved!Histories, List
<1>. QED
  BY <1>1, <1>2, <1>3, PTL DEF Saved!Spec, Saved!lvars, List

=============================================================================
