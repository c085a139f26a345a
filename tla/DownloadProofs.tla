---------------------------- MODULE DownloadProofs ----------------------------
(***************************************************************************)
(* Theorems about download(): any hosts, honest or not, any contents, any  *)
(* number of jobs and connections that break anywhere.                     *)
(***************************************************************************)
EXTENDS Download, SequenceTheorems, FiniteSetTheorems, TLAPS

USE HostsAssumption, JobsAssumption, MarkersAssumption

(***************************************************************************)
(* A file.                                                                 *)
(***************************************************************************)

\* Max of two numbers.
LEMMA MaxOfTwo ==
  ASSUME NEW a \in Nat, NEW b \in Nat
  PROVE  Max({a, b}) = IF a >= b THEN a ELSE b
<1>1. \E x \in {a, b} : \A y \in {a, b} : x >= y
  OBVIOUS
<1>2. Max({a, b}) \in {a, b} /\ \A y \in {a, b} : Max({a, b}) >= y
  BY <1>1 DEF Max
<1> QED BY <1>2

\* A write leaves a file of what was in it, of what is written and of holes.
LEMMA WriteAtType ==
  ASSUME NEW S, Junk \in S, NEW file \in Seq(S), NEW n \in Nat, NEW b \in S
  PROVE  WriteAt(file, n, b) \in Seq(S)
<1> DEFINE last == Max({Len(file), n + 1})
<1>1. Len(file) \in Nat /\ n + 1 \in Nat /\ file \in [1..Len(file) -> S]
  BY LenProperties
<1>2. last \in Nat
  BY <1>1, MaxOfTwo
<1> HIDE DEF last
<1>3. [i \in 1..last |-> IF i = n + 1 THEN b ELSE IF i <= Len(file) THEN file[i] ELSE Junk] \in [1..last -> S]
  BY <1>1, <1>2
<1>4. WriteAt(file, n, b) \in [1..last -> S]
  BY <1>3 DEF WriteAt, last
<1> QED BY <1>2, <1>4, SeqDef

\* The first n blocks of a content are a beginning of it, and all of it when
\* n is its number of chunks.
LEMMA BeginningOfContent ==
  ASSUME NEW c \in Contents, NEW n \in Nat, n <= NChunks[c]
  PROVE  /\ IsPrefix([i \in 1..n |-> <<c, i>>], Blocks(c))
         /\ n = NChunks[c] => [i \in 1..n |-> <<c, i>>] = Blocks(c)
<1> DEFINE s == [i \in 1..n |-> <<c, i>>]
<1>1. NChunks[c] \in Nat
  OBVIOUS
<1>2. Len(s) = n /\ Len(Blocks(c)) = NChunks[c]
  BY <1>1 DEF Blocks
<1>3. SubSeq(s, 1, n) = SubSeq(Blocks(c), 1, n)
  BY <1>1, <1>2 DEF Blocks
<1> QED BY <1>2, <1>3 DEF IsPrefix, Blocks

\* Whatever DefaultHash answers is a content or nothing, and what a tunneled
\* job wanted.
LEMMA DefaultHashType ==
  ASSUME NEW j \in Jobs
  PROVE  /\ DefaultHash(j) \in Contents \cup {None}
         /\ j \in Tunneled => DefaultHash(j) = Wanted[j]
<1>1. CASE j \in Tunneled
  BY <1>1 DEF DefaultHash
<1>2. CASE j \notin Tunneled /\ Cardinality(Archive[Target[j]]) = 1
  <2>1. Archive[Target[j]] # {}
    BY <1>2, FS_EmptySet
  <2>2. (CHOOSE c \in Archive[Target[j]] : TRUE) \in Archive[Target[j]]
    BY <2>1
  <2> QED BY <1>2, <2>2 DEF DefaultHash
<1>3. CASE j \notin Tunneled /\ Cardinality(Archive[Target[j]]) # 1
  BY <1>3 DEF DefaultHash
<1> QED BY <1>1, <1>2, <1>3

(***************************************************************************)
(* The invariant.                                                          *)
(***************************************************************************)

LEMMA InitDownload == Init => DownloadInv
<1> SUFFICES ASSUME Init PROVE DownloadInv
  OBVIOUS
<1>1. TypeOK
  BY EmptySeq DEF Init, TypeOK, Steps
<1>2. InPlace
  BY DEF Init, InPlace
<1>3. \A j \in Jobs : Progress(j) /\ Undisturbed(j)
  BY DEF Init, Progress, Undisturbed, Steps, At, Chosen, Informed, Committed, Opened
<1> QED BY <1>1, <1>2, <1>3 DEF DownloadInv

\* A step of job j disturbs no other job that writes to a path of its own.
LEMMA StepOfJob ==
  ASSUME DownloadInv, NEW j \in Jobs, TypeOK', InPlace',
         \A k \in Jobs \ {j} :
            /\ pc'[k] = pc[k] /\ selected'[k] = selected[k] /\ info'[k] = info[k]
            /\ leaves'[k] = leaves[k] /\ idx'[k] = idx[k] /\ handle'[k] = handle[k]
            /\ Alone(k) => data'[k] = data[k] /\ dir'[Path[k]] = dir[Path[k]],
         Progress(j)', Alone(j) => Undisturbed(j)'
  PROVE  DownloadInv'
<1>1. ASSUME NEW k \in Jobs \ {j} PROVE Progress(k)' /\ (Alone(k) => Undisturbed(k)')
  <2>1. Progress(k) /\ (Alone(k) => Undisturbed(k))
    BY DEF DownloadInv
  <2>2. Progress(k)'
    BY <2>1 DEF Progress, At, Honestly
  <2>3. ASSUME Alone(k) PROVE Undisturbed(k)'
    BY <2>1, <2>3 DEF Undisturbed
  <2> QED BY <2>2, <2>3
<1> QED BY <1>1 DEF DownloadInv, Alone

\* Steps of a job that has no file open and opens none.
LEMMA ExchangeDownload ==
  ASSUME DownloadInv, NEW j \in Jobs,
         Connect(j) \/ SelectOk(j) \/ SelectRejected(j) \/ GetInfo(j) \/ InfoUnusable(j) \/ GetLeaves(j)
  PROVE  DownloadInv'
<1>1. UNCHANGED <<idx, handle, dir, data>>
  BY DEF Connect, SelectOk, SelectRejected, GetInfo, InfoUnusable, GetLeaves
<1>2. InPlace'
  BY <1>1 DEF InPlace, DownloadInv
<1>3. handle[j] = None /\ idx[j] = 0 /\ TypeOK /\ Progress(j)
  BY DEF DownloadInv, Progress, TypeOK, Connect, SelectOk, SelectRejected, GetInfo, InfoUnusable, GetLeaves,
         At, Steps, Opened, Committed, Informed, Chosen
<1> USE DEF Goto, At, Chosen, Informed, Committed, Opened, Steps
<1>4. CASE Connect(j)
  <2>1. TypeOK'
    BY <1>1, <1>3, <1>4, DefaultHashType DEF TypeOK, Connect, AfterConnect
  <2>2. Progress(j)'
    BY <1>1, <1>3, <1>4, DefaultHashType DEF TypeOK, Connect, AfterConnect, Progress, Honestly
  <2>3. Undisturbed(j)'
    BY <1>1, <1>3, <1>4 DEF TypeOK, Connect, AfterConnect, Undisturbed
  <2> QED BY <1>1, <1>2, <1>3, <1>4, <2>1, <2>2, <2>3, StepOfJob DEF TypeOK, Connect
<1>5. CASE SelectOk(j)
  <2>1. TypeOK'
    BY <1>1, <1>3, <1>5 DEF TypeOK, SelectOk
  <2>2. Progress(j)'
    BY <1>1, <1>3, <1>5 DEF TypeOK, SelectOk, Progress, Honestly
  <2>3. Undisturbed(j)'
    BY <1>1, <1>3, <1>5 DEF TypeOK, SelectOk, Undisturbed
  <2> QED BY <1>1, <1>2, <1>3, <1>5, <2>1, <2>2, <2>3, StepOfJob DEF TypeOK, SelectOk
<1>6. CASE SelectRejected(j) \/ InfoUnusable(j)
  <2>1. TypeOK'
    BY <1>1, <1>3, <1>6 DEF TypeOK, SelectRejected, InfoUnusable
  <2>2. Progress(j)' /\ Undisturbed(j)'
    BY <1>1, <1>3, <1>6 DEF TypeOK, SelectRejected, InfoUnusable, Progress, Undisturbed
  <2> QED BY <1>1, <1>2, <1>3, <1>6, <2>1, <2>2, StepOfJob DEF TypeOK, SelectRejected, InfoUnusable
<1>7. CASE GetInfo(j)
  <2>1. PICK i \in Infos : /\ Honestly(j) => i = TrueInfo(selected[j])
                           /\ info' = [info EXCEPT ![j] = i]
    BY <1>7 DEF GetInfo
  <2>2. /\ At(j, "info")
        /\ Honestly(j) => selected[j] # None
        /\ pc' = [pc EXCEPT ![j] = "leaves"] /\ UNCHANGED <<selected, leaves>>
    BY <1>7 DEF GetInfo
  <2>3. TypeOK'
    BY <1>1, <1>3, <2>1, <2>2 DEF TypeOK
  <2>4. Progress(j)'
    <3>1. info'[j] = i /\ pc'[j] = "leaves"
      BY <1>3, <2>1, <2>2 DEF TypeOK
    <3>2. Honestly(j) /\ Wanted[j] # None => selected[j] = Wanted[j] /\ i.sha = selected[j]
      <4>1. Honestly(j) => i.sha = selected[j]
        BY <2>1 DEF TrueInfo
      <4>2. Honestly(j) /\ Wanted[j] # None => selected[j] = Wanted[j]
        BY <1>3, <2>2 DEF Progress
      <4> QED BY <4>1, <4>2
    <3> QED BY <1>1, <1>3, <2>2, <3>1, <3>2 DEF Progress, Honestly
  <2>5. Undisturbed(j)'
    BY <1>1, <1>3, <2>2 DEF TypeOK, Undisturbed
  <2> QED BY <1>1, <1>2, <1>3, <2>1, <2>2, <2>3, <2>4, <2>5, StepOfJob DEF TypeOK
<1>8. CASE GetLeaves(j)
  <2>1. PICK l \in Contents \cup {Junk} :
           /\ leaves' = [leaves EXCEPT ![j] = l]
           /\ pc' = [pc EXCEPT ![j] = IF Consistent(info[j], l) THEN "open" ELSE "failed"]
    BY <1>8 DEF GetLeaves
  <2>2. At(j, "leaves") /\ UNCHANGED <<selected, info>>
    BY <1>8 DEF GetLeaves
  <2>3. TypeOK'
    BY <1>1, <1>3, <2>1, <2>2 DEF TypeOK
  <2>4. info[j] \in Infos
    BY <1>3, <2>2 DEF TypeOK, Progress
  <2>5. Progress(j)'
    <3>1. /\ leaves'[j] = l /\ pc'[j] \in {"open", "failed"}
          /\ pc'[j] = "open" => l = info[j].sha /\ NChunks[l] = info[j].n
      BY <1>3, <2>1 DEF TypeOK, Consistent
    <3> QED BY <1>1, <1>3, <2>2, <2>4, <3>1 DEF Progress, Honestly, Infos
  <2>6. Undisturbed(j)'
    BY <1>1, <1>3, <2>1, <2>2 DEF TypeOK, Undisturbed
  <2> QED BY <1>1, <1>2, <1>3, <2>1, <2>2, <2>3, <2>5, <2>6, StepOfJob DEF TypeOK
<1> QED BY <1>4, <1>5, <1>6, <1>7, <1>8

\* A failure or a break leaves everything where it is.
LEMMA FailureDownload ==
  ASSUME DownloadInv, NEW j \in Jobs, Break(j) \/ FetchRejected(j) \/ LocalFails(j)
  PROVE  DownloadInv'
<1>1. /\ pc' = [pc EXCEPT ![j] = "failed"]
      /\ UNCHANGED <<selected, info, leaves, idx, handle, dir, data>>
  BY DEF Break, FetchRejected, LocalFails, Goto
<1>2. TypeOK' /\ InPlace'
  BY <1>1 DEF DownloadInv, TypeOK, InPlace, Steps
<1>3. TypeOK /\ Progress(j) /\ (Alone(j) => Undisturbed(j))
  BY DEF DownloadInv
<1>4. pc'[j] = "failed"
  BY <1>1, <1>3 DEF TypeOK
<1>5. pc[j] # "failed" /\ pc[j] \in Steps
  BY <1>3 DEF Break, FetchRejected, LocalFails, At, TypeOK
<1>6. Progress(j)'
  BY <1>1, <1>3, <1>4, <1>5 DEF Progress, At, Steps, Opened, Committed, Informed, Chosen
<1>7. Alone(j) => Undisturbed(j)'
  BY <1>1, <1>3, <1>4 DEF Undisturbed, Opened, Committed, Informed, Chosen
<1> QED BY <1>1, <1>2, <1>3, <1>6, <1>7, StepOfJob DEF TypeOK

\* The file that is opened is the path's own, created or truncated.
LEMMA OpenDownload ==
  ASSUME DownloadInv, NEW j \in Jobs, OpenFile(j)
  PROVE  DownloadInv'
<1> DEFINE f == IF dir[Path[j]] = None THEN j ELSE dir[Path[j]]
<1>1. /\ At(j, "open")
      /\ dir' = [dir EXCEPT ![Path[j]] = f]
      /\ handle' = [handle EXCEPT ![j] = f]
      /\ data' = [data EXCEPT ![f] = <<>>]
      /\ pc' = [pc EXCEPT ![j] = IF info[j].n = 0 THEN "check" ELSE "fetch"]
      /\ UNCHANGED <<selected, info, leaves, idx>>
  BY DEF OpenFile, Goto
<1>2. TypeOK /\ InPlace /\ Progress(j) /\ Path[j] \in Paths
  BY DEF DownloadInv, Paths
<1>3. f \in Jobs /\ Path[f] = Path[j]
  BY <1>2 DEF TypeOK, InPlace
<1>4. f # None
  BY <1>3
<1> HIDE DEF f
<1>5. TypeOK'
  <2>1. dir' \in [Paths -> Jobs \cup {None}] /\ handle' \in [Jobs -> Jobs \cup {None}]
    BY <1>1, <1>2, <1>3 DEF TypeOK
  <2>2. data' \in [Jobs -> Seq(Block \cup {Junk})]
    BY <1>1, <1>2, <1>3, EmptySeq DEF TypeOK
  <2>3. pc' \in [Jobs -> Steps]
    BY <1>1, <1>2 DEF TypeOK, Steps
  <2> QED BY <1>1, <1>2, <2>1, <2>2, <2>3 DEF TypeOK
<1>6. InPlace'
  <2>1. \A p \in Paths : dir'[p] = IF p = Path[j] THEN f ELSE dir[p]
    BY <1>1, <1>2 DEF TypeOK
  <2>2. \A k \in Jobs : handle'[k] = IF k = j THEN f ELSE handle[k]
    BY <1>1, <1>2 DEF TypeOK
  <2> QED BY <1>2, <1>3, <2>1, <2>2 DEF InPlace
<1>7. /\ pc'[j] \in {"check", "fetch"} /\ (pc'[j] = "check" <=> info[j].n = 0)
      /\ handle'[j] = f /\ idx[j] = 0
      /\ info[j] \in Infos /\ leaves[j] = info[j].sha /\ NChunks[leaves[j]] = info[j].n
  BY <1>1, <1>2 DEF TypeOK, Progress, At, Steps, Opened, Committed, Informed, Chosen
<1>8. Progress(j)'
  <2>1. info[j].n \in Nat
    BY <1>7 DEF Infos
  <2>2. /\ pc'[j] \notin Steps \ (Opened \cup {"failed"})
        /\ Honestly(j) /\ Wanted[j] # None => selected[j] = Wanted[j] /\ info[j].sha = Wanted[j]
    BY <1>1, <1>2, <1>7 DEF Progress, At, Steps, Opened, Committed, Informed, Chosen
  <2> QED BY <1>1, <1>4, <1>7, <2>1, <2>2 DEF Progress, At, Honestly
<1>9. ASSUME Alone(j) PROVE Undisturbed(j)'
  <2>1. f = j
    BY <1>3, <1>9 DEF Alone
  <2>2. data'[j] = <<>> /\ dir'[Path[j]] = j
    BY <1>1, <1>2, <2>1 DEF TypeOK
  <2>3. [i \in 1..0 |-> <<leaves[j], i>>] = <<>>
    OBVIOUS
  <2> QED BY <1>1, <1>7, <2>2, <2>3 DEF Undisturbed
<1>10. ASSUME NEW k \in Jobs \ {j}, Alone(k)
       PROVE  data'[k] = data[k] /\ dir'[Path[k]] = dir[Path[k]]
  <2>1. f # k /\ Path[k] # Path[j] /\ Path[k] \in Paths
    BY <1>3, <1>10 DEF Alone, Paths
  <2> QED BY <1>1, <1>2, <2>1 DEF TypeOK
<1> QED BY <1>1, <1>2, <1>5, <1>6, <1>8, <1>9, <1>10, StepOfJob DEF TypeOK

\* A verified block goes to the end of what was fetched before it.
LEMMA FetchDownload ==
  ASSUME DownloadInv, NEW j \in Jobs, FetchChunk(j)
  PROVE  DownloadInv'
<1> DEFINE f == handle[j]
<1> DEFINE b == <<leaves[j], idx[j] + 1>>
<1>1. /\ At(j, "fetch")
      /\ b \in Block
      /\ data' = [data EXCEPT ![f] = WriteAt(data[f], idx[j], b)]
      /\ idx' = [idx EXCEPT ![j] = idx[j] + 1]
      /\ pc' = [pc EXCEPT ![j] = IF idx[j] + 1 = info[j].n THEN "check" ELSE "fetch"]
      /\ UNCHANGED <<selected, info, leaves, handle, dir>>
  BY DEF FetchChunk, Goto, Accepts
<1>2. TypeOK /\ InPlace /\ Progress(j) /\ Path[j] \in Paths
  BY DEF DownloadInv, Paths
<1>3. /\ f \in Jobs /\ f # None /\ Path[f] = Path[j]
      /\ idx[j] \in Nat /\ info[j] \in Infos /\ info[j].n \in 0..MaxChunks
      /\ leaves[j] = info[j].sha /\ NChunks[leaves[j]] = info[j].n /\ idx[j] < info[j].n
  BY <1>1, <1>2 DEF TypeOK, InPlace, Progress, At, Infos, Opened, Committed, Informed, Chosen
<1> HIDE DEF f, b
<1>4. TypeOK'
  <2>1. WriteAt(data[f], idx[j], b) \in Seq(Block \cup {Junk})
    BY <1>1, <1>2, <1>3, WriteAtType DEF TypeOK
  <2>2. data' \in [Jobs -> Seq(Block \cup {Junk})]
    BY <1>1, <1>2, <1>3, <2>1 DEF TypeOK
  <2>3. idx' \in [Jobs -> 0..MaxChunks]
    BY <1>1, <1>2, <1>3 DEF TypeOK
  <2>4. pc' \in [Jobs -> Steps]
    BY <1>1, <1>2 DEF TypeOK, Steps
  <2> QED BY <1>1, <1>2, <2>2, <2>3, <2>4 DEF TypeOK
<1>5. InPlace'
  BY <1>1, <1>2 DEF InPlace
<1>6. /\ idx'[j] = idx[j] + 1
      /\ pc'[j] = IF idx[j] + 1 = info[j].n THEN "check" ELSE "fetch"
      /\ handle'[j] = f
  BY <1>1, <1>2 DEF TypeOK, f
<1>7. Progress(j)'
  <2>1. /\ pc'[j] \in {"check", "fetch"}
        /\ pc'[j] \notin Steps \ (Opened \cup {"failed"})
    BY <1>6 DEF Steps, Opened, Committed, Informed, Chosen
  <2>2. Honestly(j) /\ Wanted[j] # None => selected[j] = Wanted[j] /\ info[j].sha = Wanted[j]
    BY <1>1, <1>2 DEF Progress, At, Opened, Committed, Informed, Chosen
  <2>3. idx'[j] <= info[j].n /\ (pc'[j] = "fetch" => idx'[j] < info[j].n) /\ (pc'[j] = "check" => idx'[j] = info[j].n)
    BY <1>3, <1>6 DEF Infos
  <2> QED BY <1>1, <1>3, <1>6, <2>1, <2>2, <2>3 DEF Progress, At, Honestly
<1>8. ASSUME Alone(j) PROVE Undisturbed(j)'
  <2>1. f = j
    BY <1>3, <1>8 DEF Alone
  <2>2. data[j] = [i \in 1..idx[j] |-> <<leaves[j], i>>] /\ dir[Path[j]] = j
    BY <1>1, <1>3, <1>8 DEF DownloadInv, Undisturbed, f, At, Opened, Committed, Informed, Chosen
  <2>3. data'[j] = WriteAt(data[j], idx[j], b)
    BY <1>1, <1>2, <2>1 DEF TypeOK
  <2>4. Len(data[j]) = idx[j] /\ \A i \in 1..idx[j] : data[j][i] = <<leaves[j], i>>
    BY <1>3, <2>2
  <2>5. Max({Len(data[j]), idx[j] + 1}) = idx[j] + 1
    BY <1>3, <2>4, MaxOfTwo
  <2>6. \A i \in 1..(idx[j] + 1) :
          (IF i = idx[j] + 1 THEN b ELSE IF i <= Len(data[j]) THEN data[j][i] ELSE Junk) = <<leaves[j], i>>
    BY <1>3, <2>4 DEF b
  <2>7. data'[j] = [i \in 1..(idx[j] + 1) |-> <<leaves[j], i>>]
    BY <2>3, <2>5, <2>6 DEF WriteAt
  <2> QED BY <1>1, <1>6, <2>2, <2>7 DEF Undisturbed
<1>9. ASSUME NEW k \in Jobs \ {j}, Alone(k) PROVE data'[k] = data[k]
  <2>1. f # k
    BY <1>3, <1>9 DEF Alone
  <2> QED BY <1>1, <1>2, <2>1 DEF TypeOK
<1> QED BY <1>1, <1>2, <1>4, <1>5, <1>7, <1>8, <1>9, StepOfJob DEF TypeOK

\* The size check ends the job; a mismatch removes its path's file.
LEMMA CheckDownload ==
  ASSUME DownloadInv, NEW j \in Jobs, CheckSize(j)
  PROVE  DownloadInv'
<1>1. /\ At(j, "check")
      /\ \/ pc' = [pc EXCEPT ![j] = "done"] /\ UNCHANGED dir
         \/ pc' = [pc EXCEPT ![j] = "failed"] /\ dir' = [dir EXCEPT ![Path[j]] = None]
      /\ UNCHANGED <<selected, info, leaves, idx, handle, data>>
  BY DEF CheckSize, Goto
<1>2. TypeOK /\ InPlace /\ Progress(j) /\ (Alone(j) => Undisturbed(j)) /\ Path[j] \in Paths
  BY DEF DownloadInv, Paths
<1>3. TypeOK' /\ InPlace'
  <2>1. pc' \in [Jobs -> Steps]
    BY <1>1, <1>2 DEF TypeOK, Steps
  <2>2. dir' \in [Paths -> Jobs \cup {None}]
    BY <1>1, <1>2 DEF TypeOK
  <2>3. TypeOK'
    BY <1>1, <1>2, <2>1, <2>2 DEF TypeOK
  <2>4. \A q \in Paths : dir'[q] = dir[q] \/ dir'[q] = None
    BY <1>1, <1>2 DEF TypeOK
  <2>5. InPlace'
    BY <1>1, <1>2, <2>4 DEF InPlace
  <2> QED BY <2>3, <2>5
<1>4. pc'[j] \in {"done", "failed"} /\ pc[j] = "check"
  BY <1>1, <1>2 DEF TypeOK, At
<1>5. Progress(j)'
  BY <1>1, <1>2, <1>4 DEF Progress, At, Honestly, Steps, Opened, Committed, Informed, Chosen
<1>6. ASSUME Alone(j) PROVE Undisturbed(j)'
  BY <1>1, <1>2, <1>4, <1>6 DEF TypeOK, Undisturbed, Opened, Committed, Informed, Chosen
<1>7. ASSUME NEW k \in Jobs \ {j}, Alone(k) PROVE dir'[Path[k]] = dir[Path[k]]
  <2>1. Path[k] # Path[j] /\ Path[k] \in Paths
    BY <1>7 DEF Alone, Paths
  <2>2. dir \in [Paths -> Jobs \cup {None}]
    BY <1>2 DEF TypeOK
  <2> QED BY <1>1, <2>1, <2>2
<1>8. ASSUME NEW k \in Jobs \ {j}
      PROVE  /\ pc'[k] = pc[k] /\ selected'[k] = selected[k] /\ info'[k] = info[k]
             /\ leaves'[k] = leaves[k] /\ idx'[k] = idx[k] /\ handle'[k] = handle[k]
             /\ data'[k] = data[k]
  <2>1. pc'[k] = pc[k]
    BY <1>1, <1>2 DEF TypeOK
  <2> QED BY <1>1, <2>1
<1> QED BY <1>3, <1>5, <1>6, <1>7, <1>8, StepOfJob

\* What each job knows, and what its file holds when no other job writes to
\* its path: inductive for any jobs, paths, hosts and contents.
THEOREM DownloadInvariant == Spec => []DownloadInv
<1>1. DownloadInv /\ [Next]_vars => DownloadInv'
  <2> SUFFICES ASSUME DownloadInv, [Next]_vars PROVE DownloadInv'
    OBVIOUS
  <2>1. ASSUME NEW j \in Jobs, Download(j) \/ Break(j) \/ LocalFails(j) PROVE DownloadInv'
    BY <2>1, ExchangeDownload, FailureDownload, OpenDownload, FetchDownload, CheckDownload DEF Download
  <2>2. CASE UNCHANGED vars
    BY <2>2 DEF vars, DownloadInv, TypeOK, InPlace, Progress, Undisturbed, At, Honestly
  <2> QED BY <2>1, <2>2 DEF Next
<1> QED BY <1>1, InitDownload, PTL DEF Spec

\* What a job that writes alone leaves on disk is the blocks it verified.
LEMMA AloneIsVerified ==
  ASSUME DownloadInv, NEW j \in Jobs, Alone(j), handle[j] # None
  PROVE  /\ handle[j] = j
         /\ IsPrefix(data[j], Blocks(info[j].sha))
         /\ At(j, "done") => data[j] = Blocks(info[j].sha)
<1>1. TypeOK /\ InPlace /\ Progress(j) /\ Undisturbed(j)
  BY DEF DownloadInv
<1>2. handle[j] = j
  BY <1>1 DEF InPlace, TypeOK, Alone
<1>3. /\ info[j].sha \in Contents /\ info[j].n \in Nat /\ idx[j] \in Nat
      /\ leaves[j] = info[j].sha /\ NChunks[info[j].sha] = info[j].n /\ idx[j] <= info[j].n
      /\ At(j, "done") => idx[j] = info[j].n
  BY <1>1 DEF Progress, TypeOK, Infos, At
<1>4. data[j] = [i \in 1..idx[j] |-> <<info[j].sha, i>>]
  BY <1>1, <1>3 DEF Undisturbed
<1>5. /\ IsPrefix([i \in 1..idx[j] |-> <<info[j].sha, i>>], Blocks(info[j].sha))
      /\ idx[j] = NChunks[info[j].sha] => [i \in 1..idx[j] |-> <<info[j].sha, i>>] = Blocks(info[j].sha)
  BY <1>3, BeginningOfContent
<1> QED BY <1>2, <1>3, <1>4, <1>5

\* As long as jobs write to paths of their own, no byte that was not verified
\* reaches the disk, however a download ends.
THEOREM VerifiedBytesOnly ==
  ASSUME OwnPaths
  PROVE  Spec => []OnlyVerifiedBytes
<1>1. DownloadInv => OnlyVerifiedBytes
  BY AloneIsVerified DEF OnlyVerifiedBytes, OwnPaths
<1> QED BY <1>1, DownloadInvariant, PTL

\* And a download() that returns has left the whole content at its path, the
\* one asked for if the host is honest.
THEOREM CompleteWhenDone ==
  ASSUME OwnPaths
  PROVE  Spec => []DoneIsComplete
<1>1. DownloadInv => DoneIsComplete
  <2> SUFFICES ASSUME DownloadInv, NEW j \in Jobs, At(j, "done")
               PROVE  /\ dir[Path[j]] # None
                      /\ data[dir[Path[j]]] = Blocks(info[j].sha)
                      /\ Honestly(j) /\ Wanted[j] # None => info[j].sha = Wanted[j]
    BY DEF DoneIsComplete
  <2>1. Alone(j) /\ Progress(j) /\ Undisturbed(j)
    BY DEF OwnPaths, DownloadInv
  <2>2. handle[j] # None /\ dir[Path[j]] = j
    BY <2>1 DEF Progress, Undisturbed, At, Opened, Committed, Informed, Chosen
  <2>3. Honestly(j) /\ Wanted[j] # None => info[j].sha = Wanted[j]
    BY <2>1 DEF Progress, At, Informed, Chosen
  <2> QED BY <2>1, <2>2, <2>3, AloneIsVerified
<1> QED BY <1>1, DownloadInvariant, PTL
===============================================================================
