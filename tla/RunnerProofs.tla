----------------------------- MODULE RunnerProofs -----------------------------
(***************************************************************************)
(* Proofs about the evaluation driver, for any number of tasks,            *)
(* environments, runs and deaths of the process.                           *)
(***************************************************************************)
EXTENDS EvalRunner, TLAPS, FiniteSetTheorems, SequenceTheorems, SumTheorems

Lines == [row : Rows \cup {Junk}, ended : BOOLEAN]
Up == pc # "down"

(* The types, and that a loop over runs is inside of a task.               *)
Places ==
  /\ TypeOK
  /\ pc \in {"runs", "rows"} => task \in Tasks
  /\ pc = "finished" => task = NumTasks + 1

(* What a process knows to be recorded, as far as it has come.             *)
Knows(t, n) == \A ep \in 0 .. n - 1 : Has(results, t, ep)

ProgressInv ==
  ~Adaptive =>
    /\ Up => \A t \in Tasks : t < task => Knows(t, goal * NumEnvs)
    /\ pc \in {"runs", "rows"} => runIdx <= goal /\ Knows(task, runIdx * NumEnvs)
    /\ pc = "rows" => /\ runIdx < goal
                      /\ \A e \in 0 .. row - 1 : Has(results, task, EpisodeOf(runIdx, e))

(* The file as a resumed process would read it, and the copies it holds:   *)
(* an episode of a run that is not recorded in full has one less.          *)
Kept == Readable(file)
Whole(t, r) == \A e \in 0 .. NumEnvs - 1 : Has(Kept, t, EpisodeOf(r, e))
UnderWay(t, r) == pc = "rows" /\ t = task /\ r = runIdx

Bounded(t, r, n) == \A e \in n .. NumEnvs - 1 : Copies(Kept, t, EpisodeOf(r, e)) <= crashes

CopiesInv ==
  /\ \A i \in DOMAIN file : file[i].ended
  /\ results = IF Up THEN Kept ELSE EmptyBag
  /\ \A t \in Tasks, ep \in Nat : Copies(Kept, t, ep) <= 1 + crashes
  /\ \A t \in Tasks, r \in Nat : ~Whole(t, r) /\ ~UnderWay(t, r) => Bounded(t, r, 0)
  /\ pc = "rows" => /\ Bounded(task, runIdx, row)
                    /\ \A e \in 0 .. row - 1 : Has(Kept, task, EpisodeOf(runIdx, e))

-------------------------------------------------------------------------------
(* The lines of a file, and the bag of rows that it is read as.            *)

LEMMA LinesAppend ==
  ASSUME NEW f \in Seq(Lines), NEW l \in Lines, NEW r
  PROVE  LinesWith(Append(f, l), r) =
           IF l.row = r THEN LinesWith(f, r) \cup {Len(f) + 1} ELSE LinesWith(f, r)
<1>1. /\ DOMAIN Append(f, l) = DOMAIN f \cup {Len(f) + 1} /\ Len(f) + 1 \notin DOMAIN f
      /\ \A i \in DOMAIN f : Append(f, l)[i] = f[i]
      /\ Append(f, l)[Len(f) + 1] = l
  BY AppendProperties
<1> QED BY <1>1 DEF LinesWith

LEMMA LinesFinite ==
  ASSUME NEW f \in Seq(Lines), NEW r
  PROVE  /\ IsFiniteSet(LinesWith(f, r)) /\ Cardinality(LinesWith(f, r)) \in Nat
         /\ Cardinality(LinesWith(f, r)) = 0 <=> LinesWith(f, r) = {}
<1>1. IsFiniteSet(1 .. Len(f))
  BY FS_Interval
<1>2. LinesWith(f, r) \in SUBSET (1 .. Len(f))
  BY DEF LinesWith
<1>3. IsFiniteSet(LinesWith(f, r))
  BY <1>1, <1>2, FS_Subset
<1> QED BY <1>3, FS_CardinalityType, FS_EmptySet

(* What a process reads is a bag of rows.                                  *)
LEMMA ReadableBag ==
  ASSUME NEW f \in Seq(Lines)
  PROVE  /\ IsABag(Readable(f)) /\ BagToSet(Readable(f)) \subseteq Rows
         /\ \A r \in Rows : BagIn(r, Readable(f)) <=> LinesWith(f, r) # {}
         /\ \A r \in Rows : CopiesOf(Readable(f), r) = Cardinality(LinesWith(f, r))
<1>1. DOMAIN Readable(f) = {f[i].row : i \in DOMAIN f} \ {Junk}
  BY DEF Readable
<1>2. \A i \in DOMAIN f : f[i].row \in Rows \cup {Junk}
  <2> SUFFICES ASSUME NEW i \in DOMAIN f PROVE f[i].row \in Rows \cup {Junk}
    OBVIOUS
  <2>1. f[i] \in Lines
    OBVIOUS
  <2> QED BY <2>1 DEF Lines
<1>3. \A r \in DOMAIN Readable(f) :
        /\ r \in Rows /\ LinesWith(f, r) # {}
        /\ Readable(f)[r] = Cardinality(LinesWith(f, r))
  BY <1>1, <1>2 DEF Readable, LinesWith
<1>4. \A r \in Rows : r # Junk
  BY JunkAssumption DEF Rows, Tasks
<1>5. \A r \in Rows : r \in DOMAIN Readable(f) <=> LinesWith(f, r) # {}
  BY <1>1, <1>4 DEF LinesWith
<1>6. IsABag(Readable(f))
  <2>1. \A r \in DOMAIN Readable(f) : Readable(f)[r] \in Nat /\ Readable(f)[r] > 0
    BY <1>3, LinesFinite
  <2>2. Readable(f) = [r \in DOMAIN Readable(f) |-> Readable(f)[r]]
    BY DEF Readable
  <2> QED BY <2>1, <2>2 DEF IsABag
<1>7. \A r \in Rows : CopiesOf(Readable(f), r) = Cardinality(LinesWith(f, r))
  BY <1>3, <1>5, LinesFinite DEF CopiesOf, BagIn, BagToSet
<1> QED BY <1>3, <1>5, <1>6, <1>7 DEF BagIn, BagToSet

(* A row more in a bag.                                                    *)
LEMMA BagOneMore ==
  ASSUME NEW b, IsABag(b), NEW r
  PROVE  /\ IsABag(b (+) SetToBag({r}))
         /\ BagToSet(b (+) SetToBag({r})) = BagToSet(b) \cup {r}
         /\ \A x : CopiesOf(b (+) SetToBag({r}), x) = CopiesOf(b, x) + (IF x = r THEN 1 ELSE 0)
<1> DEFINE c == b (+) SetToBag({r})
<1>1. DOMAIN SetToBag({r}) = {r} /\ SetToBag({r})[r] = 1
  BY DEF SetToBag
<1>2. c = [e \in (DOMAIN b) \cup {r} |->
             (IF e \in DOMAIN b THEN b[e] ELSE 0) + (IF e = r THEN 1 ELSE 0)]
  BY <1>1 DEF (+)
<1>3. \A e \in DOMAIN b : b[e] \in Nat /\ b[e] > 0
  BY DEF IsABag
<1> HIDE DEF c
<1>4. DOMAIN c = DOMAIN b \cup {r}
  BY <1>2
<1>5. \A e \in DOMAIN c : c[e] \in Nat /\ c[e] > 0
  BY <1>2, <1>3
<1>6. IsABag(c)
  <2>1. c = [e \in DOMAIN c |-> c[e]]
    BY <1>2
  <2> QED BY <1>5, <2>1 DEF IsABag
<1>7. \A x : CopiesOf(c, x) = CopiesOf(b, x) + (IF x = r THEN 1 ELSE 0)
  <2> SUFFICES ASSUME NEW x PROVE CopiesOf(c, x) = CopiesOf(b, x) + (IF x = r THEN 1 ELSE 0)
    OBVIOUS
  <2>1. CASE x \in DOMAIN c
    BY <1>2, <1>3, <1>4, <2>1 DEF CopiesOf, BagIn, BagToSet
  <2>2. CASE x \notin DOMAIN c
    BY <1>4, <2>2 DEF CopiesOf, BagIn, BagToSet
  <2> QED BY <2>1, <2>2
<1> QED BY <1>4, <1>6, <1>7 DEF c, BagToSet

(* A line appended that is a row, is a row more for its readers.           *)
LEMMA ReadableAppend ==
  ASSUME NEW f \in Seq(Lines), NEW l \in Lines, NEW r \in Rows, l.row = r
  PROVE  Readable(Append(f, l)) = Readable(f) (+) SetToBag({r})
<1> DEFINE g == Append(f, l)
           b == Readable(f)
           c == b (+) SetToBag({r})
<1>1. l \in Lines /\ l.row = r
  OBVIOUS
<1>2. g \in Seq(Lines)
  BY <1>1, AppendProperties
<1>3. /\ DOMAIN g = DOMAIN f \cup {Len(f) + 1}
      /\ \A i \in DOMAIN f : g[i] = f[i]
      /\ g[Len(f) + 1] = l
  BY <1>1, AppendProperties
<1>4. r # Junk
  BY JunkAssumption DEF Rows, Tasks
<1>5. DOMAIN Readable(g) = DOMAIN b \cup {r}
  BY <1>1, <1>3, <1>4 DEF Readable
<1>6. DOMAIN c = DOMAIN b \cup {r}
  BY BagOneMore, ReadableBag DEF BagToSet
<1>7. \A x \in DOMAIN b \cup {r} : Readable(g)[x] = c[x]
  <2> SUFFICES ASSUME NEW x \in DOMAIN b \cup {r} PROVE Readable(g)[x] = c[x]
    OBVIOUS
  <2>1. x \in Rows
    BY ReadableBag DEF BagToSet
  <2>2. CopiesOf(Readable(g), x) = Cardinality(LinesWith(g, x)) /\ CopiesOf(b, x) = Cardinality(LinesWith(f, x))
    BY <1>2, <2>1, ReadableBag
  <2>3. LinesWith(g, x) = IF r = x THEN LinesWith(f, x) \cup {Len(f) + 1} ELSE LinesWith(f, x)
    BY <1>1, LinesAppend
  <2>4. Len(f) + 1 \notin LinesWith(f, x)
    BY DEF LinesWith
  <2>5. Cardinality(LinesWith(g, x)) = Cardinality(LinesWith(f, x)) + (IF x = r THEN 1 ELSE 0)
    <3>1. CASE x = r
      <4> DEFINE A == LinesWith(f, x)
                 k == Len(f) + 1
      <4>1. IsFiniteSet(A) /\ Cardinality(A) \in Nat
        BY LinesFinite
      <4>2. k \notin A /\ LinesWith(g, x) = A \cup {k}
        BY <2>3, <2>4, <3>1
      <4> HIDE DEF A, k
      <4>3. Cardinality(A \cup {k}) = Cardinality(A) + 1
        BY <4>1, <4>2, FS_AddElement
      <4> QED BY <3>1, <4>2, <4>3 DEF A
    <3>2. CASE x # r
      BY <2>3, <3>2, LinesFinite
    <3> QED BY <3>1, <3>2
  <2>6. CopiesOf(c, x) = CopiesOf(b, x) + (IF x = r THEN 1 ELSE 0)
    <3>1. IsABag(b)
      BY ReadableBag
    <3>2. \A y : CopiesOf(b (+) SetToBag({r}), y) = CopiesOf(b, y) + (IF y = r THEN 1 ELSE 0)
      <4> HIDE DEF b
      <4> QED BY ONLY <3>1, BagOneMore, Zenon
    <3> HIDE DEF b
    <3> QED BY <3>2, Zenon
  <2>7. CopiesOf(Readable(g), x) = CopiesOf(c, x)
    BY <2>2, <2>5, <2>6
  <2> QED BY <1>5, <1>6, <2>7 DEF CopiesOf, BagIn, BagToSet
<1> HIDE DEF g, b, c
<1>8. Readable(g) = [x \in DOMAIN Readable(g) |-> Readable(g)[x]] /\ c = [x \in DOMAIN c |-> c[x]]
  BY DEF Readable, c, (+)
<1> QED BY <1>5, <1>6, <1>7, <1>8 DEF g, b, c

(* What an append leaves is lines, torn or not.                            *)
LEMMA AppendedLines ==
  ASSUME NEW f \in Seq(Lines), NEW r \in Rows
  PROVE  /\ Appended(f, r) \in Seq(Lines)
         /\ CutShort(f, r) \subseteq Seq(Lines)
<1>1. \A e \in BOOLEAN : [row |-> r, ended |-> e] \in Lines /\ [row |-> Junk, ended |-> e] \in Lines
  BY DEF Lines
<1>2. ASSUME f # <<>> PROVE Front(f) \in Seq(Lines)
  <2>1. Len(f) \in Nat /\ \A i \in 1 .. Len(f) - 1 : f[i] \in Lines
    OBVIOUS
  <2> QED BY <2>1, SubSeqProperties DEF Front
<1>3. \A e \in BOOLEAN : /\ Append(f, [row |-> r, ended |-> e]) \in Seq(Lines)
                         /\ Append(f, [row |-> Junk, ended |-> e]) \in Seq(Lines)
                         /\ f # <<>> => Append(Front(f), [row |-> Junk, ended |-> e]) \in Seq(Lines)
  BY <1>1, <1>2, AppendProperties
<1>4. Appended(f, r) \in Seq(Lines)
  BY <1>3 DEF Appended
<1>5. CutShort(f, r) \subseteq Seq(Lines)
  <2>1. f # <<>> => Append(Front(f), [row |-> Junk, ended |-> FALSE]) \in Seq(Lines)
    BY <1>3
  <2>2. /\ Append(f, [row |-> r, ended |-> FALSE]) \in Seq(Lines)
        /\ Append(f, [row |-> Junk, ended |-> FALSE]) \in Seq(Lines)
    BY <1>3
  <2> QED BY <2>1, <2>2 DEF CutShort
<1> QED BY <1>4, <1>5

-------------------------------------------------------------------------------
LEMMA NewRowIsRow ==
  ASSUME Places, pc = "rows", NEW success \in BOOLEAN
  PROVE  NewRow(success) \in Rows /\ EpisodeOf(runIdx, row) \in Nat
<1>1. EpisodeOf(runIdx, row) \in Nat
  BY SizeAssumption DEF Places, TypeOK, EpisodeOf
<1> QED BY <1>1 DEF Places, NewRow, Rows

LEMMA PlacesNext == Places /\ [Next]_vars => Places'
<1> SUFFICES ASSUME Places, [Next]_vars PROVE Places'
  OBVIOUS
<1> USE SizeAssumption DEF Places, Lines
<1>1. CASE Start
  <2>1. IsABag(Readable(file)) /\ BagToSet(Readable(file)) \subseteq Rows
    BY ReadableBag DEF TypeOK
  <2> QED BY <1>1, <2>1 DEF Start, TypeOK
<1>2. CASE SkipTask
  BY <1>2 DEF SkipTask, TypeOK, Tasks
<1>3. CASE OpenTask
  BY <1>3 DEF OpenTask, TypeOK
<1>4. CASE SkipRun
  BY <1>4 DEF SkipRun, TypeOK, FollowingRun
<1>5. CASE RunEpisode
  BY <1>5 DEF RunEpisode, TypeOK
<1>6. CASE AppendRow
  <2>1. PICK success \in BOOLEAN :
          /\ results' = results (+) SetToBag({NewRow(success)})
          /\ file' = Appended(file, NewRow(success))
    BY <1>6 DEF AppendRow
  <2>2. NewRow(success) \in Rows
    BY <1>6, NewRowIsRow DEF AppendRow
  <2>3. file' \in Seq(Lines)
    BY <2>1, <2>2, AppendedLines DEF TypeOK
  <2>4. IsABag(results') /\ BagToSet(results') \subseteq Rows
    <3>1. IsABag(results) /\ BagToSet(results) \subseteq Rows
      BY DEF TypeOK
    <3>2. IsABag(results') /\ BagToSet(results') = BagToSet(results) \cup {NewRow(success)}
      BY <2>1, <3>1, BagOneMore
    <3> QED BY <2>2, <3>1, <3>2
  <2>5. /\ pc' \in {"rows", "runs"} /\ runIdx' \in Nat /\ row' \in 0 .. NumEnvs - 1
        /\ goal' = goal /\ task' = task /\ marker' = marker /\ crashes' = crashes
    BY <1>6 DEF AppendRow, TypeOK, MoreRows, FollowingRun
  <2> QED BY <1>6, <2>3, <2>4, <2>5 DEF AppendRow, TypeOK
<1>7. CASE CloseTask
  BY <1>7 DEF CloseTask, TypeOK, Tasks
<1>8. CASE Finish
  BY <1>8 DEF Finish, TypeOK
<1>9. CASE Crash
  <2>1. file' \in Seq(Lines)
    <3>1. CASE pc = "rows"
      <4>1. PICK success \in BOOLEAN : file' \in CutShort(file, NewRow(success))
        BY <1>9, <3>1 DEF Crash
      <4> QED BY <3>1, <4>1, NewRowIsRow, AppendedLines DEF TypeOK
    <3> QED BY <1>9, <3>1 DEF Crash, TypeOK
  <2>2. IsABag(EmptyBag) /\ BagToSet(EmptyBag) = {}
    BY DEF IsABag, EmptyBag, SetToBag, BagToSet
  <2> QED BY <1>9, <2>1, <2>2 DEF Crash, TypeOK
<1>10. CASE UNCHANGED vars
  BY <1>10 DEF vars, TypeOK
<1> QED BY <1>1, <1>2, <1>3, <1>4, <1>5, <1>6, <1>7, <1>8, <1>9, <1>10 DEF Next, Work

LEMMA PlacesInit == Init => Places
<1>1. IsABag(EmptyBag) /\ BagToSet(EmptyBag) = {}
  BY DEF IsABag, EmptyBag, SetToBag, BagToSet
<1>2. <<>> \in Seq([row : Rows \cup {Junk}, ended : BOOLEAN])
  OBVIOUS
<1> SUFFICES ASSUME Init PROVE Places
  OBVIOUS
<1>3. IsABag(results) /\ BagToSet(results) \subseteq Rows
  BY <1>1 DEF Init
<1>4. file \in Seq([row : Rows \cup {Junk}, ended : BOOLEAN])
  BY <1>2 DEF Init
<1>5. pc = "down" /\ goal \in 1 .. MaxRuns /\ task \in 1 .. NumTasks + 1 /\ runIdx \in Nat
  BY SizeAssumption DEF Init
<1>6. row \in 0 .. NumEnvs - 1 /\ crashes \in 0 .. MaxCrashes
  BY SizeAssumption DEF Init
<1>7. marker \in BOOLEAN
  BY DEF Init
<1> QED BY <1>3, <1>4, <1>5, <1>6, <1>7 DEF Places, TypeOK

(* Over deaths, torn lines and resumes, the file is lines of rows and junk *)
(* and what a process holds in memory is a bag of rows.                    *)
THEOREM RunnerTypes == Spec => []TypeOK
<1>1. Places => TypeOK
  BY DEF Places
<1> QED BY <1>1, PlacesInit, PlacesNext, PTL DEF Spec

-------------------------------------------------------------------------------
(* Episodes are numbered run by run.                                       *)
LEMMA RunByRun ==
  ASSUME NEW r \in Nat
  PROVE  /\ r * NumEnvs \in Nat /\ (r + 1) * NumEnvs = r * NumEnvs + NumEnvs
         /\ \A e \in Nat : EpisodeOf(r, e) = r * NumEnvs + e
BY SizeAssumption DEF EpisodeOf

(* The runs before one, and all of that one, are the runs before the next. *)
LEMMA RunKnown ==
  ASSUME NEW rs, NEW t, NEW r \in Nat,
         \A ep \in 0 .. r * NumEnvs - 1 : Has(rs, t, ep),
         \A e \in 0 .. NumEnvs - 1 : Has(rs, t, EpisodeOf(r, e))
  PROVE  \A ep \in 0 .. (r + 1) * NumEnvs - 1 : Has(rs, t, ep)
<1> DEFINE m == r * NumEnvs
           k == (r + 1) * NumEnvs
<1>1. m \in Nat /\ k = m + NumEnvs /\ \A e \in Nat : EpisodeOf(r, e) = m + e
  BY RunByRun
<1>2. \A ep \in 0 .. m - 1 : Has(rs, t, ep)
  OBVIOUS
<1> SUFFICES ASSUME NEW ep \in 0 .. k - 1 PROVE Has(rs, t, ep)
  OBVIOUS
<1> HIDE DEF m, k
<1>3. ep \in 0 .. m + NumEnvs - 1
  BY <1>1, SizeAssumption
<1>4. CASE ep < m
  BY <1>1, <1>2, <1>3, <1>4
<1>5. CASE ep >= m
  <2>1. ep - m \in 0 .. NumEnvs - 1 /\ EpisodeOf(r, ep - m) = m + (ep - m)
    BY <1>1, <1>3, <1>5, SizeAssumption
  <2>2. EpisodeOf(r, ep - m) = ep
    BY <1>1, <1>3, <2>1
  <2> QED BY <2>1, <2>2
<1> QED BY <1>1, <1>3, <1>4, <1>5

LEMMA HasOneMore ==
  ASSUME NEW b, IsABag(b), NEW r, NEW t, NEW ep
  PROVE  Has(b (+) SetToBag({r}), t, ep) <=> Has(b, t, ep) \/ (r.task = t /\ r.episode = ep)
<1>1. BagToSet(b (+) SetToBag({r})) = BagToSet(b) \cup {r}
  BY BagOneMore
<1> QED BY <1>1 DEF Has

LEMMA ProgressNext == Places /\ ProgressInv /\ [Next]_vars => ProgressInv'
<1> SUFFICES ASSUME Places, ProgressInv, [Next]_vars, ~Adaptive
             PROVE  /\ Up' => \A t \in Tasks : t < task' => Knows(t, goal * NumEnvs)'
                    /\ pc' \in {"runs", "rows"} => runIdx' <= goal' /\ Knows(task, runIdx * NumEnvs)'
                    /\ pc' = "rows" =>
                         /\ runIdx' < goal'
                         /\ \A e \in 0 .. row' - 1 : Has(results', task', EpisodeOf(runIdx', e))
  BY DEF ProgressInv, EpisodeOf
<1>0. /\ goal \in Nat /\ goal > 0 /\ task \in 1 .. NumTasks + 1 /\ runIdx \in Nat /\ row \in 0 .. NumEnvs - 1
      /\ NumTasks \in Nat /\ NumEnvs \in Nat \ {0}
  BY SizeAssumption DEF Places, TypeOK
<1>00. /\ Up => \A t \in Tasks : t < task => Knows(t, goal * NumEnvs)
       /\ pc \in {"runs", "rows"} => runIdx <= goal /\ Knows(task, runIdx * NumEnvs)
       /\ pc = "rows" => runIdx < goal /\ \A e \in 0 .. row - 1 : Has(results, task, EpisodeOf(runIdx, e))
  BY DEF ProgressInv
<1>1. CASE Start
  BY <1>0, <1>1 DEF Start, Tasks
<1>2. CASE SkipTask
  <2>1. \A ep \in 0 .. goal * NumEnvs - 1 : Has(results, task, ep)
    BY <1>2 DEF SkipTask, TaskRecorded, TotalEpisodes
  <2> QED BY <1>0, <1>00, <1>2, <2>1 DEF SkipTask, Knows, Up, Tasks
<1>3. CASE OpenTask
  <2>1. /\ pc = "tasks" /\ pc' = "runs" /\ runIdx' = 0
        /\ goal' = goal /\ task' = task /\ results' = results
    BY <1>3 DEF OpenTask
  <2>2. 0 * NumEnvs = 0
    BY <1>0
  <2> QED BY <1>0, <1>00, <2>1, <2>2 DEF Knows, Up
<1>4. CASE SkipRun
  <2>1. /\ pc = "runs" /\ pc' = "runs" /\ runIdx' = runIdx + 1 /\ runIdx < goal /\ RunRecorded(runIdx)
        /\ goal' = goal /\ task' = task /\ results' = results
    BY <1>4 DEF SkipRun, MoreRuns, FollowingRun
  <2>2. \A ep \in 0 .. (runIdx + 1) * NumEnvs - 1 : Has(results, task, ep)
    BY <1>0, <1>00, <2>1, RunKnown DEF Knows, RunRecorded
  <2> QED BY <1>0, <1>00, <2>1, <2>2 DEF Knows, Up
<1>5. CASE RunEpisode
  <2>1. /\ pc = "runs" /\ pc' = "rows" /\ runIdx' = runIdx /\ runIdx < goal /\ row' = 0
        /\ goal' = goal /\ task' = task /\ results' = results
    BY <1>5 DEF RunEpisode, MoreRuns
  <2> QED BY <1>0, <1>00, <2>1 DEF Knows, Up
<1>6. CASE AppendRow
  <2>1. PICK success \in BOOLEAN : results' = results (+) SetToBag({NewRow(success)})
    BY <1>6 DEF AppendRow
  <2>2. /\ pc = "rows" /\ goal' = goal /\ task' = task /\ Up
        /\ \/ row + 1 < NumEnvs /\ row' = row + 1 /\ pc' = pc /\ runIdx' = runIdx
           \/ ~(row + 1 < NumEnvs) /\ pc' = "runs" /\ runIdx' = runIdx + 1
    BY <1>6 DEF AppendRow, MoreRows, FollowingRun, Up
  <2>3. /\ \A t, ep : Has(results, t, ep) => Has(results', t, ep)
        /\ Has(results', task, EpisodeOf(runIdx, row))
    <3>1. IsABag(results)
      BY DEF Places, TypeOK
    <3>2. NewRow(success).task = task /\ NewRow(success).episode = EpisodeOf(runIdx, row)
      BY DEF NewRow
    <3> QED BY <2>1, <3>1, <3>2, HasOneMore
  <2>4. /\ \A t \in Tasks : t < task => \A ep \in 0 .. goal * NumEnvs - 1 : Has(results', t, ep)
        /\ runIdx < goal /\ \A ep \in 0 .. runIdx * NumEnvs - 1 : Has(results', task, ep)
    BY <1>00, <2>2, <2>3 DEF Knows
  <2>5. \A e \in 0 .. row : Has(results', task, EpisodeOf(runIdx, e))
    <3> SUFFICES ASSUME NEW e \in 0 .. row PROVE Has(results', task, EpisodeOf(runIdx, e))
      OBVIOUS
    <3>1. e = row \/ e \in 0 .. row - 1
      BY <1>0
    <3> QED BY <1>00, <2>2, <2>3, <3>1
  <2>6. CASE row + 1 < NumEnvs
    <3>1. row' - 1 = row /\ runIdx' = runIdx /\ pc' = "rows"
      BY <1>0, <2>2, <2>6
    <3> QED BY <1>0, <2>2, <2>4, <2>5, <3>1 DEF Knows
  <2>7. CASE ~(row + 1 < NumEnvs)
    <3>1. row = NumEnvs - 1 /\ pc' = "runs" /\ runIdx' = runIdx + 1
      BY <1>0, <2>2, <2>7
    <3>2. \A ep \in 0 .. (runIdx + 1) * NumEnvs - 1 : Has(results', task, ep)
      BY <1>0, <2>4, <2>5, <3>1, RunKnown
    <3> QED BY <1>0, <2>2, <2>4, <3>1, <3>2 DEF Knows
  <2> QED BY <2>6, <2>7
<1>7. CASE CloseTask
  <2>1. /\ pc = "runs" /\ pc' = "tasks" /\ task' = task + 1 /\ ~(runIdx < goal)
        /\ goal' = goal /\ results' = results
    BY <1>7 DEF CloseTask, MoreRuns
  <2>2. runIdx = goal /\ Knows(task, goal * NumEnvs) /\ Up
    BY <1>0, <1>00, <2>1 DEF Up
  <2> QED BY <1>0, <1>00, <2>1, <2>2 DEF Knows, Tasks
<1>8. CASE Finish
  BY <1>00, <1>8 DEF Finish, Knows, Up
<1>9. CASE Crash
  BY <1>9 DEF Crash, Up
<1>10. CASE UNCHANGED vars
  BY <1>00, <1>10 DEF vars, Knows, Up
<1> QED BY <1>1, <1>2, <1>3, <1>4, <1>5, <1>6, <1>7, <1>8, <1>9, <1>10 DEF Next, Work

(* The process that writes the marker knows a row of every episode that    *)
(* was asked for, whatever was skipped: run_evaluation's two checks of     *)
(* what is recorded, and its loops.                                        *)
THEOREM FinishedKnowsAll == Spec => []FinishedMeansAll
<1>1. Init => ProgressInv
  BY DEF Init, ProgressInv, Up
<1>2. Places /\ ProgressInv => FinishedMeansAll
  <2> SUFFICES ASSUME Places, ProgressInv, pc = "finished", ~Adaptive, NEW t \in Tasks
               PROVE  \A ep \in 0 .. goal * NumEnvs - 1 : Has(results, t, ep)
    BY DEF FinishedMeansAll
  <2>1. t < task /\ Up
    BY SizeAssumption DEF Places, Tasks, Up
  <2> QED BY <2>1 DEF ProgressInv, Knows
<1> QED BY <1>1, <1>2, PlacesInit, PlacesNext, ProgressNext, PTL DEF Spec

-------------------------------------------------------------------------------
(* Two environments or runs have two episodes.                             *)
LEMMA LaterRun ==
  ASSUME NEW r \in Nat, NEW q \in Nat, r < q
  PROVE  q * NumEnvs >= r * NumEnvs + NumEnvs
<1> DEFINE j == q - (r + 1)
<1>1. j \in Nat /\ q = r + 1 + j
  OBVIOUS
<1>2. j * NumEnvs \in Nat /\ r * NumEnvs \in Nat
  BY <1>1, SizeAssumption
<1>3. (r + 1 + j) * NumEnvs = r * NumEnvs + NumEnvs + j * NumEnvs
  BY <1>1, SizeAssumption
<1> HIDE DEF j
<1> QED BY <1>1, <1>2, <1>3, SizeAssumption

LEMMA EpisodesDiffer ==
  ASSUME NEW r \in Nat, NEW q \in Nat, NEW e \in 0 .. NumEnvs - 1, NEW d \in 0 .. NumEnvs - 1,
         EpisodeOf(r, e) = EpisodeOf(q, d)
  PROVE  r = q /\ e = d
<1> DEFINE m == r * NumEnvs
           k == q * NumEnvs
<1>1. m \in Nat /\ k \in Nat /\ EpisodeOf(r, e) = m + e /\ EpisodeOf(q, d) = k + d
  BY RunByRun
<1>2. r < q => k >= m + NumEnvs
  BY LaterRun
<1>3. q < r => m >= k + NumEnvs
  BY LaterRun
<1>4. r = q => m = k
  OBVIOUS
<1>5. m + e = k + d
  BY <1>1
<1> HIDE DEF m, k
<1>6. ~(r < q)
  BY <1>1, <1>2, <1>5, SizeAssumption
<1>7. ~(q < r)
  BY <1>1, <1>3, <1>5, SizeAssumption
<1>8. r = q
  BY <1>6, <1>7
<1> QED BY <1>1, <1>4, <1>5, <1>8

(* Copies are counted, and one row more is one copy more of its episode.   *)
LEMMA CopiesOneMore ==
  ASSUME NEW b, IsABag(b), NEW success \in BOOLEAN, NEW t, NEW ep
  PROVE  /\ Copies(b, t, ep) \in Nat
         /\ Copies(b (+) SetToBag({NewRow(success)}), t, ep) =
              Copies(b, t, ep) + (IF t = task /\ ep = EpisodeOf(runIdx, row) THEN 1 ELSE 0)
<1> DEFINE c == b (+) SetToBag({NewRow(success)})
           new == t = task /\ ep = EpisodeOf(runIdx, row)
<1>1. \A x : CopiesOf(c, x) = CopiesOf(b, x) + (IF x = NewRow(success) THEN 1 ELSE 0)
  BY BagOneMore
<1>2. \A x : CopiesOf(b, x) \in Nat
  BY DEF CopiesOf, IsABag, BagIn, BagToSet
<1>3. \A won \in BOOLEAN : RowOf(t, ep, won) = NewRow(success) <=> new /\ won = success
  BY DEF RowOf, NewRow
<1> DEFINE lost == RowOf(t, ep, FALSE)
           won == RowOf(t, ep, TRUE)
           x == CopiesOf(b, won)
           y == CopiesOf(b, lost)
<1>4. /\ Copies(b, t, ep) = x + y
      /\ Copies(c, t, ep) = CopiesOf(c, won) + CopiesOf(c, lost)
  BY DEF Copies
<1>5. x \in Nat /\ y \in Nat
  BY <1>2
<1>6. /\ CopiesOf(c, won) = x + (IF won = NewRow(success) THEN 1 ELSE 0)
      /\ CopiesOf(c, lost) = y + (IF lost = NewRow(success) THEN 1 ELSE 0)
  BY <1>1
<1>7. /\ won = NewRow(success) <=> new /\ success = TRUE
      /\ lost = NewRow(success) <=> new /\ success = FALSE
  BY <1>3
<1>8. Copies(c, t, ep) = x + y + (IF new THEN 1 ELSE 0)
  <2> HIDE DEF c, new, won, lost, x, y
  <2>1. CASE ~new
    <3>1. won # NewRow(success) /\ lost # NewRow(success)
      BY <1>7, <2>1, Zenon
    <3> QED BY <1>4, <1>5, <1>6, <2>1, <3>1
  <2>2. CASE new /\ success = TRUE
    <3>1. won = NewRow(success) /\ lost # NewRow(success)
      BY <1>7, <2>2, Zenon
    <3> QED BY <1>4, <1>5, <1>6, <2>2, <3>1
  <2>3. CASE new /\ success = FALSE
    <3>1. won # NewRow(success) /\ lost = NewRow(success)
      BY <1>7, <2>3, Zenon
    <3> QED BY <1>4, <1>5, <1>6, <2>3, <3>1
  <2> QED BY <2>1, <2>2, <2>3
<1>9. Copies(b, t, ep) \in Nat
  <2> HIDE DEF x, y
  <2> QED BY <1>4, <1>5
<1>10. Copies(c, t, ep) = Copies(b, t, ep) + (IF new THEN 1 ELSE 0)
  BY <1>4, <1>8
<1> QED BY <1>9, <1>10

(* Without torn lines the file takes the row as it is.                     *)
LEMMA WholeAppend ==
  ASSUME Places, CopiesInv, pc = "rows", NEW success \in BOOLEAN,
         file' = Appended(file, NewRow(success))
  PROVE  /\ \A i \in DOMAIN file' : file'[i].ended
         /\ Readable(file') = Kept (+) SetToBag({NewRow(success)})
         /\ IsABag(Kept)
<1>1. NewRow(success) \in Rows /\ file \in Seq(Lines)
  BY NewRowIsRow DEF Places, TypeOK, Lines
<1> DEFINE l == [row |-> NewRow(success), ended |-> TRUE]
<1>2. file = <<>> \/ Last(file).ended
  <2>1. file # <<>> => Len(file) \in DOMAIN file
    BY <1>1
  <2> QED BY <2>1 DEF CopiesInv, Last
<1>3. file' = Append(file, l)
  BY <1>2 DEF Appended
<1>4. l \in Lines /\ l.ended /\ l.row = NewRow(success)
  BY <1>1 DEF Lines
<1> HIDE DEF l
<1>5. /\ DOMAIN Append(file, l) = DOMAIN file \cup {Len(file) + 1}
      /\ \A i \in DOMAIN file : Append(file, l)[i] = file[i]
      /\ Append(file, l)[Len(file) + 1] = l
  BY <1>1, <1>4, AppendProperties
<1>6. \A i \in DOMAIN file' : file'[i].ended
  BY <1>3, <1>4, <1>5 DEF CopiesInv
<1>7. Readable(file') = Kept (+) SetToBag({NewRow(success)})
  BY <1>1, <1>3, <1>4, ReadableAppend DEF Kept
<1>8. IsABag(Kept)
  BY <1>1, ReadableBag DEF Kept
<1> QED BY <1>6, <1>7, <1>8

-------------------------------------------------------------------------------
(* What a row more changes of the file.                                    *)
LEMMA CopiesAppend ==
  ASSUME Places, CopiesInv, ~TornWrites, AppendRow
  PROVE  CopiesInv'
<1>1. PICK success \in BOOLEAN :
        /\ results' = results (+) SetToBag({NewRow(success)})
        /\ file' = Appended(file, NewRow(success))
  BY DEF AppendRow
<1>2. /\ pc = "rows" /\ Up /\ UNCHANGED <<goal, task, marker, crashes>>
      /\ \/ row + 1 < NumEnvs /\ row' = row + 1 /\ pc' = pc /\ runIdx' = runIdx
         \/ ~(row + 1 < NumEnvs) /\ pc' = "runs" /\ runIdx' = runIdx + 1
  BY DEF AppendRow, MoreRows, FollowingRun, Up
<1>3. task \in Tasks /\ runIdx \in Nat /\ row \in 0 .. NumEnvs - 1 /\ NumEnvs \in Nat /\ crashes \in Nat
  BY <1>2, SizeAssumption DEF Places, TypeOK
<1>4. /\ \A i \in DOMAIN file' : file'[i].ended
      /\ Kept' = Kept (+) SetToBag({NewRow(success)})
      /\ IsABag(Kept)
  BY <1>1, <1>2, WholeAppend DEF Kept
<1>5. results' = Kept' /\ Up'
  BY <1>1, <1>2, <1>4 DEF CopiesInv, Up
<1> DEFINE new == EpisodeOf(runIdx, row)
<1>6. \A t, ep : /\ Copies(Kept, t, ep) \in Nat
                 /\ Copies(Kept', t, ep) = Copies(Kept, t, ep) + (IF t = task /\ ep = new THEN 1 ELSE 0)
  BY <1>4, CopiesOneMore
<1>7. \A t, ep : Has(Kept', t, ep) <=> Has(Kept, t, ep) \/ (t = task /\ ep = new)
  <2>1. NewRow(success).task = task /\ NewRow(success).episode = new
    BY DEF NewRow
  <2> HIDE DEF new
  <2>2. \A t, ep : Has(Kept (+) SetToBag({NewRow(success)}), t, ep)
                     <=> Has(Kept, t, ep) \/ (NewRow(success).task = t /\ NewRow(success).episode = ep)
    BY <1>4, HasOneMore
  <2> QED BY <1>4, <2>1, <2>2
<1>8. Copies(Kept, task, new) <= crashes
  BY <1>2, <1>3 DEF CopiesInv, Bounded
<1>9. new \in Nat
  BY <1>2, NewRowIsRow
<1>10. \A r \in Nat, e \in 0 .. NumEnvs - 1 : EpisodeOf(r, e) = new => r = runIdx /\ e = row
  BY <1>3, EpisodesDiffer
<1> HIDE DEF new
<1>11. \A t \in Tasks, ep \in Nat : Copies(Kept', t, ep) <= 1 + crashes'
  <2> SUFFICES ASSUME NEW t \in Tasks, NEW ep \in Nat PROVE Copies(Kept', t, ep) <= 1 + crashes
    BY <1>2
  <2>1. Copies(Kept, t, ep) <= 1 + crashes /\ Copies(Kept, t, ep) \in Nat
    BY <1>6 DEF CopiesInv
  <2>2. CASE t = task /\ ep = new
    <3>1. Copies(Kept', t, ep) = Copies(Kept, t, ep) + 1
      BY <1>6, <2>2
    <3> QED BY <1>3, <1>8, <2>1, <2>2, <3>1
  <2>3. CASE ~(t = task /\ ep = new)
    <3>1. Copies(Kept', t, ep) = Copies(Kept, t, ep) + 0
      BY <1>6, <2>3
    <3> QED BY <2>1, <3>1
  <2> QED BY <2>2, <2>3
\* Another run of the task, or another task, is what it was.
<1>12. ASSUME NEW t \in Tasks, NEW r \in Nat, ~(t = task /\ r = runIdx)
       PROVE  /\ Whole(t, r) => Whole(t, r)'
              /\ \A e \in 0 .. NumEnvs - 1 :
                   Copies(Kept', t, EpisodeOf(r, e)) = Copies(Kept, t, EpisodeOf(r, e))
  <2>1. ASSUME NEW e \in 0 .. NumEnvs - 1 PROVE ~(t = task /\ EpisodeOf(r, e) = new)
    BY <1>10, <1>12
  <2>2. \A e \in 0 .. NumEnvs - 1 : Has(Kept, t, EpisodeOf(r, e)) => Has(Kept', t, EpisodeOf(r, e))
    BY <1>7
  <2>3. \A e \in 0 .. NumEnvs - 1 :
          Copies(Kept', t, EpisodeOf(r, e)) = Copies(Kept, t, EpisodeOf(r, e)) + 0
    BY <1>6, <2>1
  <2> QED BY <1>6, <2>2, <2>3 DEF Whole, EpisodeOf
<1>13. \A e \in 0 .. row : Has(Kept', task, EpisodeOf(runIdx, e))
  <2> SUFFICES ASSUME NEW e \in 0 .. row PROVE Has(Kept', task, EpisodeOf(runIdx, e))
    OBVIOUS
  <2>1. e = row \/ e \in 0 .. row - 1
    BY <1>3
  <2> QED BY <1>2, <1>7, <2>1 DEF CopiesInv, new
<1>14. \A t \in Tasks, r \in Nat : ~Whole(t, r)' /\ ~UnderWay(t, r)' => Bounded(t, r, 0)'
  <2> SUFFICES ASSUME NEW t \in Tasks, NEW r \in Nat, ~Whole(t, r)', ~UnderWay(t, r)'
               PROVE  \A e \in 0 .. NumEnvs - 1 : Copies(Kept', t, EpisodeOf(r, e)) <= crashes
    BY <1>2 DEF Bounded, EpisodeOf
  <2>1. ~(t = task /\ r = runIdx)
    <3> SUFFICES ASSUME t = task, r = runIdx PROVE FALSE
      OBVIOUS
    <3>1. ~(row + 1 < NumEnvs)
      BY <1>2 DEF UnderWay
    <3>2. row = NumEnvs - 1
      BY <1>3, <3>1
    <3>3. \A e \in 0 .. NumEnvs - 1 : Has(Kept', t, EpisodeOf(r, e))
      BY <1>13, <3>2
    <3> QED BY <3>3 DEF Whole, EpisodeOf
  <2>2. ~Whole(t, r)
    BY <1>12, <2>1
  <2>3. ~UnderWay(t, r)
    BY <2>1 DEF UnderWay
  <2>4. Bounded(t, r, 0)
    BY <2>2, <2>3 DEF CopiesInv
  <2> QED BY <1>12, <2>1, <2>4 DEF Bounded
<1>15. pc' = "rows" => /\ Bounded(task, runIdx, row)'
                       /\ \A e \in 0 .. row' - 1 : Has(Kept', task', EpisodeOf(runIdx', e))
  <2> SUFFICES ASSUME pc' = "rows"
               PROVE  /\ \A e \in row' .. NumEnvs - 1 : Copies(Kept', task', EpisodeOf(runIdx', e)) <= crashes'
                      /\ \A e \in 0 .. row' - 1 : Has(Kept', task', EpisodeOf(runIdx', e))
    BY DEF Bounded, EpisodeOf
  <2>1. row' = row + 1 /\ runIdx' = runIdx /\ task' = task /\ crashes' = crashes
    BY <1>2
  <2>2. ASSUME NEW e \in row + 1 .. NumEnvs - 1
        PROVE  Copies(Kept', task, EpisodeOf(runIdx, e)) <= crashes
    <3>1. e \in row .. NumEnvs - 1 /\ e \in 0 .. NumEnvs - 1 /\ e # row
      BY <1>3
    <3>2. EpisodeOf(runIdx, e) # new
      BY <1>3, <1>10, <3>1
    <3>3. Copies(Kept', task, EpisodeOf(runIdx, e)) = Copies(Kept, task, EpisodeOf(runIdx, e)) + 0
      BY <1>6, <3>2
    <3>4. Copies(Kept, task, EpisodeOf(runIdx, e)) <= crashes
      BY <1>2, <3>1 DEF CopiesInv, Bounded
    <3> QED BY <1>6, <3>3, <3>4
  <2>3. row' - 1 = row
    BY <1>3, <2>1
  <2> QED BY <1>13, <2>1, <2>2, <2>3
<1> QED BY <1>4, <1>5, <1>11, <1>14, <1>15 DEF CopiesInv

(* A step that leaves the file, outside of the rows of a run.              *)
LEMMA CopiesSame ==
  ASSUME CopiesInv, pc # "rows", pc' # "rows", UNCHANGED <<file, crashes>>,
         results' = IF Up' THEN Kept ELSE EmptyBag
  PROVE  CopiesInv'
<1>1. Kept' = Kept /\ crashes' = crashes
  BY DEF Kept
<1>2. \A t, r : ~UnderWay(t, r) /\ Whole(t, r)' = Whole(t, r)
  BY <1>1 DEF UnderWay, Whole, EpisodeOf
<1>3. \A t, r : Bounded(t, r, 0)' = Bounded(t, r, 0)
  BY <1>1 DEF Bounded, EpisodeOf
<1> QED BY <1>1, <1>2, <1>3 DEF CopiesInv

LEMMA CopiesNext == ~TornWrites /\ Places /\ CopiesInv /\ [Next]_vars => CopiesInv'
<1> SUFFICES ASSUME ~TornWrites, Places, CopiesInv, [Next]_vars PROVE CopiesInv'
  OBVIOUS
<1>1. CASE Start
  BY <1>1, CopiesSame DEF Start, Up, Kept
<1>2. CASE SkipTask \/ OpenTask \/ SkipRun \/ CloseTask \/ Finish
  <2>1. /\ pc # "rows" /\ pc' # "rows" /\ UNCHANGED <<file, crashes, results>> /\ Up /\ Up'
    BY <1>2 DEF SkipTask, OpenTask, SkipRun, CloseTask, Finish, Up
  <2>2. results' = Kept
    BY <2>1 DEF CopiesInv
  <2> QED BY <2>1, <2>2, CopiesSame
<1>3. CASE RunEpisode
  <2>1. /\ pc = "runs" /\ pc' = "rows" /\ row' = 0 /\ ~RunRecorded(runIdx)
        /\ UNCHANGED <<goal, task, runIdx, results, file, crashes>>
    BY <1>3 DEF RunEpisode
  <2>2. Kept' = Kept /\ Up /\ Up' /\ results = Kept
    BY <2>1 DEF Kept, Up, CopiesInv
  <2>3. task \in Tasks /\ runIdx \in Nat /\ NumEnvs \in Nat
    BY <2>1, SizeAssumption DEF Places, TypeOK
  <2>4. ~Whole(task, runIdx) /\ \A t, r : ~UnderWay(t, r)
    BY <2>1, <2>2 DEF RunRecorded, Whole, UnderWay
  <2>5. Bounded(task, runIdx, 0)
    BY <2>3, <2>4 DEF CopiesInv
  <2>6. \A t, r, n : Bounded(t, r, n)' = Bounded(t, r, n) /\ Whole(t, r)' = Whole(t, r)
    BY <2>1, <2>2 DEF Bounded, Whole, EpisodeOf
  <2>7. \A t \in Tasks, r \in Nat : ~Whole(t, r) => Bounded(t, r, 0)
    BY <2>4 DEF CopiesInv
  <2>8. \A e \in 0 .. row' - 1 : Has(Kept', task', EpisodeOf(runIdx', e))
    BY <2>1
  <2>9. Bounded(task, runIdx, row)'
    BY <2>1, <2>2, <2>5 DEF Bounded, EpisodeOf
  <2> QED BY <2>1, <2>2, <2>6, <2>7, <2>8, <2>9 DEF CopiesInv
<1>4. CASE AppendRow
  BY <1>4, CopiesAppend
<1>5. CASE Crash
  <2>1. pc' = "down" /\ crashes' = crashes + 1 /\ results' = EmptyBag
    BY <1>5 DEF Crash
  <2>2. file' = file
    BY <1>5 DEF Crash, CutShort
  <2>3. Kept' = Kept /\ ~Up' /\ crashes \in Nat /\ file \in Seq(Lines)
    BY <2>1, <2>2 DEF Kept, Up, Places, TypeOK, Lines
  <2>4. \A t \in Tasks, ep \in Nat : Copies(Kept, t, ep) <= 1 + crashes /\ Copies(Kept, t, ep) \in Nat
    <3>1. IsABag(Kept)
      BY <2>3, ReadableBag DEF Kept
    <3>2. TRUE \in BOOLEAN
      OBVIOUS
    <3>3. \A t, ep : Copies(Kept, t, ep) \in Nat
      BY <3>1, <3>2, CopiesOneMore
    <3> QED BY <3>3 DEF CopiesInv
  <2>5. \A t \in Tasks, ep \in Nat : Copies(Kept', t, ep) <= crashes'
    BY <2>1, <2>3, <2>4
  <2>6. \A t \in Tasks, ep \in Nat : Copies(Kept', t, ep) <= 1 + crashes'
    BY <2>1, <2>3, <2>4
  <2>7. \A r \in Nat, e \in 0 .. NumEnvs - 1 : EpisodeOf(r, e) \in Nat
    <3> SUFFICES ASSUME NEW r \in Nat, NEW e \in 0 .. NumEnvs - 1 PROVE EpisodeOf(r, e) \in Nat
      OBVIOUS
    <3>1. e \in Nat
      BY SizeAssumption
    <3>2. r * NumEnvs \in Nat /\ EpisodeOf(r, e) = r * NumEnvs + e
      BY <3>1, RunByRun
    <3> QED BY <3>1, <3>2
  <2>8. \A t \in Tasks, r \in Nat : Bounded(t, r, 0)'
    BY <2>5, <2>7 DEF Bounded, EpisodeOf
  <2> QED BY <2>1, <2>2, <2>3, <2>6, <2>8 DEF CopiesInv
<1>6. CASE UNCHANGED vars
  <2>1. Kept' = Kept
    BY <1>6 DEF vars, Kept
  <2>2. \A t, r, n : Bounded(t, r, n)' = Bounded(t, r, n) /\ Whole(t, r)' = Whole(t, r)
    BY <1>6, <2>1 DEF vars, Bounded, Whole, EpisodeOf
  <2> QED BY <1>6, <2>1, <2>2 DEF vars, CopiesInv, Up, UnderWay, Bounded, EpisodeOf
<1> QED BY <1>1, <1>2, <1>3, <1>4, <1>5, <1>6 DEF Next, Work

LEMMA CopiesInit == Init => CopiesInv
<1> SUFFICES ASSUME Init PROVE CopiesInv
  OBVIOUS
<1>1. DOMAIN file = {} /\ crashes = 0 /\ pc = "down" /\ results = EmptyBag
  BY DEF Init
<1>2. DOMAIN Kept = {}
  BY <1>1 DEF Kept, Readable
<1>3. \A t, ep : Copies(Kept, t, ep) = 0
  BY <1>2 DEF Copies, CopiesOf, BagIn, BagToSet
<1>4. \A t, r : Bounded(t, r, 0)
  BY <1>1, <1>3 DEF Bounded
<1> QED BY <1>1, <1>3, <1>4 DEF CopiesInv, Up

(* Without torn lines, an episode is recorded again only for a death: the  *)
(* rows of a run whose recording a death cut short are written again, and  *)
(* those of no other (runner.py: run_idx, run_episode_ids).                *)
THEOREM RepeatsNeedDeaths ==
  ASSUME ~TornWrites
  PROVE  Spec => []CopiesNeedCrashes
<1>1. Places /\ CopiesInv => CopiesNeedCrashes
  <2> SUFFICES ASSUME Places, CopiesInv, NEW t \in Tasks, NEW ep \in 0 .. MaxRuns * NumEnvs - 1
               PROVE  Copies(results, t, ep) <= 1 + crashes
    BY DEF CopiesNeedCrashes
  <2>1. MaxRuns * NumEnvs \in Nat
    BY SizeAssumption
  <2>2. ep \in Nat
    BY <2>1
  <2>3. CASE Up
    BY <2>2, <2>3 DEF CopiesInv
  <2>4. CASE ~Up
    <3>1. DOMAIN results = {}
      BY <2>4 DEF CopiesInv, EmptyBag, SetToBag
    <3>2. Copies(results, t, ep) = 0
      BY <3>1 DEF Copies, CopiesOf, BagIn, BagToSet
    <3> QED BY <3>2 DEF Places, TypeOK
  <2> QED BY <2>3, <2>4
<1>2. Places /\ CopiesInv /\ [Next]_vars => CopiesInv'
  BY CopiesNext
<1> QED BY <1>1, <1>2, PlacesInit, PlacesNext, CopiesInit, PTL DEF Spec

-------------------------------------------------------------------------------
(* Nothing is recorded that was not asked for.                             *)
Asked == \A r \in BagToSet(Kept) : r.episode \in 0 .. MaxRuns * NumEnvs - 1

(* The two variables of the EpisodeLog.                                    *)
LogComplete == marker /\ goal = MaxRuns /\ pc = "finished"
LogVars == <<Recorded, LogComplete>>

LEMMA RecordedHas ==
  ASSUME Places, NEW t, NEW ep
  PROVE  <<t, ep>> \in Recorded <=> Has(Kept, t, ep)
BY DEF Recorded, Has, Kept

(* A row appended is of a run that was asked for.                          *)
LEMMA AppendStep ==
  ASSUME ~Adaptive, Places, ProgressInv, CopiesInv, Asked, AppendRow
  PROVE  /\ Asked'
         /\ EpisodeOf(runIdx, row) \in 0 .. MaxRuns * NumEnvs - 1 /\ task \in Tasks
         /\ Recorded' = Recorded \cup {<<task, EpisodeOf(runIdx, row)>>}
<1>1. PICK success \in BOOLEAN : file' = Appended(file, NewRow(success))
  BY DEF AppendRow
<1> DEFINE new == EpisodeOf(runIdx, row)
<1>2. pc = "rows" /\ task \in Tasks /\ runIdx \in Nat /\ row \in 0 .. NumEnvs - 1 /\ runIdx < goal
      /\ goal \in 1 .. MaxRuns /\ NumEnvs \in Nat
  BY SizeAssumption DEF AppendRow, Places, TypeOK, ProgressInv
<1>3. Kept' = Kept (+) SetToBag({NewRow(success)}) /\ IsABag(Kept)
  BY <1>1, <1>2, WholeAppend DEF Kept
<1>4. BagToSet(Kept') = BagToSet(Kept) \cup {NewRow(success)}
  BY <1>3, BagOneMore
<1>5. NewRow(success).task = task /\ NewRow(success).episode = new
  BY DEF NewRow
<1>6. new \in 0 .. MaxRuns * NumEnvs - 1
  <2> DEFINE m == runIdx * NumEnvs
             k == MaxRuns * NumEnvs
  <2>1. m \in Nat /\ new = m + row
    BY <1>2, RunByRun
  <2>2. k >= m + NumEnvs
    BY <1>2, SizeAssumption, LaterRun
  <2>3. k \in Nat
    BY SizeAssumption
  <2> HIDE DEF m, k, new
  <2>4. new \in 0 .. k - 1
    BY <1>2, <2>1, <2>2, <2>3
  <2> QED BY <2>4 DEF k
<1> HIDE DEF new
<1>7. Asked'
  BY <1>4, <1>5, <1>6 DEF Asked
<1>8. Recorded' = Recorded \cup {<<task, new>>}
  BY <1>4, <1>5 DEF Recorded, Kept
<1> QED BY <1>2, <1>6, <1>7, <1>8 DEF new

LEMMA AskedNext ==
  ASSUME ~Adaptive, ~TornWrites, Places, ProgressInv, CopiesInv, Asked, [Next]_vars
  PROVE  Asked'
<1>1. CASE AppendRow
  BY <1>1, AppendStep
<1>2. CASE ~AppendRow
  <2>1. file' = file
    BY <1>2 DEF Next, Work, Start, SkipTask, OpenTask, SkipRun, RunEpisode, CloseTask, Finish, Crash,
                CutShort, vars
  <2> QED BY <2>1 DEF Asked, Kept
<1> QED BY <1>1, <1>2

LEMMA LogNext ==
  ASSUME ~Adaptive, ~TornWrites, Places, ProgressInv, CopiesInv, Asked, [Next]_vars
  PROVE  [Log!Next]_LogVars
<1>1. CASE AppendRow
  <2>1. ~LogComplete /\ ~LogComplete'
    BY <1>1 DEF AppendRow, LogComplete
  <2>2. LogComplete' = LogComplete
    BY <2>1 DEF LogComplete
  <2> DEFINE ep == <<task, EpisodeOf(runIdx, row)>>
  <2>3. /\ ep \in Tasks \X (0 .. MaxRuns * NumEnvs - 1)
        /\ Recorded' = Recorded \cup {ep}
    BY <1>1, AppendStep
  <2> HIDE DEF ep
  <2>4. CASE ep \in Recorded
    BY <2>2, <2>3, <2>4 DEF LogVars
  <2>5. CASE ep \notin Recorded
    <3>1. Log!Record
      BY <2>2, <2>3, <2>5 DEF Log!Record, LogComplete
    <3> QED BY <3>1 DEF Log!Next
  <2> QED BY <2>4, <2>5
<1>2. CASE Finish
  <2>1. pc = "tasks" /\ task = NumTasks + 1 /\ pc' = "finished" /\ marker' = TRUE
        /\ UNCHANGED <<goal, results, file>>
    BY <1>2 DEF Finish
  <2>2. Recorded' = Recorded
    BY <2>1 DEF Recorded
  <2>3. CASE goal = MaxRuns
    <3>1. results = Kept /\ Up
      BY <2>1 DEF CopiesInv, Up
    <3>2. \A t \in Tasks : \A ep \in 0 .. MaxRuns * NumEnvs - 1 : Has(Kept, t, ep)
      <4> SUFFICES ASSUME NEW t \in Tasks
                   PROVE  \A ep \in 0 .. MaxRuns * NumEnvs - 1 : Has(Kept, t, ep)
        OBVIOUS
      <4>1. t < task
        BY <2>1, SizeAssumption DEF Tasks
      <4> QED BY <2>3, <3>1, <4>1 DEF ProgressInv, Knows
    <3>3. Recorded = Tasks \X (0 .. MaxRuns * NumEnvs - 1)
      <4>1. \A ep \in Tasks \X (0 .. MaxRuns * NumEnvs - 1) : ep \in Recorded
        BY <3>2, RecordedHas
      <4>2. Recorded \subseteq Tasks \X (0 .. MaxRuns * NumEnvs - 1)
        <5>1. file \in Seq(Lines)
          BY DEF Places, TypeOK, Lines
        <5>2. BagToSet(Kept) \subseteq Rows
          BY <5>1, ReadableBag DEF Kept
        <5>3. \A r \in BagToSet(Kept) : r.task \in Tasks /\ r.episode \in 0 .. MaxRuns * NumEnvs - 1
          BY <5>2 DEF Rows, Asked
        <5> QED BY <5>3 DEF Recorded, Kept
      <4> QED BY <4>1, <4>2
    <3>4. LogComplete'
      BY <2>1, <2>3 DEF LogComplete
    <3>5. LogComplete' = TRUE
      BY <3>4 DEF LogComplete
    <3>6. Log!Complete
      BY <2>2, <3>3, <3>5 DEF Log!Complete, LogComplete
    <3> QED BY <3>6 DEF Log!Next
  <2>4. CASE goal # MaxRuns
    <3>1. LogComplete' = LogComplete
      BY <2>1, <2>4 DEF LogComplete
    <3> QED BY <2>2, <3>1 DEF LogVars
  <2> QED BY <2>3, <2>4
<1>3. CASE ~AppendRow /\ ~Finish
  <2>1. file' = file
    BY <1>3 DEF Next, Work, Start, SkipTask, OpenTask, SkipRun, RunEpisode, CloseTask, Crash,
                CutShort, vars
  <2>2. Recorded' = Recorded
    BY <2>1 DEF Recorded
  <2>3. LogComplete' = LogComplete
    <3>1. CASE UNCHANGED vars
      BY <3>1 DEF vars, LogComplete
    <3>2. CASE Start
      <4>1. ~LogComplete /\ ~LogComplete'
        BY <3>2 DEF Start, LogComplete, Places, TypeOK
      <4> QED BY <4>1 DEF LogComplete
    <3>3. CASE SkipTask \/ OpenTask \/ SkipRun \/ RunEpisode \/ CloseTask \/ Crash
      <4>1. pc # "finished" /\ pc' # "finished"
        BY <3>3 DEF SkipTask, OpenTask, SkipRun, RunEpisode, CloseTask, Crash
      <4> QED BY <4>1 DEF LogComplete
    <3> QED BY <1>3, <3>1, <3>2, <3>3 DEF Next, Work
  <2> QED BY <2>2, <2>3 DEF LogVars
<1> QED BY <1>1, <1>2, <1>3

(* Where appends are whole, the results file is an EpisodeLog: what is     *)
(* recorded stays so over deaths, resumes and invocations that ask for     *)
(* more, and a finished process has seen all of it recorded.               *)
THEOREM ResultsAreKept ==
  ASSUME ~Adaptive, ~TornWrites
  PROVE  Spec => KeepsLog
<1>1. Init => Log!Init /\ Asked
  <2> SUFFICES ASSUME Init PROVE Log!Init /\ Asked
    OBVIOUS
  <2>1. DOMAIN file = {} /\ marker = FALSE
    BY DEF Init
  <2>2. BagToSet(Readable(file)) = {}
    BY <2>1 DEF BagToSet, Readable
  <2> QED BY <2>1, <2>2 DEF Log!Init, Recorded, Asked, Kept
<1>2. Init => ProgressInv
  BY DEF Init, ProgressInv, Up
<1>3. Places /\ ProgressInv /\ CopiesInv /\ Asked /\ [Next]_vars => CopiesInv' /\ Asked' /\ [Log!Next]_LogVars
  BY CopiesNext, AskedNext, LogNext
<1> QED BY <1>1, <1>2, <1>3, PlacesInit, PlacesNext, ProgressNext, CopiesInit, PTL
        DEF Spec, KeepsLog, Log!Spec, LogVars, LogComplete, Log!vars

-------------------------------------------------------------------------------
(* How many rows a bag holds, and how many of them are among some.         *)

OfTask(t) == {r \in Rows : r.task = t}

(* A bag of finitely many rows, as the sums need it.                       *)
RowBag(b) == IsABag(b) /\ BagToSet(b) \subseteq Rows /\ IsFiniteSet(BagToSet(b))

LEMMA NumberIsNat ==
  ASSUME NEW b, RowBag(b), NEW T
  PROVE  /\ NumberOf(b, T) \in Nat
         /\ NumberOf(b, BagToSet(b)) = NumberOf(b, Rows)
         /\ \A t : Episodes(b, t) = NumberOf(b, OfTask(t))
<1>1. \A r \in BagToSet(b) : b[r] \in Nat
  BY DEF RowBag, IsABag, BagToSet
<1>2. NumberOf(b, T) \in Nat
  <2> DEFINE D == BagToSet(b) \cap T
             f == [r \in D |-> b[r]]
  <2>1. IsFiniteSet(D)
    BY FS_Intersection DEF RowBag
  <2>2. f \in [D -> Nat]
    BY <1>1
  <2>3. NumberOf(b, T) = SumOf(f)
    BY DEF NumberOf
  <2> HIDE DEF D, f
  <2> QED BY <2>1, <2>2, <2>3, SumIsNat
<1>3. BagToSet(b) \cap BagToSet(b) = BagToSet(b) \cap Rows
  BY DEF RowBag
<1>4. NumberOf(b, BagToSet(b)) = NumberOf(b, Rows)
  BY <1>3 DEF NumberOf
<1>5. ASSUME NEW t PROVE Episodes(b, t) = NumberOf(b, OfTask(t))
  <2>1. BagToSet(b) \cap {r \in BagToSet(b) : r.task = t} = BagToSet(b) \cap OfTask(t)
    BY DEF RowBag, OfTask
  <2> QED BY <2>1 DEF Episodes, NumberOf
<1> QED BY <1>2, <1>4, <1>5

(* A row more counts once where it belongs.                                *)
LEMMA NumberOneMore ==
  ASSUME NEW b, RowBag(b), NEW r \in Rows, NEW T
  PROVE  /\ RowBag(b (+) SetToBag({r}))
         /\ NumberOf(b (+) SetToBag({r}), T) = NumberOf(b, T) + (IF r \in T THEN 1 ELSE 0)
<1> DEFINE c == b (+) SetToBag({r})
           D == BagToSet(b) \cap T
           E == BagToSet(c) \cap T
           f == [x \in E |-> c[x]]
           g == [x \in D |-> b[x]]
<1>1. IsABag(b) /\ IsFiniteSet(BagToSet(b)) /\ BagToSet(b) \subseteq Rows
  BY DEF RowBag
<1>2. /\ IsABag(c) /\ BagToSet(c) = BagToSet(b) \cup {r}
      /\ \A x : CopiesOf(c, x) = CopiesOf(b, x) + (IF x = r THEN 1 ELSE 0)
  BY <1>1, BagOneMore
<1>3. NumberOf(c, T) = SumOf(f) /\ NumberOf(b, T) = SumOf(g)
  BY DEF NumberOf
<1> HIDE DEF c
<1>4. /\ \A x \in BagToSet(b) : b[x] \in Nat /\ b[x] = CopiesOf(b, x)
      /\ \A x \in BagToSet(c) : c[x] \in Nat /\ c[x] = CopiesOf(c, x)
      /\ \A x : x \notin BagToSet(b) => CopiesOf(b, x) = 0
  BY <1>1, <1>2 DEF IsABag, BagToSet, CopiesOf, BagIn
<1>5. RowBag(c)
  BY <1>1, <1>2, FS_AddElement DEF RowBag
<1>6. IsFiniteSet(D) /\ g \in [D -> Nat] /\ f \in [E -> Nat] /\ SumOf(g) \in Nat
  <2>1. IsFiniteSet(D) /\ g \in [D -> Nat] /\ f \in [E -> Nat]
    BY <1>1, <1>4, FS_Intersection
  <2> HIDE DEF D, g
  <2> QED BY <2>1, SumIsNat
<1>7. /\ \A x \in D : x # r => f[x] = g[x]
      /\ r \in D => f[r] = g[r] + 1
      /\ r \in T /\ r \notin D => f[r] = 1
      /\ r \notin T => E = D
      /\ r \in T => E = D \cup {r}
  BY <1>2, <1>4
<1>8. r \notin T => f = g
  BY <1>2, <1>4
<1>9. r \notin T => r \notin D
  OBVIOUS
<1> HIDE DEF D, E, f, g
<1>10. SumOf(f) = SumOf(g) + (IF r \in T THEN 1 ELSE 0)
  <2>1. CASE r \notin T
    BY <1>6, <1>8, <2>1
  <2>2. CASE r \in T /\ r \notin D
    <3>1. \A x \in D : g[x] = f[x]
      BY <1>7, <2>2
    <3>2. f \in [D \cup {r} -> Nat]
      BY <1>6, <1>7, <2>2
    <3>3. SumOf(f) = SumOf(g) + f[r]
      BY <1>6, <2>2, <3>1, <3>2, SumWithOneMore
    <3> QED BY <1>6, <1>7, <2>2, <3>3
  <2>3. CASE r \in T /\ r \in D
    <3>1. E = D
      BY <1>7, <2>3
    <3>2. f \in [D -> Nat] /\ \A x \in D \ {r} : f[x] = g[x]
      BY <1>6, <1>7, <3>1
    <3>3. SumOf(f) + g[r] = SumOf(g) + f[r]
      BY <1>6, <2>3, <3>2, SumOfChanged
    <3>4. SumOf(f) \in Nat /\ g[r] \in Nat
      BY <1>6, <2>3, <3>2, SumIsNat
    <3> QED BY <1>6, <1>7, <2>3, <3>3, <3>4
  <2> QED BY <2>1, <2>2, <2>3
<1> QED BY <1>3, <1>5, <1>10 DEF c

-------------------------------------------------------------------------------
(* The rows that a file is read as, over an append and a cut.              *)

LEMMA ReadableIsRowBag ==
  ASSUME NEW f \in Seq(Lines)
  PROVE  RowBag(Readable(f))
<1> DEFINE I == 1 .. Len(f)
           R == {f[i].row : i \in I}
           g == [i \in I |-> f[i].row]
<1>1. g \in Surjection(I, R)
  BY DEF Surjection
<1>2. IsFiniteSet(I)
  BY FS_Interval
<1>3. BagToSet(Readable(f)) \subseteq R
  BY DEF Readable, BagToSet
<1> HIDE DEF I, R, g
<1>4. IsFiniteSet(R)
  BY <1>1, <1>2, FS_Surjection
<1>5. IsFiniteSet(BagToSet(Readable(f)))
  BY <1>3, <1>4, FS_Subset
<1> QED BY <1>5, ReadableBag DEF RowBag

(* A malformed line is skipped.                                            *)
LEMMA ReadableJunk ==
  ASSUME NEW f \in Seq(Lines), NEW l \in Lines, l.row = Junk
  PROVE  Readable(Append(f, l)) = Readable(f)
<1> DEFINE g == Append(f, l)
<1>1. /\ DOMAIN g = DOMAIN f \cup {Len(f) + 1}
      /\ \A i \in DOMAIN f : g[i] = f[i]
      /\ g[Len(f) + 1] = l
  BY AppendProperties
<1>2. \A r : r # Junk => LinesWith(g, r) = LinesWith(f, r)
  BY LinesAppend
<1> HIDE DEF g
<1>3. {g[i].row : i \in DOMAIN g} \ {Junk} = {f[i].row : i \in DOMAIN f} \ {Junk}
  BY <1>1
<1> QED BY <1>2, <1>3 DEF Readable, g

LEMMA FrontAndLast ==
  ASSUME NEW f \in Seq(Lines), f # <<>>
  PROVE  Front(f) \in Seq(Lines) /\ Last(f) \in Lines /\ f = Append(Front(f), Last(f))
<1>1. Len(f) \in Nat /\ Len(f) > 0 /\ \A i \in 1 .. Len(f) : f[i] \in Lines
  OBVIOUS
<1>2. Front(f) \in Seq(Lines) /\ Len(Front(f)) = Len(f) - 1 /\ \A i \in 1 .. Len(f) - 1 : Front(f)[i] = f[i]
  <2>1. \A i \in 1 .. Len(f) - 1 : f[i] \in Lines
    BY <1>1
  <2> DEFINE k == Len(f) - 1
             s == SubSeq(f, 1, k)
  <2>2. k \in Nat /\ Front(f) = s /\ \A i \in 1 .. k : f[i] \in Lines
    BY <1>1 DEF Front
  <2> HIDE DEF k
  <2>3. /\ s \in Seq(Lines)
        /\ Len(s) = IF 1 <= k THEN k - 1 + 1 ELSE 0
        /\ \A i \in 1 .. k - 1 + 1 : s[i] = f[1 + i - 1]
    BY <2>2, SubSeqProperties
  <2> HIDE DEF s
  <2>4. Len(s) = k /\ \A i \in 1 .. k : s[i] = f[i]
    BY <2>2, <2>3
  <2> QED BY <2>2, <2>3, <2>4 DEF k
<1>3. Last(f) \in Lines
  BY <1>1 DEF Last
<1>4. Append(Front(f), Last(f)) = f
  BY <1>1, <1>2, <1>3, AppendProperties DEF Last
<1> QED BY <1>2, <1>3, <1>4

Cut(f) == f # <<>> /\ ~Last(f).ended

(* With a line more, readers find one row more or none.                    *)
LEMMA NumberAppend ==
  ASSUME NEW f \in Seq(Lines), NEW l \in Lines, NEW T
  PROVE  /\ NumberOf(Readable(f), T) \in Nat
         /\ NumberOf(Readable(Append(f, l)), T) =
              NumberOf(Readable(f), T) + (IF l.row # Junk /\ l.row \in T THEN 1 ELSE 0)
<1>1. RowBag(Readable(f))
  BY ReadableIsRowBag
<1>2. NumberOf(Readable(f), T) \in Nat
  BY <1>1, NumberIsNat
<1>3. CASE l.row = Junk
  BY <1>2, <1>3, ReadableJunk
<1>4. CASE l.row # Junk
  <2>1. l.row \in Rows
    BY <1>4 DEF Lines
  <2>2. Readable(Append(f, l)) = Readable(f) (+) SetToBag({l.row})
    BY <2>1, ReadableAppend
  <2> QED BY <1>1, <1>2, <1>4, <2>1, <2>2, NumberOneMore
<1> QED BY <1>3, <1>4

(* An append adds its row, or ends a line that was cut short, which may    *)
(* have said a row so far.                                                 *)
LEMMA NumberAppended ==
  ASSUME NEW f \in Seq(Lines), NEW r \in Rows, NEW T
  PROVE  /\ NumberOf(Readable(Appended(f, r)), T) \in Nat
         /\ ~Cut(Appended(f, r))
         /\ ~Cut(f) => NumberOf(Readable(Appended(f, r)), T) =
                         NumberOf(Readable(f), T) + (IF r \in T THEN 1 ELSE 0)
         /\ Cut(f) => /\ NumberOf(Readable(Appended(f, r)), T) <= NumberOf(Readable(f), T)
                      /\ NumberOf(Readable(f), T) <= NumberOf(Readable(Appended(f, r)), T) + 1
<1>1. r # Junk
  BY JunkAssumption DEF Rows, Tasks
<1>2. CASE ~Cut(f)
  <2> DEFINE l == [row |-> r, ended |-> TRUE]
  <2>1. l \in Lines /\ l.row = r /\ l.ended
    BY DEF Lines
  <2>2. Appended(f, r) = Append(f, l)
    BY <1>2 DEF Appended, Cut
  <2> HIDE DEF l
  <2>3. ~Cut(Append(f, l))
    BY <2>1, AppendProperties DEF Cut, Last
  <2>4. /\ NumberOf(Readable(f), T) \in Nat
        /\ NumberOf(Readable(Append(f, l)), T) = NumberOf(Readable(f), T) + (IF r \in T THEN 1 ELSE 0)
    BY <1>1, <2>1, NumberAppend
  <2> QED BY <1>2, <2>2, <2>3, <2>4
<1>3. CASE Cut(f)
  <2> DEFINE l == [row |-> Junk, ended |-> TRUE]
             m == Last(f)
             n == Front(f)
  <2>1. l \in Lines /\ l.row = Junk /\ l.ended
    BY DEF Lines
  <2>2. Appended(f, r) = Append(n, l)
    BY <1>3 DEF Appended, Cut
  <2>3. n \in Seq(Lines) /\ m \in Lines /\ f = Append(n, m)
    BY <1>3, FrontAndLast DEF Cut
  <2> HIDE DEF l, m, n
  <2>4. ~Cut(Append(n, l))
    BY <2>1, <2>3, AppendProperties DEF Cut, Last
  <2>5. /\ NumberOf(Readable(n), T) \in Nat
        /\ NumberOf(Readable(f), T) = NumberOf(Readable(n), T) + (IF m.row # Junk /\ m.row \in T THEN 1 ELSE 0)
        /\ NumberOf(Readable(Append(n, l)), T) = NumberOf(Readable(n), T)
    BY <2>1, <2>3, NumberAppend
  <2> QED BY <1>3, <2>2, <2>4, <2>5
<1> QED BY <1>2, <1>3

(* What a death leaves of an append is at most its row.                    *)
LEMMA NumberCutShort ==
  ASSUME NEW f \in Seq(Lines), NEW r \in Rows, NEW g \in CutShort(f, r), NEW T
  PROVE  /\ NumberOf(Readable(g), T) \in Nat
         /\ NumberOf(Readable(g), T) <= NumberOf(Readable(f), T) + (IF r \in T THEN 1 ELSE 0)
<1>1. r # Junk /\ NumberOf(Readable(f), T) \in Nat
  BY JunkAssumption, ReadableIsRowBag, NumberIsNat DEF Rows, Tasks
<1> DEFINE l == [row |-> r, ended |-> FALSE]
           j == [row |-> Junk, ended |-> FALSE]
           m == Last(f)
           n == Front(f)
<1>2. l \in Lines /\ l.row = r /\ j \in Lines /\ j.row = Junk
  BY DEF Lines
<1>3. g = f \/ (Cut(f) /\ g = Append(n, j)) \/ g = Append(f, l) \/ g = Append(f, j)
  BY DEF CutShort, Cut
<1>4. Cut(f) => n \in Seq(Lines) /\ m \in Lines /\ f = Append(n, m)
  BY FrontAndLast DEF Cut
<1> HIDE DEF l, j, m, n
<1>5. CASE g = f
  BY <1>1, <1>5
<1>6. CASE Cut(f) /\ g = Append(n, j)
  <2>1. /\ NumberOf(Readable(n), T) \in Nat
        /\ NumberOf(Readable(f), T) = NumberOf(Readable(n), T) + (IF m.row # Junk /\ m.row \in T THEN 1 ELSE 0)
        /\ NumberOf(Readable(g), T) = NumberOf(Readable(n), T)
    <3>1. n \in Seq(Lines) /\ m \in Lines /\ f = Append(n, m) /\ g = Append(n, j)
      BY <1>4, <1>6
    <3>2. /\ NumberOf(Readable(n), T) \in Nat
          /\ NumberOf(Readable(Append(n, m)), T) =
               NumberOf(Readable(n), T) + (IF m.row # Junk /\ m.row \in T THEN 1 ELSE 0)
      BY <3>1, NumberAppend
    <3>3. NumberOf(Readable(Append(n, j)), T) = NumberOf(Readable(n), T)
      BY <1>2, <3>1, <3>2, NumberAppend
    <3> QED BY <3>1, <3>2, <3>3
  <2> QED BY <2>1
<1>7. CASE g = Append(f, l)
  BY <1>1, <1>2, <1>7, NumberAppend
<1>8. CASE g = Append(f, j)
  BY <1>1, <1>2, <1>8, NumberAppend
<1> QED BY <1>3, <1>5, <1>6, <1>7, <1>8

-------------------------------------------------------------------------------
(* Where the process stands, the rows it holds and those it will find      *)
(* again.  The second is the first while no line is cut short; a death     *)
(* leaves at most the row under way on top.                                *)

Asks(t) == Episodes(results, t)
Finds(t) == Episodes(Kept, t)

CapInv ==
  Adaptive =>
    /\ \A t \in Tasks : Asks(t) < AdaptiveMax + NumEnvs /\ Finds(t) < AdaptiveMax + NumEnvs
    /\ Up => \A t \in Tasks : Finds(t) <= Asks(t)
    /\ pc = "rows" => Asks(task) < AdaptiveMax + row

LossInv ==
  Up => IF Cut(file) THEN results = Kept
        ELSE NumberOf(results, Rows) <= NumberOf(Kept, Rows) + 2

CountInv == RowBag(results) /\ CapInv /\ LossInv

LEMMA NothingInBag ==
  ASSUME NEW T
  PROVE  RowBag(EmptyBag) /\ NumberOf(EmptyBag, T) = 0
<1>1. DOMAIN EmptyBag = {} /\ IsABag(EmptyBag) /\ BagToSet(EmptyBag) = {}
  BY DEF IsABag, EmptyBag, SetToBag, BagToSet
<1>2. NumberOf(EmptyBag, T) = 0
  <2> DEFINE f == [r \in BagToSet(EmptyBag) \cap T |-> EmptyBag[r]]
  <2>1. DOMAIN f = {}
    BY <1>1
  <2> HIDE DEF f
  <2>2. SumOf(f) = 0
    BY <2>1, SumOfNothing
  <2> QED BY <2>2 DEF NumberOf, f
<1> QED BY <1>1, <1>2, FS_EmptySet DEF RowBag

(* What is asked for and found, in numbers.                                *)
LEMMA NumbersAsked ==
  ASSUME Places, RowBag(results)
  PROVE  /\ RowBag(Kept) /\ file \in Seq(Lines)
         /\ \A t : /\ Asks(t) \in Nat /\ Asks(t) = NumberOf(results, OfTask(t))
                   /\ Finds(t) \in Nat /\ Finds(t) = NumberOf(Kept, OfTask(t))
         /\ NumberOf(results, Rows) \in Nat /\ NumberOf(Kept, Rows) \in Nat
<1>1. file \in Seq(Lines)
  BY DEF Places, TypeOK, Lines
<1>2. RowBag(Kept)
  BY <1>1, ReadableIsRowBag DEF Kept
<1> QED BY <1>1, <1>2, NumberIsNat DEF Asks, Finds

LEMMA CountAppend ==
  ASSUME Places, CountInv, AppendRow
  PROVE  CountInv'
<1>1. PICK success \in BOOLEAN :
        /\ results' = results (+) SetToBag({NewRow(success)})
        /\ file' = Appended(file, NewRow(success))
  BY DEF AppendRow
<1> DEFINE r == NewRow(success)
<1>2. r \in Rows /\ r.task = task
  <2>1. r \in Rows
    BY NewRowIsRow DEF AppendRow
  <2> QED BY <2>1 DEF NewRow
<1>3. results' = results (+) SetToBag({r}) /\ file' = Appended(file, r)
  BY <1>1
<1> HIDE DEF r
<1>4. /\ pc = "rows" /\ task' = task /\ row \in Nat /\ NumEnvs \in Nat /\ row < NumEnvs /\ AdaptiveMax \in Nat
      /\ \/ pc' = "rows" /\ row' = row + 1
         \/ pc' = "runs" /\ row' = 0
  BY SizeAssumption, AdaptiveAssumption DEF AppendRow, Places, TypeOK
<1>5. /\ RowBag(results) /\ RowBag(Kept) /\ file \in Seq(Lines) /\ Places'
      /\ \A t : /\ Asks(t) \in Nat /\ Asks(t) = NumberOf(results, OfTask(t))
                /\ Finds(t) \in Nat /\ Finds(t) = NumberOf(Kept, OfTask(t))
      /\ NumberOf(results, Rows) \in Nat /\ NumberOf(Kept, Rows) \in Nat
  <2>1. RowBag(results)
    BY DEF CountInv
  <2>2. Places'
    BY PlacesNext DEF Next, Work
  <2> QED BY <2>1, <2>2, NumbersAsked
<1>6. /\ RowBag(results')
      /\ \A T : NumberOf(results', T) = NumberOf(results, T) + (IF r \in T THEN 1 ELSE 0)
  BY <1>2, <1>3, <1>5, NumberOneMore
<1>7. RowBag(Kept') /\ \A t : Asks(t)' = NumberOf(results', OfTask(t)) /\ Finds(t)' = NumberOf(Kept', OfTask(t))
  <2>1. file' \in Seq(Lines)
    BY <1>5 DEF Places, TypeOK, Lines
  <2>2. RowBag(Kept')
    BY <2>1, ReadableIsRowBag DEF Kept
  <2> QED BY <1>6, <2>2, NumberIsNat DEF Asks, Finds
<1>8. /\ \A T : NumberOf(Kept', T) \in Nat
      /\ ~Cut(file')
      /\ ~Cut(file) => \A T : NumberOf(Kept', T) = NumberOf(Kept, T) + (IF r \in T THEN 1 ELSE 0)
      /\ Cut(file) => \A T : /\ NumberOf(Kept', T) <= NumberOf(Kept, T)
                             /\ NumberOf(Kept, T) <= NumberOf(Kept', T) + 1
  BY <1>2, <1>3, <1>5, NumberAppended DEF Kept
<1>9. \A t \in Tasks : r \in OfTask(t) <=> t = task
  BY <1>2 DEF OfTask
<1>10. ASSUME Adaptive, NEW t \in Tasks
       PROVE  /\ Asks(t)' = Asks(t) + (IF t = task THEN 1 ELSE 0)
              /\ Finds(t)' <= Finds(t) + (IF t = task THEN 1 ELSE 0)
              /\ Asks(t) \in Nat /\ Finds(t) \in Nat /\ Asks(t)' \in Nat /\ Finds(t)' \in Nat
              /\ Finds(t)' <= Asks(t)'
              /\ Asks(t)' < AdaptiveMax + NumEnvs
  <2>1. Asks(t)' = Asks(t) + (IF t = task THEN 1 ELSE 0)
    BY <1>5, <1>6, <1>7, <1>9
  <2>2. Finds(t)' <= Finds(t) + (IF t = task THEN 1 ELSE 0) /\ Finds(t)' \in Nat
    <3>1. CASE ~Cut(file)
      BY <1>5, <1>7, <1>8, <1>9, <3>1
    <3>2. CASE Cut(file)
      BY <1>5, <1>7, <1>8, <1>9, <3>2
    <3> QED BY <3>1, <3>2
  <2>3. Finds(t) <= Asks(t) /\ Asks(t) < AdaptiveMax + NumEnvs /\ Asks(task) < AdaptiveMax + row
    BY <1>4, <1>10 DEF CountInv, CapInv, Up
  <2>4. Asks(t) \in Nat /\ Finds(t) \in Nat
    BY <1>5
  <2> QED BY <1>4, <2>1, <2>2, <2>3, <2>4
<1>11. CapInv'
  <2> SUFFICES ASSUME Adaptive'
               PROVE  /\ \A t \in Tasks : Asks(t)' < AdaptiveMax + NumEnvs /\ Finds(t)' < AdaptiveMax + NumEnvs
                      /\ \A t \in Tasks : Finds(t)' <= Asks(t)'
                      /\ pc' = "rows" => Asks(task)' < AdaptiveMax + row'
    BY DEF CapInv
  <2>1. \A t \in Tasks : /\ Asks(t)' < AdaptiveMax + NumEnvs /\ Finds(t)' <= Asks(t)'
                         /\ Finds(t)' < AdaptiveMax + NumEnvs
    BY <1>4, <1>10
  <2>2. ASSUME pc' = "rows" PROVE Asks(task)' < AdaptiveMax + row'
    <3>1. task \in Tasks /\ row' = row + 1
      BY <1>4, <2>2 DEF Places
    <3>2. NumberOf(results', OfTask(task)) = Asks(task) + 1
      BY <1>5, <1>6, <1>9, <3>1
    <3>3. Asks(task) < AdaptiveMax + row /\ Asks(task) \in Nat
      BY <1>4, <1>5 DEF CountInv, CapInv
    <3>4. Asks(task)' = NumberOf(results', OfTask(task))
      BY <1>4, <1>7 DEF Asks
    <3> QED BY <1>4, <3>1, <3>2, <3>3, <3>4
  <2> QED BY <2>1, <2>2
<1>12. LossInv'
  <2>1. NumberOf(results', Rows) = NumberOf(results, Rows) + 1
    BY <1>2, <1>6
  <2>2. NumberOf(results', Rows) <= NumberOf(Kept', Rows) + 2
    <3>1. CASE ~Cut(file)
      <4>1. NumberOf(Kept', Rows) = NumberOf(Kept, Rows) + 1
        BY <1>2, <1>8, <3>1
      <4>2. NumberOf(results, Rows) <= NumberOf(Kept, Rows) + 2
        BY <1>4, <3>1 DEF CountInv, LossInv, Up
      <4> QED BY <1>5, <2>1, <4>1, <4>2
    <3>2. CASE Cut(file)
      <4>1. NumberOf(results, Rows) = NumberOf(Kept, Rows)
        BY <1>4, <3>2 DEF CountInv, LossInv, Up
      <4>2. NumberOf(Kept, Rows) <= NumberOf(Kept', Rows) + 1 /\ NumberOf(Kept', Rows) \in Nat
        BY <1>8, <3>2
      <4> QED BY <1>5, <2>1, <4>1, <4>2
    <3> QED BY <3>1, <3>2
  <2> QED BY <1>8, <2>2 DEF LossInv
<1> QED BY <1>6, <1>11, <1>12 DEF CountInv

(* A step that keeps the file and the rows, and goes on to rows only below *)
(* the cap.                                                                *)
LEMMA CountSame ==
  ASSUME CountInv, UNCHANGED <<results, file>>, Up' => Up,
         Adaptive /\ pc' = "rows" => Asks(task') < AdaptiveMax + row'
  PROVE  CountInv'
<1>1. Kept' = Kept /\ RowBag(results)' /\ Cut(file)' = Cut(file)
  BY DEF Kept, CountInv
<1>2. \A t : Asks(t)' = Asks(t) /\ Finds(t)' = Finds(t)
  BY <1>1 DEF Asks, Finds
<1>3. CapInv'
  <2>1. ASSUME Adaptive, pc' = "rows" PROVE Asks(task)' < AdaptiveMax + row'
    BY <2>1, <1>2 DEF Asks
  <2> QED BY <1>2, <2>1 DEF CountInv, CapInv
<1>4. LossInv'
  BY <1>1 DEF CountInv, LossInv
<1> QED BY <1>1, <1>3, <1>4 DEF CountInv

LEMMA CountNext == Places /\ CountInv /\ [Next]_vars => CountInv'
<1> SUFFICES ASSUME Places, CountInv, [Next]_vars PROVE CountInv'
  OBVIOUS
<1>1. CASE SkipTask \/ OpenTask \/ SkipRun \/ CloseTask \/ Finish
  <2>1. UNCHANGED <<results, file>> /\ Up /\ pc' # "rows"
    BY <1>1 DEF SkipTask, OpenTask, SkipRun, CloseTask, Finish, Up
  <2> QED BY <2>1, CountSame
<1>2. CASE RunEpisode
  <2>1. UNCHANGED <<results, file, task>> /\ Up /\ row' = 0 /\ MoreRuns
    BY <1>2 DEF RunEpisode, Up
  <2>2. Adaptive => Asks(task) < AdaptiveMax
    BY <2>1 DEF MoreRuns, ShouldContinue, Asks
  <2>3. Adaptive => Asks(task') < AdaptiveMax + row'
    <3>1. AdaptiveMax \in Nat
      BY AdaptiveAssumption
    <3> QED BY <2>1, <2>2, <3>1
  <2> QED BY <2>1, <2>3, CountSame
<1>3. CASE UNCHANGED vars
  <2>1. UNCHANGED <<results, file, pc, task, row>>
    BY <1>3 DEF vars
  <2>2. Adaptive /\ pc' = "rows" => Asks(task') < AdaptiveMax + row'
    BY <2>1 DEF CountInv, CapInv
  <2> QED BY <2>1, <2>2, CountSame DEF Up
<1>4. CASE AppendRow
  BY <1>4, CountAppend
<1>5. CASE Start
  <2>1. results' = Kept /\ Kept' = Kept /\ Up' /\ pc' = "tasks"
    BY <1>5 DEF Start, Kept, Up
  <2>2. /\ RowBag(Kept) /\ NumberOf(Kept, Rows) \in Nat
        /\ \A t : Finds(t) \in Nat
    BY NumbersAsked DEF CountInv
  <2>3. RowBag(results')
    BY <2>1, <2>2
  <2>4. \A t : Asks(t)' = Finds(t) /\ Finds(t)' = Finds(t)
    BY <2>1 DEF Asks, Finds
  <2>5. CapInv'
    <3> SUFFICES ASSUME Adaptive, NEW t \in Tasks
                 PROVE  /\ Asks(t)' < AdaptiveMax + NumEnvs /\ Finds(t)' < AdaptiveMax + NumEnvs
                        /\ Finds(t)' <= Asks(t)'
      BY <2>1 DEF CapInv
    <3>1. Finds(t) < AdaptiveMax + NumEnvs
      BY DEF CountInv, CapInv
    <3> QED BY <2>2, <2>4, <3>1
  <2>6. LossInv'
    BY <2>1, <2>2 DEF LossInv
  <2> QED BY <2>3, <2>5, <2>6 DEF CountInv
<1>6. CASE Crash
  <2>1. results' = EmptyBag /\ ~Up' /\ pc' = "down" /\ Up
    BY <1>6 DEF Crash, Up
  <2>2. /\ RowBag(results) /\ file \in Seq(Lines)
        /\ \A t : /\ Asks(t) \in Nat /\ Finds(t) \in Nat /\ Finds(t) = NumberOf(Kept, OfTask(t))
    BY NumbersAsked DEF CountInv
  <2>3. RowBag(results') /\ \A t : Asks(t)' = 0
    <3>1. RowBag(EmptyBag) /\ \A T : NumberOf(EmptyBag, T) = 0
      BY NothingInBag
    <3> QED BY <2>1, <3>1, NumberIsNat DEF Asks
  <2>4. LossInv'
    BY <2>1 DEF LossInv
  <2>5. /\ NumEnvs \in Nat /\ NumEnvs > 0 /\ AdaptiveMax \in Nat /\ row \in 0 .. NumEnvs - 1
    BY SizeAssumption, AdaptiveAssumption DEF Places, TypeOK
  <2>6. ASSUME Adaptive, NEW t \in Tasks PROVE Finds(t)' < AdaptiveMax + NumEnvs
    <3>1. Finds(t) < AdaptiveMax + NumEnvs
      BY <2>6 DEF CountInv, CapInv
    <3>2. CASE pc # "rows"
      <4>1. Finds(t)' = Finds(t)
        BY <1>6, <3>2 DEF Crash, Finds, Kept
      <4> QED BY <3>1, <4>1
    <3>3. CASE pc = "rows"
      <4>1. PICK success \in BOOLEAN : file' \in CutShort(file, NewRow(success))
        BY <1>6, <3>3 DEF Crash
      <4> DEFINE r == NewRow(success)
      <4>2. r \in Rows /\ r.task = task
        <5>1. r \in Rows
          BY <3>3, NewRowIsRow
        <5> QED BY <5>1 DEF NewRow
      <4> HIDE DEF r
      <4>3. Finds(t)' = NumberOf(Readable(file'), OfTask(t))
        <5>1. file' \in Seq(Lines)
          BY <2>2, <4>1, <4>2, AppendedLines DEF r
        <5>2. RowBag(Readable(file'))
          BY <5>1, ReadableIsRowBag
        <5> QED BY <5>2, NumberIsNat DEF Finds, Kept
      <4>4. Finds(t)' \in Nat /\ Finds(t)' <= Finds(t) + (IF r \in OfTask(t) THEN 1 ELSE 0)
        BY <2>2, <4>1, <4>2, <4>3, NumberCutShort DEF Kept, r
      <4>5. CASE t = task
        <5>1. Finds(t) < AdaptiveMax + row
          BY <2>1, <2>2, <2>5, <2>6, <3>3, <4>5 DEF CountInv, CapInv
        <5> QED BY <2>2, <2>5, <4>4, <5>1
      <4>6. CASE t # task
        <5>1. r \notin OfTask(t)
          BY <4>2, <4>6 DEF OfTask
        <5> QED BY <2>2, <2>5, <3>1, <4>4, <5>1
      <4> QED BY <4>5, <4>6
    <3> QED BY <3>2, <3>3
  <2>7. CapInv'
    <3>1. \A t \in Tasks : Asks(t)' < AdaptiveMax + NumEnvs
      BY <2>3, <2>5
    <3> QED BY <2>1, <2>6, <3>1 DEF CapInv
  <2> QED BY <2>3, <2>4, <2>7 DEF CountInv
<1> QED BY <1>1, <1>2, <1>3, <1>4, <1>5, <1>6 DEF Next, Work

LEMMA CountInit == Init => CountInv
<1> SUFFICES ASSUME Init PROVE CountInv
  OBVIOUS
<1>1. results = EmptyBag /\ file = <<>> /\ pc = "down" /\ ~Up
  BY DEF Init, Up
<1>2. RowBag(EmptyBag) /\ \A T : NumberOf(EmptyBag, T) = 0
  BY NothingInBag
<1>3. DOMAIN Kept = {} /\ BagToSet(Kept) = {}
  BY <1>1 DEF Kept, Readable, BagToSet
<1>4. \A t : Asks(t) = 0
  BY <1>1, <1>2, NumberIsNat DEF Asks
<1>5. \A t : Finds(t) = 0
  <2> SUFFICES ASSUME NEW t PROVE Finds(t) = 0
    OBVIOUS
  <2> DEFINE f == [r \in BagToSet(Kept) \cap {r \in BagToSet(Kept) : r.task = t} |-> Kept[r]]
  <2>1. DOMAIN f = {}
    BY <1>3
  <2>2. Finds(t) = SumOf(f)
    BY DEF Finds, Episodes, NumberOf
  <2> HIDE DEF f
  <2> QED BY <2>1, <2>2, SumOfNothing
<1>6. AdaptiveMax + NumEnvs > 0 /\ pc # "rows"
  BY <1>1, SizeAssumption, AdaptiveAssumption
<1>7. CapInv
  BY <1>1, <1>4, <1>5, <1>6 DEF CapInv
<1>8. LossInv
  BY <1>1 DEF LossInv
<1> QED BY <1>1, <1>2, <1>7, <1>8 DEF CountInv

(* Adaptive sampling stops within a batch of its cap, over deaths that cut *)
(* lines short and the repeats of a resume (should_continue_sampling).     *)
THEOREM AdaptiveStops == Spec => []AdaptiveBounded
<1>1. Places /\ CountInv => AdaptiveBounded
  BY DEF CountInv, CapInv, AdaptiveBounded, Asks
<1> QED BY <1>1, PlacesInit, PlacesNext, CountInit, CountNext, PTL DEF Spec

(* A line cut short costs the next process at most two rows               *)
(* (append_episode_to_jsonl, load_jsonl).                                  *)
THEOREM LossesAreBounded == Spec => []LossIsBounded
<1>1. Places /\ CountInv => LossIsBounded
  <2> SUFFICES ASSUME Places, CountInv, Up PROVE NumberOf(results, Rows) <= NumberOf(Kept, Rows) + 2
    <3>1. Places /\ CountInv => NumberOf(results, BagToSet(results)) = NumberOf(results, Rows)
      BY NumberIsNat DEF CountInv
    <3>2. Places /\ CountInv => NumberOf(Kept, BagToSet(Kept)) = NumberOf(Kept, Rows)
      BY NumbersAsked, NumberIsNat DEF CountInv
    <3> QED BY <3>1, <3>2 DEF LossIsBounded, Up, Kept
  <2>1. NumberOf(Kept, Rows) \in Nat
    BY NumbersAsked DEF CountInv
  <2> QED BY <2>1 DEF CountInv, LossInv
<1> QED BY <1>1, PlacesInit, PlacesNext, CountInit, CountNext, PTL DEF Spec
===============================================================================
