---------------------------- MODULE StoreProofs -----------------------------
(***************************************************************************)
(* Theorems about the store, for any number of writers and files, however  *)
(* they share them, and any number of failures and crashes.                *)
(***************************************************************************)
EXTENDS AppendStore, TLAPS

LEMMA StoreTypeInit == StoreInit => StoreTypeOK
  BY FreeAssumption DEF StoreInit, StoreTypeOK, Stages

LEMMA PutType ==
  ASSUME StoreTypeOK, NEW w \in Writers, NEW b \in BOOLEAN, Put(w, b)
  PROVE  disk' \in [Files -> Seq(Fragment)]
<1>1. [writer |-> w, n |-> count[w], newline |-> b] \in Fragment
  BY DEF StoreTypeOK, Fragment
<1>. QED  BY <1>1 DEF Put, StoreTypeOK

LEMMA StoreTypeStep == StoreTypeOK /\ [StoreNext]_storeVars => StoreTypeOK'
<1> SUFFICES ASSUME StoreTypeOK, [StoreNext]_storeVars PROVE StoreTypeOK'
  OBVIOUS
<1>. USE DEF StoreTypeOK, Stages, Moves
<1>1. ASSUME NEW w \in Writers, NEW f \in Files, Call(w, f) PROVE StoreTypeOK'
  BY <1>1 DEF Call
<1>2. ASSUME NEW w \in Writers, Lock(w) PROVE StoreTypeOK'
  BY <1>2 DEF Lock, TakeMutex
<1>3. ASSUME NEW w \in Writers, Open(w) PROVE StoreTypeOK'
  BY <1>3 DEF Open, OpenedForAppend
<1>4. ASSUME NEW w \in Writers, ReturnError(w) PROVE StoreTypeOK'
  BY <1>4 DEF ReturnError, UnlockOnError
<1>5. ASSUME NEW w \in Writers, WritePart(w) PROVE StoreTypeOK'
  BY <1>5, PutType DEF WritePart
<1>6. ASSUME NEW w \in Writers, WriteRest(w) PROVE StoreTypeOK'
  BY <1>6, PutType DEF WriteRest
<1>7. ASSUME NEW w \in Writers, ReturnNil(w) PROVE StoreTypeOK'
  <2>1. [writer |-> w, n |-> count[w], file |-> file[w]] \in Line
    BY DEF Line
  <2>. QED  BY <1>7, <2>1 DEF ReturnNil
<1>8. CASE CrashAndRestart
  BY <1>8 DEF CrashAndRestart
<1>9. CASE UNCHANGED storeVars
  BY <1>9 DEF storeVars
<1>. QED
  BY <1>1, <1>2, <1>3, <1>4, <1>5, <1>6, <1>7, <1>8, <1>9
     DEF StoreNext, StoreStep, Quiescent

\* Every variable of the store keeps to its type.
THEOREM StoreTypeCorrect == StoreSpec => []StoreTypeOK
  BY StoreTypeInit, StoreTypeStep, PTL DEF StoreSpec

-----------------------------------------------------------------------------

\* The writer past Lock is the one that holds the mutex.
Exclusive == \A w \in Writers : at[w] \in Holding <=> mu = w

\* Half a line is the last thing in its file.
OpenLine(w) == [writer |-> w, n |-> count[w], newline |-> FALSE]

HalfLineIsLast ==
    \A w \in Writers : at[w] = "writing" =>
        /\ disk[file[w]] # <<>>
        /\ disk[file[w]][Len(disk[file[w]])] = OpenLine(w)

\* LinesUnbroken alone is not inductive: the second half of a line lands behind
\* the first only because no other writer wrote in between, which is Exclusive.
StoreInv ==
    /\ StoreTypeOK
    /\ Exclusive
    /\ HalfLineIsLast
    /\ LinesUnbroken

\* What appending one fragment does to the files.
LEMMA PutAppends ==
  ASSUME StoreTypeOK, NEW w \in Writers, NEW b \in BOOLEAN, Put(w, b)
  PROVE  LET d == disk[file[w]]
             e == disk'[file[w]]
         IN  /\ d \in Seq(Fragment) /\ Len(e) = Len(d) + 1
             /\ e[Len(e)] = [writer |-> w, n |-> count[w], newline |-> b]
             /\ \A i \in DOMAIN d : e[i] = d[i]
             /\ \A f \in Files : f # file[w] => disk'[f] = disk[f]
             /\ DOMAIN e = 1 .. Len(d) + 1 /\ DOMAIN d = 1 .. Len(d)
             /\ e # <<>>
<1>. DEFINE d == disk[file[w]]
            x == [writer |-> w, n |-> count[w], newline |-> b]
<1>1. file[w] \in Files /\ d \in Seq(Fragment) /\ x \in Fragment
  BY DEF StoreTypeOK, Fragment
<1>2. disk'[file[w]] = Append(d, x)
  BY <1>1 DEF Put, StoreTypeOK
<1>3. \A f \in Files : f # file[w] => disk'[f] = disk[f]
  BY <1>1 DEF Put, StoreTypeOK
<1>. HIDE DEF x, d
<1>4. /\ Len(Append(d, x)) = Len(d) + 1
      /\ Append(d, x)[Len(d) + 1] = x
      /\ \A i \in 1 .. Len(d) : Append(d, x)[i] = d[i]
      /\ DOMAIN Append(d, x) = 1 .. Len(d) + 1 /\ DOMAIN d = 1 .. Len(d)
      /\ Append(d, x) # <<>>
  BY <1>1
<1>. QED  BY <1>1, <1>2, <1>3, <1>4 DEF d, x

\* A first fragment breaks no line, and neither does a second one right behind it.
LEMMA PutKeepsLines ==
  ASSUME StoreTypeOK, LinesUnbroken, NEW w \in Writers, NEW b \in BOOLEAN, Put(w, b),
         b => /\ disk[file[w]] # <<>>
              /\ disk[file[w]][Len(disk[file[w]])] = OpenLine(w)
  PROVE  LinesUnbroken'
<1> SUFFICES ASSUME NEW f \in Files, NEW i \in DOMAIN disk'[f], disk'[f][i].newline
             PROVE  i > 1 /\ disk'[f][i - 1] = Beginning(disk'[f][i])
  BY DEF LinesUnbroken
<1>. DEFINE d == disk[file[w]]
            e == disk'[file[w]]
<1>1. /\ d \in Seq(Fragment) /\ Len(e) = Len(d) + 1
      /\ e[Len(e)] = [writer |-> w, n |-> count[w], newline |-> b]
      /\ \A j \in DOMAIN d : e[j] = d[j]
      /\ \A g \in Files : g # file[w] => disk'[g] = disk[g]
      /\ DOMAIN e = 1 .. Len(d) + 1 /\ DOMAIN d = 1 .. Len(d)
  BY PutAppends
<1>2. file[w] \in Files
  BY DEF StoreTypeOK
<1>3. CASE f # file[w]
  BY <1>1, <1>3 DEF LinesUnbroken
<1>4. CASE f = file[w] /\ i \in DOMAIN d
  <2>1. i > 1 /\ d[i - 1] = Beginning(d[i])
    BY <1>1, <1>2, <1>4 DEF LinesUnbroken
  <2>2. i - 1 \in DOMAIN d
    BY <1>1, <1>4, <2>1
  <2>. QED  BY <1>1, <1>4, <2>1, <2>2
<1>5. CASE f = file[w] /\ i \notin DOMAIN d
  <2>. HIDE DEF d, e
  <2>1. i = Len(d) + 1 /\ Len(d) \in Nat
    BY <1>1, <1>5 DEF e
  <2>2. e[i] = [writer |-> w, n |-> count[w], newline |-> b] /\ e[i].newline
    BY <1>1, <1>5, <2>1 DEF e
  <2>3. b
    BY <2>2 DEF OpenLine
  <2>4. d # <<>> /\ d[Len(d)] = OpenLine(w)
    BY <2>3 DEF d
  <2>5. Len(d) \in DOMAIN d
    BY <1>1, <2>1, <2>4
  <2>6. e[i - 1] = OpenLine(w)
    BY <1>1, <2>1, <2>4, <2>5
  <2>7. OpenLine(w) = Beginning(e[i])
    BY <2>2 DEF OpenLine, Beginning
  <2>8. i > 1
    BY <1>1, <2>1, <2>5
  <2>9. e[i - 1] = Beginning(e[i])
    BY <2>6, <2>7
  <2>. QED  BY <1>5, <2>8, <2>9 DEF e
<1>. QED  BY <1>3, <1>4, <1>5

LEMMA StoreInvInit == StoreInit => StoreInv
<1> SUFFICES ASSUME StoreInit PROVE StoreInv
  OBVIOUS
<1>1. Exclusive
  BY FreeAssumption DEF StoreInit, Exclusive, Holding
<1>2. HalfLineIsLast /\ LinesUnbroken
  BY DEF StoreInit, HalfLineIsLast, LinesUnbroken
<1>. QED  BY <1>1, <1>2, StoreTypeInit DEF StoreInv

LEMMA StoreInvStep == StoreInv /\ [StoreNext]_storeVars => StoreInv'
<1> SUFFICES ASSUME StoreInv, [StoreNext]_storeVars PROVE StoreInv'
  OBVIOUS
<1>0. StoreTypeOK /\ StoreTypeOK'
  BY StoreTypeStep DEF StoreInv
<1>. DEFINE Safe == Exclusive /\ HalfLineIsLast /\ LinesUnbroken
<1>1. ASSUME NEW w \in Writers, NEW f \in Files, Call(w, f) PROVE Safe'
  BY <1>1 DEF Call, Moves, StoreInv, StoreTypeOK, Exclusive, Holding, HalfLineIsLast,
     OpenLine, LinesUnbroken
<1>2. ASSUME NEW w \in Writers, Lock(w) PROVE Safe'
  BY <1>2, FreeAssumption DEF Lock, TakeMutex, Moves, StoreInv, StoreTypeOK, Exclusive,
     Holding, HalfLineIsLast, OpenLine, LinesUnbroken
<1>3. ASSUME NEW w \in Writers, Open(w) PROVE Safe'
  BY <1>3 DEF Open, OpenedForAppend, Moves, StoreInv, StoreTypeOK, Exclusive,
     Holding, HalfLineIsLast, OpenLine, LinesUnbroken
<1>4. ASSUME NEW w \in Writers, ReturnError(w) PROVE Safe'
  BY <1>4, FreeAssumption DEF ReturnError, UnlockOnError, Moves, StoreInv, StoreTypeOK,
     Exclusive, Holding, HalfLineIsLast, OpenLine, LinesUnbroken
<1>5. ASSUME NEW w \in Writers, WritePart(w) PROVE Safe'
  <2>. DEFINE g == file[w]
  <2>1. /\ at[w] = "opened" /\ at'[w] = "writing" /\ Put(w, FALSE)
        /\ \A v \in Writers : v # w => at'[v] = at[v]
        /\ UNCHANGED <<mu, file, count>> /\ g \in Files
    BY <1>0, <1>5 DEF WritePart, Moves, StoreTypeOK
  <2>2. \A v \in Writers : v # w => at[v] \notin Holding
    BY <2>1 DEF StoreInv, Exclusive, Holding
  <2>3. Exclusive'
    BY <2>1 DEF StoreInv, Exclusive, Holding
  <2>4. /\ disk'[g] # <<>> /\ disk'[g][Len(disk'[g])] = OpenLine(w)
    <3>1. disk'[g] # <<>>
      BY <1>0, <2>1, PutAppends
    <3>2. disk'[g][Len(disk'[g])] = [writer |-> w, n |-> count[w], newline |-> FALSE]
      BY <1>0, <2>1, PutAppends
    <3>. QED  BY <3>1, <3>2 DEF OpenLine
  <2>5. HalfLineIsLast'
    BY <2>1, <2>2, <2>4 DEF HalfLineIsLast, OpenLine, Holding
  <2>6. LinesUnbroken'
    BY <1>0, <2>1, PutKeepsLines DEF StoreInv
  <2>. QED  BY <2>3, <2>5, <2>6
<1>6. ASSUME NEW w \in Writers, WriteRest(w) PROVE Safe'
  <2>1. /\ at[w] = "writing" /\ at'[w] = "written" /\ Put(w, TRUE)
        /\ \A v \in Writers : v # w => at'[v] = at[v]
        /\ UNCHANGED <<mu, file, count>> /\ file[w] \in Files
    BY <1>0, <1>6 DEF WriteRest, Moves, StoreTypeOK
  <2>2. \A v \in Writers : v # w => at[v] \notin Holding
    BY <2>1 DEF StoreInv, Exclusive, Holding
  <2>3. Exclusive'
    BY <2>1 DEF StoreInv, Exclusive, Holding
  <2>4. HalfLineIsLast'
    BY <2>1, <2>2 DEF HalfLineIsLast, Holding
  <2>5. LinesUnbroken'
    BY <1>0, <2>1, PutKeepsLines DEF StoreInv, HalfLineIsLast
  <2>. QED  BY <2>3, <2>4, <2>5
<1>7. ASSUME NEW w \in Writers, ReturnNil(w) PROVE Safe'
  BY <1>7, FreeAssumption DEF ReturnNil, Moves, StoreInv, StoreTypeOK, Exclusive,
     Holding, HalfLineIsLast, OpenLine, LinesUnbroken
<1>8. ASSUME CrashAndRestart PROVE Safe'
  BY <1>8, FreeAssumption DEF CrashAndRestart, StoreInv, StoreTypeOK, Exclusive, Holding,
     HalfLineIsLast, LinesUnbroken
<1>9. ASSUME UNCHANGED storeVars PROVE Safe'
  BY <1>9 DEF storeVars, StoreInv, Exclusive, HalfLineIsLast, OpenLine, LinesUnbroken
<1>10. Safe'
  BY <1>1, <1>2, <1>3, <1>4, <1>5, <1>6, <1>7, <1>8, <1>9
     DEF StoreNext, StoreStep, Quiescent
<1>. QED  BY <1>0, <1>10 DEF StoreInv

\* However many goroutines append, fail and are killed, no line of a file is ever
\* broken by another one: the mutex is held from before the first byte of a line
\* until after its last one, or for as long as the process lives.
THEOREM LinesAreUnbroken == StoreSpec => []LinesUnbroken
<1>1. StoreInv => LinesUnbroken
  BY DEF StoreInv
<1>. QED  BY <1>1, StoreInvInit, StoreInvStep, PTL DEF StoreSpec

-----------------------------------------------------------------------------
(* Acknowledged lines                                                      *)

\* What is in the files of a writer's lines so far: before the first fragment of a line
\* only earlier lines, between the two no end of it.
LinesCounted ==
    \A f \in Files : \A i \in DOMAIN disk[f] :
        LET x == disk[f][i]
        IN  /\ x.n <= count[x.writer]
            /\ at[x.writer] \in {"locking", "locked", "opened"} => x.n < count[x.writer]
            /\ (at[x.writer] = "writing" /\ x.newline) => x.n < count[x.writer]

LineEnd(w) == [writer |-> w, n |-> count[w], newline |-> TRUE]

\* A writer that is about to return nil has its line in the file.
WrittenIsThere ==
    \A w \in Writers : at[w] = "written" =>
        \E i \in DOMAIN disk[file[w]] : disk[file[w]][i] = LineEnd(w)

AckInv ==
    /\ StoreInv
    /\ LinesCounted
    /\ WrittenIsThere
    /\ AckedOnceInOrder

\* A write leaves the fragments where they are and puts its own behind them.
LEMMA PutExtends ==
  ASSUME StoreTypeOK, NEW w \in Writers, NEW b \in BOOLEAN, Put(w, b)
  PROVE  /\ \A f \in Files : \A i \in DOMAIN disk[f] :
              i \in DOMAIN disk'[f] /\ disk'[f][i] = disk[f][i]
         /\ \A f \in Files : \A j \in DOMAIN disk'[f] : j \notin DOMAIN disk[f] =>
              /\ f = file[w]
              /\ disk'[f][j] = [writer |-> w, n |-> count[w], newline |-> b]
              /\ \A i \in DOMAIN disk'[f] : i <= j
         /\ \E j \in DOMAIN disk'[file[w]] :
              disk'[file[w]][j] = [writer |-> w, n |-> count[w], newline |-> b]
<1>. DEFINE d == disk[file[w]]
            e == disk'[file[w]]
            x == [writer |-> w, n |-> count[w], newline |-> b]
<1>1. /\ d \in Seq(Fragment) /\ Len(e) = Len(d) + 1
      /\ e[Len(e)] = x
      /\ \A j \in DOMAIN d : e[j] = d[j]
      /\ \A g \in Files : g # file[w] => disk'[g] = disk[g]
      /\ DOMAIN e = 1 .. Len(d) + 1 /\ DOMAIN d = 1 .. Len(d)
  BY PutAppends
<1>2. Len(d) \in Nat /\ Len(d) + 1 \in DOMAIN e
  BY <1>1
<1>. HIDE DEF d, e, x
<1>3. ASSUME NEW f \in Files, NEW i \in DOMAIN disk[f]
      PROVE  i \in DOMAIN disk'[f] /\ disk'[f][i] = disk[f][i]
  <2>1. CASE f = file[w]
    <3>1. i \in DOMAIN d
      BY <2>1 DEF d
    <3>2. i \in DOMAIN e /\ e[i] = d[i]
      BY <3>1, <1>1, <1>2
    <3>. QED  BY <3>2, <2>1 DEF d, e
  <2>2. CASE f # file[w]
    BY <2>2, <1>1
  <2>. QED  BY <2>1, <2>2
<1>4. ASSUME NEW f \in Files, NEW j \in DOMAIN disk'[f], j \notin DOMAIN disk[f]
      PROVE  f = file[w] /\ disk'[f][j] = x /\ \A i \in DOMAIN disk'[f] : i <= j
  <2>1. f = file[w]
    BY <1>1, <1>4
  <2>2. j \in DOMAIN e /\ j \notin DOMAIN d
    BY <2>1, <1>4 DEF d, e
  <2>3. j = Len(d) + 1
    BY <2>2, <1>1, <1>2
  <2>4. e[j] = x /\ \A i \in DOMAIN e : i <= j
    BY <2>3, <1>1, <1>2
  <2>. QED  BY <2>1, <2>4 DEF e
<1>5. \E j \in DOMAIN e : e[j] = x
  BY <1>1, <1>2
<1>. QED  BY <1>3, <1>4, <1>5 DEF e, x

\* A write in its turn keeps a writer's lines in the order in which they were begun.
LEMMA PutKeepsOrder ==
  ASSUME StoreTypeOK, LinesCounted, AckedOnceInOrder,
         NEW w \in Writers, NEW b \in BOOLEAN, Put(w, b),
         at[w] = (IF b THEN "writing" ELSE "opened"), UNCHANGED acked
  PROVE  AckedOnceInOrder'
<1>. DEFINE x == [writer |-> w, n |-> count[w], newline |-> b]
<1>1. \A f \in Files : \A i \in DOMAIN disk[f] :
              i \in DOMAIN disk'[f] /\ disk'[f][i] = disk[f][i]
  BY PutExtends
<1>2. \A f \in Files : \A j \in DOMAIN disk'[f] : j \notin DOMAIN disk[f] =>
              /\ disk'[f][j] = x
              /\ \A i \in DOMAIN disk'[f] : i <= j
  BY PutExtends
<1>3. \A f \in Files : \A i \in DOMAIN disk[f] : disk[f][i] \in Fragment /\ i \in Nat
  BY DEF StoreTypeOK
<1>4. count[w] \in Nat
  BY DEF StoreTypeOK
<1>5. ASSUME NEW l \in acked
      PROVE  \E i \in DOMAIN disk'[l.file] :
               disk'[l.file][i] = [writer |-> l.writer, n |-> l.n, newline |-> TRUE]
  <2>1. l.file \in Files
    BY DEF StoreTypeOK, Line
  <2>2. PICK i \in DOMAIN disk[l.file] :
               disk[l.file][i] = [writer |-> l.writer, n |-> l.n, newline |-> TRUE]
    BY DEF AckedOnceInOrder
  <2>. QED  BY <1>1, <2>1, <2>2
<1>6. ASSUME NEW f \in Files, NEW i \in DOMAIN disk'[f], NEW j \in DOMAIN disk'[f],
             i < j, disk'[f][i].writer = disk'[f][j].writer
      PROVE  \/ disk'[f][i].n < disk'[f][j].n
             \/ disk'[f][i].n = disk'[f][j].n /\ ~disk'[f][i].newline /\ disk'[f][j].newline
  <2>0. i \in DOMAIN disk[f]
    <3>1. i \in Nat /\ j \in Nat
      BY PutType DEF StoreTypeOK
    <3>2. ~(j <= i)
      BY <3>1, <1>6
    <3>. QED  BY <3>2, <1>2
  <2>1. CASE j \in DOMAIN disk[f]
    <3>1. disk'[f][i] = disk[f][i] /\ disk'[f][j] = disk[f][j]
      BY <2>0, <2>1, <1>1
    <3>2. disk[f][i].writer = disk[f][j].writer
      BY <3>1, <1>6
    <3>3. \/ disk[f][i].n < disk[f][j].n
          \/ disk[f][i].n = disk[f][j].n /\ ~disk[f][i].newline /\ disk[f][j].newline
      BY <3>2, <2>0, <2>1, <1>6 DEF AckedOnceInOrder
    <3>. QED  BY <3>1, <3>3
  <2>2. CASE j \notin DOMAIN disk[f]
    <3>. DEFINE y == disk[f][i]
    <3>1. disk'[f][i] = y /\ disk'[f][j] = x
      BY <2>0, <2>2, <1>1, <1>2
    <3>2. x.writer = w /\ x.n = count[w] /\ x.newline = b
      OBVIOUS
    <3>. HIDE DEF x, y
    <3>3. y.writer = w
      BY <3>1, <3>2, <1>6
    <3>4. /\ y.n <= count[w]
          /\ at[w] \in {"locking", "locked", "opened"} => y.n < count[w]
          /\ (at[w] = "writing" /\ y.newline) => y.n < count[w]
      BY <2>0, <3>3 DEF LinesCounted, y
    <3>5. y \in Fragment
      BY <1>3, <2>0 DEF y
    <3>6. y.n \in Nat /\ y.newline \in BOOLEAN
      BY <3>5 DEF Fragment
    <3>7. CASE b
      <4>1. y.newline => y.n < count[w]
        BY <3>4, <3>7
      <4>2. y.n < count[w] \/ (y.n = count[w] /\ ~y.newline)
        BY <4>1, <3>4, <3>6, <1>4
      <4>. QED  BY <4>2, <3>1, <3>2, <3>7
    <3>8. CASE ~b
      <4>1. y.n < count[w]
        BY <3>4, <3>8
      <4>. QED  BY <4>1, <3>1, <3>2
    <3>. QED  BY <3>7, <3>8
  <2>. QED  BY <2>1, <2>2
<1>. QED  BY <1>5, <1>6 DEF AckedOnceInOrder

LEMMA AckInvInit == StoreInit => AckInv
<1> SUFFICES ASSUME StoreInit PROVE AckInv
  OBVIOUS
<1>1. \A f \in Files : DOMAIN disk[f] = {}
  BY DEF StoreInit
<1>2. acked = {} /\ \A w \in Writers : at[w] = "idle"
  BY DEF StoreInit
<1>. QED
  BY <1>1, <1>2, StoreInvInit DEF AckInv, LinesCounted, WrittenIsThere, AckedOnceInOrder

\* Appending the next fragment in turn, and the steps that leave the files alone.
LEMMA PutKeepsCounts ==
  ASSUME StoreTypeOK, LinesCounted, NEW w \in Writers, NEW b \in BOOLEAN, Put(w, b),
         at[w] = (IF b THEN "writing" ELSE "opened"),
         Moves(w, IF b THEN "written" ELSE "writing"), UNCHANGED count
  PROVE  LinesCounted'
<1> SUFFICES ASSUME NEW f \in Files, NEW j \in DOMAIN disk'[f]
             PROVE  LET y == disk'[f][j]
                    IN  /\ y.n <= count[y.writer]
                        /\ at'[y.writer] \in {"locking", "locked", "opened"} => y.n < count[y.writer]
                        /\ (at'[y.writer] = "writing" /\ y.newline) => y.n < count[y.writer]
  BY DEF LinesCounted
<1>0. \A g \in Files : \A i \in DOMAIN disk[g] :
         i \in DOMAIN disk'[g] /\ disk'[g][i] = disk[g][i]
  BY PutExtends, Zenon
<1>. DEFINE y == disk'[f][j]
            x == [writer |-> w, n |-> count[w], newline |-> b]
<1>1. y \in Fragment
  BY PutType DEF StoreTypeOK
<1>2. y.writer \in Writers /\ count[y.writer] \in Nat
  BY <1>1 DEF Fragment, StoreTypeOK
<1>3. /\ at'[w] = (IF b THEN "written" ELSE "writing")
      /\ \A v \in Writers : v # w => at'[v] = at[v]
  BY DEF Moves, StoreTypeOK
<1>4. CASE j \in DOMAIN disk[f]
  <2>1. y = disk[f][j]
    BY <1>0, <1>4
  <2>2. /\ y.n <= count[y.writer]
        /\ at[y.writer] \in {"locking", "locked", "opened"} => y.n < count[y.writer]
        /\ (at[y.writer] = "writing" /\ y.newline) => y.n < count[y.writer]
    BY <1>4, <2>1 DEF LinesCounted
  <2>. HIDE DEF y
  <2>3. CASE y.writer = w
    <3>1. y.n <= count[w]
      BY <2>2, <2>3
    <3>2. CASE b
      BY <3>1, <3>2, <2>3, <1>3 DEF y
    <3>3. CASE ~b
      BY <3>1, <3>3, <2>2, <2>3, <1>3 DEF y
    <3>. QED  BY <3>2, <3>3
  <2>4. CASE y.writer # w
    <3>1. at'[y.writer] = at[y.writer]
      BY <2>4, <1>2, <1>3
    <3>. QED  BY <3>1, <2>2 DEF y
  <2>. QED  BY <2>3, <2>4
<1>5. CASE j \notin DOMAIN disk[f]
  <2>1. y = x
    BY <1>5, PutExtends
  <2>2. x.writer = w /\ x.n = count[w] /\ x.newline = b
    OBVIOUS
  <2>. HIDE DEF x, y
  <2>3. y.writer = w /\ y.n = count[w] /\ y.newline = b /\ count[w] \in Nat
    BY <1>2, <2>1, <2>2
  <2>4. at'[w] \notin {"locking", "locked", "opened"} /\ (at'[w] = "writing" => ~b)
    BY <1>3
  <2>. QED  BY <2>3, <2>4 DEF y
<1>. QED  BY <1>4, <1>5

\* Every step that writes nothing.
LEMMA NoPutKeepsAck ==
  ASSUME AckInv, StoreTypeOK', UNCHANGED disk,
         \/ \E w \in Writers : \E f \in Files : Call(w, f)
         \/ \E w \in Writers : Lock(w) \/ Open(w) \/ ReturnError(w) \/ ReturnNil(w)
         \/ CrashAndRestart
         \/ UNCHANGED storeVars
  PROVE  LinesCounted' /\ WrittenIsThere' /\ AckedOnceInOrder'
<1>0. StoreTypeOK /\ LinesCounted /\ WrittenIsThere /\ AckedOnceInOrder
  BY DEF AckInv, StoreInv
<1>1. ASSUME NEW f \in Files, NEW i \in DOMAIN disk[f]
      PROVE  /\ disk[f][i] \in Fragment
             /\ disk[f][i].writer \in Writers /\ disk[f][i].n \in Nat
  <2>1. disk[f][i] \in Fragment
    BY <1>0 DEF StoreTypeOK
  <2>. QED  BY <2>1 DEF Fragment
<1>2. ASSUME UNCHANGED acked  PROVE AckedOnceInOrder'
  BY <1>0, <1>2 DEF AckedOnceInOrder
<1>3. ASSUME UNCHANGED count, \A w \in Writers : at'[w] \in {at[w], "idle", "written"}
      PROVE  LinesCounted'
  <2>1. ASSUME NEW f \in Files, NEW i \in DOMAIN disk[f]
        PROVE  LET x == disk[f][i]
               IN  /\ x.n <= count[x.writer]
                   /\ at'[x.writer] \in {"locking", "locked", "opened"} => x.n < count[x.writer]
                   /\ (at'[x.writer] = "writing" /\ x.newline) => x.n < count[x.writer]
    BY <1>0, <1>1, <1>3 DEF LinesCounted
  <2>. QED  BY <2>1, <1>3 DEF LinesCounted
<1>4. ASSUME UNCHANGED <<count, file>>, \A w \in Writers : at'[w] = "written" => at[w] = "written"
      PROVE  WrittenIsThere'
  BY <1>0, <1>4 DEF WrittenIsThere, LineEnd
<1>5. ASSUME NEW w \in Writers, NEW f \in Files, Call(w, f)
      PROVE  LinesCounted' /\ WrittenIsThere' /\ AckedOnceInOrder'
  <2>1. /\ at'[w] = "locking" /\ at[w] = "idle" /\ count'[w] = count[w] + 1
        /\ \A v \in Writers : v # w => /\ at'[v] = at[v] /\ count'[v] = count[v]
                                       /\ file'[v] = file[v]
        /\ UNCHANGED acked
    BY <1>0, <1>5 DEF Call, Moves, StoreTypeOK
  <2>2. \A v \in Writers : count[v] \in Nat
    BY <1>0 DEF StoreTypeOK
  <2>3. ASSUME NEW g \in Files, NEW i \in DOMAIN disk[g]
        PROVE  LET x == disk[g][i]
               IN  /\ x.n <= count'[x.writer]
                   /\ at'[x.writer] \in {"locking", "locked", "opened"} => x.n < count'[x.writer]
                   /\ (at'[x.writer] = "writing" /\ x.newline) => x.n < count'[x.writer]
    <3>. DEFINE x == disk[g][i]
    <3>1. x.writer \in Writers /\ x.n \in Nat
      BY <1>1
    <3>2. /\ x.n <= count[x.writer]
          /\ at[x.writer] \in {"locking", "locked", "opened"} => x.n < count[x.writer]
          /\ (at[x.writer] = "writing" /\ x.newline) => x.n < count[x.writer]
      BY <1>0 DEF LinesCounted
    <3>. HIDE DEF x
    <3>3. CASE x.writer = w
      <4>1. x.n < count'[w]
        BY <2>1, <2>2, <3>1, <3>2, <3>3
      <4>2. x.n <= count'[w]
        BY <4>1, <2>1, <2>2, <3>1
      <4>. QED  BY <4>1, <4>2, <3>3 DEF x
    <3>4. CASE x.writer # w
      BY <2>1, <3>1, <3>2, <3>4 DEF x
    <3>. QED  BY <3>3, <3>4
  <2>4. LinesCounted'
    BY <2>3 DEF LinesCounted
  <2>5. WrittenIsThere'
    BY <1>0, <2>1 DEF WrittenIsThere, LineEnd
  <2>. QED  BY <2>1, <2>4, <2>5, <1>2
<1>6. ASSUME NEW w \in Writers, Lock(w) \/ Open(w)
      PROVE  LinesCounted' /\ WrittenIsThere' /\ AckedOnceInOrder'
  <2>1. /\ at[w] \in {"locking", "locked"} /\ at'[w] \in {"locked", "opened"}
        /\ \A v \in Writers : v # w => at'[v] = at[v]
        /\ UNCHANGED <<file, count, acked>>
    BY <1>0, <1>6 DEF Lock, TakeMutex, Open, Moves, StoreTypeOK
  <2>2. LinesCounted'
    <3>1. ASSUME NEW f \in Files, NEW i \in DOMAIN disk[f]
          PROVE  LET x == disk[f][i]
                 IN  /\ x.n <= count[x.writer]
                     /\ at'[x.writer] \in {"locking", "locked", "opened"} => x.n < count[x.writer]
                     /\ (at'[x.writer] = "writing" /\ x.newline) => x.n < count[x.writer]
      <4>. DEFINE x == disk[f][i]
      <4>1. x.writer \in Writers
        BY <1>1
      <4>2. /\ x.n <= count[x.writer]
            /\ at[x.writer] \in {"locking", "locked", "opened"} => x.n < count[x.writer]
            /\ (at[x.writer] = "writing" /\ x.newline) => x.n < count[x.writer]
        BY <1>0 DEF LinesCounted
      <4>. HIDE DEF x
      <4>3. CASE x.writer = w
        BY <4>2, <4>3, <2>1 DEF x
      <4>4. CASE x.writer # w
        BY <4>1, <4>2, <4>4, <2>1 DEF x
      <4>. QED  BY <4>3, <4>4
    <3>. QED  BY <3>1, <2>1 DEF LinesCounted
  <2>. QED  BY <2>1, <2>2, <1>2, <1>4
<1>7. ASSUME NEW w \in Writers, ReturnError(w)
      PROVE  LinesCounted' /\ WrittenIsThere' /\ AckedOnceInOrder'
  BY <1>0, <1>2, <1>3, <1>4, <1>7 DEF ReturnError, Moves, StoreTypeOK
<1>8. ASSUME NEW w \in Writers, ReturnNil(w)
      PROVE  LinesCounted' /\ WrittenIsThere' /\ AckedOnceInOrder'
  <2>. DEFINE l == [writer |-> w, n |-> count[w], file |-> file[w]]
  <2>1. /\ at[w] = "written" /\ UNCHANGED <<count, file>> /\ acked' = acked \cup {l}
        /\ \A v \in Writers : at'[v] \in {at[v], "idle"}
    BY <1>0, <1>8 DEF ReturnNil, Moves, StoreTypeOK
  <2>2. l.file = file[w] /\ l.writer = w /\ l.n = count[w]
    OBVIOUS
  <2>. HIDE DEF l
  <2>3. PICK i \in DOMAIN disk[file[w]] : disk[file[w]][i] = LineEnd(w)
    BY <1>0, <2>1 DEF WrittenIsThere
  <2>4. \E k \in DOMAIN disk[l.file] :
               disk[l.file][k] = [writer |-> l.writer, n |-> l.n, newline |-> TRUE]
    BY <2>2, <2>3 DEF LineEnd
  <2>5. AckedOnceInOrder'
    <3>1. \A k \in acked' : \E j \in DOMAIN disk[k.file] :
               disk[k.file][j] = [writer |-> k.writer, n |-> k.n, newline |-> TRUE]
      BY <1>0, <2>1, <2>4 DEF AckedOnceInOrder
    <3>. QED  BY <1>0, <3>1 DEF AckedOnceInOrder
  <2>. QED  BY <2>1, <2>5, <1>3, <1>4
<1>9. ASSUME CrashAndRestart
      PROVE  LinesCounted' /\ WrittenIsThere' /\ AckedOnceInOrder'
  BY <1>2, <1>3, <1>4, <1>9 DEF CrashAndRestart
<1>10. ASSUME UNCHANGED storeVars
       PROVE  LinesCounted' /\ WrittenIsThere' /\ AckedOnceInOrder'
  BY <1>2, <1>3, <1>4, <1>10 DEF storeVars
<1>. QED  BY <1>5, <1>6, <1>7, <1>8, <1>9, <1>10

LEMMA AckInvStep == AckInv /\ [StoreNext]_storeVars => AckInv'
<1> SUFFICES ASSUME AckInv, [StoreNext]_storeVars PROVE AckInv'
  OBVIOUS
<1>0. StoreInv' /\ StoreTypeOK /\ StoreTypeOK'
  BY StoreInvStep DEF AckInv, StoreInv
<1>1. LinesCounted /\ WrittenIsThere /\ AckedOnceInOrder
  BY DEF AckInv
<1>2. ASSUME NEW w \in Writers, WritePart(w)
      PROVE  LinesCounted' /\ WrittenIsThere' /\ AckedOnceInOrder'
  <2>1. /\ at[w] = "opened" /\ Put(w, FALSE) /\ Moves(w, "writing")
        /\ UNCHANGED <<file, count, acked>>
    BY <1>2 DEF WritePart
  <2>2. LinesCounted'
    BY <2>1, <1>0, <1>1, PutKeepsCounts
  <2>3. AckedOnceInOrder'
    BY <2>1, <1>0, <1>1, PutKeepsOrder
  <2>4. \A v \in Writers : at'[v] = "written" => at[v] = "written"
    BY <2>1, <1>0 DEF Moves, StoreTypeOK
  <2>5. WrittenIsThere'
    <3>1. ASSUME NEW v \in Writers, at'[v] = "written"
          PROVE  \E i \in DOMAIN disk'[file[v]] : disk'[file[v]][i] = LineEnd(v)
      <4>1. PICK i \in DOMAIN disk[file[v]] : disk[file[v]][i] = LineEnd(v)
        BY <3>1, <2>4, <1>1 DEF WrittenIsThere
      <4>2. file[v] \in Files
        BY <1>0 DEF StoreTypeOK
      <4>3. \A k \in DOMAIN disk[file[v]] :
               k \in DOMAIN disk'[file[v]] /\ disk'[file[v]][k] = disk[file[v]][k]
        BY <4>2, <2>1, <1>0, PutExtends
      <4>. QED  BY <4>1, <4>3
    <3>. QED  BY <3>1, <2>1 DEF WrittenIsThere, LineEnd
  <2>. QED  BY <2>2, <2>3, <2>5
<1>3. ASSUME NEW w \in Writers, WriteRest(w)
      PROVE  LinesCounted' /\ WrittenIsThere' /\ AckedOnceInOrder'
  <2>1. /\ at[w] = "writing" /\ Put(w, TRUE) /\ Moves(w, "written")
        /\ UNCHANGED <<file, count, acked>>
    BY <1>3 DEF WriteRest
  <2>2. LinesCounted'
    BY <2>1, <1>0, <1>1, PutKeepsCounts
  <2>3. AckedOnceInOrder'
    BY <2>1, <1>0, <1>1, PutKeepsOrder
  <2>4. \A v \in Writers : v # w /\ at'[v] = "written" => at[v] = "written"
    BY <2>1, <1>0 DEF Moves, StoreTypeOK
  <2>5. WrittenIsThere'
    <3>1. ASSUME NEW v \in Writers, at'[v] = "written"
          PROVE  \E i \in DOMAIN disk'[file[v]] : disk'[file[v]][i] = LineEnd(v)
      <4>1. file[v] \in Files
        BY <1>0 DEF StoreTypeOK
      <4>2. CASE v # w
        <5>1. PICK i \in DOMAIN disk[file[v]] : disk[file[v]][i] = LineEnd(v)
          BY <3>1, <4>2, <2>4, <1>1 DEF WrittenIsThere
        <5>2. \A k \in DOMAIN disk[file[v]] :
                 k \in DOMAIN disk'[file[v]] /\ disk'[file[v]][k] = disk[file[v]][k]
          BY <4>1, <2>1, <1>0, PutExtends
        <5>. QED  BY <5>1, <5>2
      <4>3. CASE v = w
        <5>1. \E j \in DOMAIN disk'[file[w]] :
                disk'[file[w]][j] = [writer |-> w, n |-> count[w], newline |-> TRUE]
          BY <2>1, <1>0, PutExtends
        <5>. QED  BY <5>1, <4>3 DEF LineEnd
      <4>. QED  BY <4>2, <4>3
    <3>. QED  BY <3>1, <2>1 DEF WrittenIsThere, LineEnd
  <2>. QED  BY <2>2, <2>3, <2>5
<1>4. CASE ~ \E w \in Writers : WritePart(w) \/ WriteRest(w)
  <2>1. \/ \E w \in Writers : \E f \in Files : Call(w, f)
        \/ \E w \in Writers : Lock(w) \/ Open(w) \/ ReturnError(w) \/ ReturnNil(w)
        \/ CrashAndRestart
        \/ UNCHANGED storeVars
    BY <1>4 DEF StoreNext, StoreStep, Quiescent
  <2>2. UNCHANGED disk
    BY <2>1 DEF Call, Lock, Open, OpenedForAppend, ReturnError, ReturnNil, CrashAndRestart,
                storeVars
  <2>3. LinesCounted' /\ WrittenIsThere' /\ AckedOnceInOrder'
    BY <2>1, <2>2, <1>0, NoPutKeepsAck, Zenon
  <2>. QED  BY <2>3, <1>0 DEF AckInv
<1>. QED  BY <1>0, <1>2, <1>3, <1>4 DEF AckInv

\* A line whose append returned nil is in its file for good, through later failures and
\* crashes, and the lines of each writer are there in the order of its calls, each one's
\* end once and after its beginning.
THEOREM AckedStaysInOrder == StoreSpec => []AckedOnceInOrder
<1>1. AckInv => AckedOnceInOrder
  BY DEF AckInv
<1>. QED  BY <1>1, AckInvInit, AckInvStep, PTL DEF StoreSpec

=============================================================================
