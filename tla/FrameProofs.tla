------------------------------- MODULE FrameProofs -------------------------------
(***************************************************************************)
(* Theorems about the frame in which the levels of a pyramid are           *)
(* transformed: parallel_for, which calls a function for every line of a   *)
(* plane, for every count, request and thread limit; and the sizes of the  *)
(* levels, for every image that encode accepts and every base target.      *)
(***************************************************************************)
EXTENDS ParallelFor, Geometry, TLAPS

--------------------------------------------------------------------------------
(* The inductive invariant, in named parts *)

InParallel == caller \in {"spawn", "join"}

\* Which threads exist at each place of the calling thread.
CallerInv ==
  /\ caller \in {"enter", "serial"} => next = 0 /\ \A t \in Threads : worker[t] = "none"
  /\ caller = "enter" => cursor = 0 /\ \A i \in Indices : calls[i] = 0
  /\ caller = "spawn" => \A t \in Threads : worker[t] # "none" <=> t < cursor
  /\ caller = "join" => \A t \in Threads : worker[t] # "none" <=> t < Workers
  /\ caller = "join" => \A t \in Threads : t < cursor => worker[t] = "exited"
  /\ InParallel => cursor <= Workers
  /\ caller \in {"serial", "spawn", "join"} => count > 0

\* The serial loop has called fn for the indices below the cursor.
SerialInv == caller = "serial" => \A i \in Indices : calls[i] = IF i < cursor THEN 1 ELSE 0

\* What the counter says of the indices while there are workers.
CounterInv ==
  InParallel =>
    /\ \A i \in Indices : i >= next => calls[i] = 0
    /\ \A i \in Indices : i < next =>
         \/ calls[i] = 1
         \/ \E t \in Threads : worker[t] = "run" /\ item[t] = i
    /\ \A t \in Threads : worker[t] = "run" => item[t] < next
    /\ \A t \in Threads : worker[t] = "exited" => next >= count

IInv == /\ TypeOK
        /\ CallerInv
        /\ SerialInv
        /\ CounterInv
        /\ LinesNotShared
        /\ NoWorkerOutlivesTheCall
        /\ ReturnedAfterEveryCall

--------------------------------------------------------------------------------
(* There is at least one worker, never more than asked for or than indices. *)
LEMMA WorkersBound ==
  ASSUME TypeOK
  PROVE  /\ Workers \in 1 .. MaxThreads
         /\ count > 0 => Workers <= count
BY ArgumentsAssumption DEF TypeOK, Workers

LEMMA InitIInv == Init => IInv
<1> SUFFICES ASSUME Init PROVE IInv
  OBVIOUS
<1> USE ArgumentsAssumption
<1>1. TypeOK
  BY DEF Init, TypeOK, Indices, Threads
<1>2. CallerInv /\ SerialInv /\ CounterInv
  BY DEF Init, CallerInv, SerialInv, CounterInv, InParallel
<1>3. LinesNotShared /\ NoWorkerOutlivesTheCall /\ ReturnedAfterEveryCall
  BY DEF Init, LinesNotShared, NoWorkerOutlivesTheCall, ReturnedAfterEveryCall
<1> QED
  BY <1>1, <1>2, <1>3 DEF IInv

LEMMA TypeStep == IInv /\ [Next]_vars => TypeOK'
<1> SUFFICES ASSUME IInv, [Next]_vars PROVE TypeOK'
  OBVIOUS
<1> USE ArgumentsAssumption DEF IInv, TypeOK, Indices
<1>0. Workers \in 1 .. MaxThreads /\ (count > 0 => Workers <= count)
  BY WorkersBound
<1>1. CASE CallerSteps
  <2>1. CASE Enter         BY <2>1 DEF Enter
  <2>2. CASE SerialCall    BY <2>2 DEF SerialCall
  <2>3. CASE SerialReturn  BY <2>3 DEF SerialReturn
  <2>4. CASE Spawn         BY <1>0, <2>4 DEF Spawn, CallerInv, Threads
  <2>5. CASE StartJoining  BY <2>5 DEF StartJoining
  <2>6. CASE Join          BY <1>0, <2>6 DEF Join, CallerInv
  <2>7. CASE Return        BY <2>7 DEF Return
  <2> QED BY <1>1, <2>1, <2>2, <2>3, <2>4, <2>5, <2>6, <2>7 DEF CallerSteps
<1>2. CASE Throws
  BY <1>2 DEF Throws, SpawnFails, SerialCallFails, CallFails
<1>3. ASSUME NEW t \in Threads, Claim(t) PROVE TypeOK'
  BY <1>3 DEF Claim
<1>4. ASSUME NEW t \in Threads, Finish(t) PROVE TypeOK'
  BY <1>4 DEF Finish, LinesNotShared
<1>5. CASE UNCHANGED vars
  BY <1>5 DEF vars
<1> QED
  BY <1>1, <1>2, <1>3, <1>4, <1>5 DEF Next, WorkerSteps

LEMMA CallerStep == IInv /\ [Next]_vars => CallerInv' /\ SerialInv'
<1> SUFFICES ASSUME IInv, [Next]_vars PROVE CallerInv' /\ SerialInv'
  OBVIOUS
<1> USE ArgumentsAssumption DEF IInv, TypeOK, Indices, CallerInv, SerialInv, InParallel
<1>0. Workers \in 1 .. MaxThreads /\ (count > 0 => Workers <= count)
  BY WorkersBound
<1>1. CASE CallerSteps
  <2> USE DEF Workers
  <2>1. CASE Enter         BY <2>1 DEF Enter, Threads
  <2>2. CASE SerialCall    BY <2>2 DEF SerialCall
  <2>3. CASE SerialReturn  BY <2>3 DEF SerialReturn
  <2>4. CASE Spawn         BY <1>0, <2>4 DEF Spawn, Threads
  <2>5. CASE StartJoining
    <3>1. cursor = Workers
      BY <1>0, <2>5 DEF StartJoining
    <3> QED
      BY <1>0, <2>5, <3>1 DEF StartJoining, Threads
  <2>6. CASE Join          BY <1>0, <2>6 DEF Join, Threads
  <2>7. CASE Return        BY <2>7 DEF Return
  <2> QED BY <1>1, <2>1, <2>2, <2>3, <2>4, <2>5, <2>6, <2>7 DEF CallerSteps
<1>2. CASE Throws
  BY <1>2 DEF Throws, SpawnFails, SerialCallFails, CallFails
<1>3. ASSUME NEW t \in Threads, Claim(t) PROVE CallerInv' /\ SerialInv'
  BY <1>3 DEF Claim, NoWorkerOutlivesTheCall, Workers
<1>4. ASSUME NEW t \in Threads, Finish(t) PROVE CallerInv' /\ SerialInv'
  BY <1>4 DEF Finish, NoWorkerOutlivesTheCall, Workers
<1>5. CASE UNCHANGED vars
  BY <1>5 DEF vars, Workers
<1> QED
  BY <1>1, <1>2, <1>3, <1>4, <1>5 DEF Next, WorkerSteps

LEMMA CounterStep == IInv /\ [Next]_vars => CounterInv' /\ LinesNotShared'
<1> SUFFICES ASSUME IInv, [Next]_vars PROVE CounterInv' /\ LinesNotShared'
  OBVIOUS
<1> USE ArgumentsAssumption DEF IInv, TypeOK, Indices, CounterInv, LinesNotShared, InParallel
<1>1. CASE CallerSteps
  <2>1. CASE Enter         BY <2>1 DEF Enter, CallerInv
  <2>2. CASE SerialCall    BY <2>2 DEF SerialCall, CallerInv
  <2>3. CASE SerialReturn  BY <2>3 DEF SerialReturn
  <2>4. CASE Spawn         BY <2>4 DEF Spawn, CallerInv
  <2>5. CASE StartJoining  BY <2>5 DEF StartJoining
  <2>6. CASE Join          BY <2>6 DEF Join
  <2>7. CASE Return        BY <2>7 DEF Return
  <2> QED BY <1>1, <2>1, <2>2, <2>3, <2>4, <2>5, <2>6, <2>7 DEF CallerSteps
<1>2. CASE Throws
  BY <1>2 DEF Throws, SpawnFails, SerialCallFails, CallFails
<1>3. ASSUME NEW t \in Threads, Claim(t) PROVE CounterInv' /\ LinesNotShared'
  <2>1. InParallel
    BY <1>3 DEF Claim, CallerInv, NoWorkerOutlivesTheCall
  <2>2. LinesNotShared'
    BY <1>3, <2>1 DEF Claim
  <2>3. CounterInv'
    BY <1>3, <2>1 DEF Claim
  <2> QED BY <2>2, <2>3
<1>4. ASSUME NEW t \in Threads, Finish(t) PROVE CounterInv' /\ LinesNotShared'
  BY <1>4 DEF Finish
<1>5. CASE UNCHANGED vars
  BY <1>5 DEF vars
<1> QED
  BY <1>1, <1>2, <1>3, <1>4, <1>5 DEF Next, WorkerSteps

LEMMA ReturnStep ==
  IInv /\ [Next]_vars => NoWorkerOutlivesTheCall' /\ ReturnedAfterEveryCall'
<1> SUFFICES ASSUME IInv, [Next]_vars
             PROVE  NoWorkerOutlivesTheCall' /\ ReturnedAfterEveryCall'
  OBVIOUS
<1> USE ArgumentsAssumption
    DEF IInv, TypeOK, Indices, NoWorkerOutlivesTheCall, ReturnedAfterEveryCall
<1>1. CASE CallerSteps
  <2>1. CASE Enter         BY <2>1 DEF Enter, CallerInv
  <2>2. CASE SerialCall    BY <2>2 DEF SerialCall
  <2>3. CASE SerialReturn  BY <2>3 DEF SerialReturn, CallerInv, SerialInv
  <2>4. CASE Spawn         BY <2>4 DEF Spawn
  <2>5. CASE StartJoining  BY <2>5 DEF StartJoining
  <2>6. CASE Join          BY <2>6 DEF Join
  <2>7. CASE Return
    <3>1. \A t \in Threads : worker[t] \in {"none", "exited"}
      BY <2>7, WorkersBound DEF Return, CallerInv, Threads
    <3>2. worker[0] = "exited" /\ 0 \in Threads
      BY <2>7, WorkersBound DEF Return, CallerInv, Threads
    <3>3. next >= count
      BY <2>7, <3>2 DEF Return, CounterInv, InParallel
    <3>4. \A i \in Indices : calls[i] = 1
      <4> SUFFICES ASSUME NEW i \in Indices PROVE calls[i] = 1
        OBVIOUS
      <4>1. i < next
        BY <3>3
      <4>2. ~ \E t \in Threads : worker[t] = "run" /\ item[t] = i
        BY <3>1
      <4> QED BY <2>7, <4>1, <4>2 DEF Return, CounterInv, InParallel
    <3> QED BY <2>7, <3>1, <3>4 DEF Return
  <2> QED BY <1>1, <2>1, <2>2, <2>3, <2>4, <2>5, <2>6, <2>7 DEF CallerSteps
<1>2. CASE Throws
  BY <1>2 DEF Throws, SpawnFails, SerialCallFails, CallFails, CallerInv, Threads
<1>3. ASSUME NEW t \in Threads, Claim(t)
      PROVE  NoWorkerOutlivesTheCall' /\ ReturnedAfterEveryCall'
  BY <1>3 DEF Claim
<1>4. ASSUME NEW t \in Threads, Finish(t)
      PROVE  NoWorkerOutlivesTheCall' /\ ReturnedAfterEveryCall'
  BY <1>4 DEF Finish
<1>5. CASE UNCHANGED vars
  BY <1>5 DEF vars
<1> QED
  BY <1>1, <1>2, <1>3, <1>4, <1>5 DEF Next, WorkerSteps

\* Every reachable state satisfies the inductive invariant.
THEOREM Invariance == Spec => []IInv
<1>1. IInv /\ [Next]_vars => IInv'
  BY TypeStep, CallerStep, CounterStep, ReturnStep DEF IInv
<1> QED
  BY InitIInv, <1>1, PTL DEF Spec, Safe

--------------------------------------------------------------------------------
(* The theorems *)

\* The variables keep the types of the code's variables, with any number of
\* threads and indices.
THEOREM TypeCorrect == Spec => []TypeOK
<1>1. IInv => TypeOK BY DEF IInv
<1> QED BY <1>1, Invariance, PTL

\* parallel_for returns only after fn has been called exactly once per index.
THEOREM EveryCallBeforeReturn == Spec => []ReturnedAfterEveryCall
<1>1. IInv => ReturnedAfterEveryCall BY DEF IInv
<1> QED BY <1>1, Invariance, PTL

\* Workers never share a line, and never take up a finished one.
THEOREM NoLineShared == Spec => []LinesNotShared
<1>1. IInv => LinesNotShared BY DEF IInv
<1> QED BY <1>1, Invariance, PTL

\* No worker is alive when the caller's frame is gone.
THEOREM NoDanglingWorker == Spec => []NoWorkerOutlivesTheCall
<1>1. IInv => NoWorkerOutlivesTheCall BY DEF IInv
<1> QED BY <1>1, Invariance, PTL

\* The threads, the counter and the joins of parallel_for implement ForEach.
THEOREM Refinement == Spec => ImplementsForEach
<1> USE ArgumentsAssumption DEF Promise!Indices, Indices, Ended
<1>1. Init => Promise!Init
  BY DEF Init, Promise!Init
<1>2. IInv /\ [Next]_vars => [Promise!Next]_Promise!vars
  <2> SUFFICES ASSUME IInv, [Next]_vars PROVE [Promise!Next]_Promise!vars
    OBVIOUS
  <2> USE DEF IInv, TypeOK, Promise!Next, Promise!vars
  <2>1. CASE CallerSteps
    <3>1. CASE Enter         BY <3>1 DEF Enter, Promise!Return
    <3>2. CASE SerialCall
      <4>1. cursor \in Indices /\ calls[cursor] = 0
        BY <3>2 DEF SerialCall, SerialInv
      <4>2. Promise!Apply(cursor)
        BY <3>2, <4>1 DEF SerialCall, Promise!Apply
      <4> QED BY <4>1, <4>2
    <3>3. CASE SerialReturn
      BY <3>3 DEF SerialReturn, Promise!Return, SerialInv, CallerInv
    <3>4. CASE Spawn         BY <3>4 DEF Spawn
    <3>5. CASE StartJoining  BY <3>5 DEF StartJoining
    <3>6. CASE Join          BY <3>6 DEF Join
    <3>7. CASE Return
      <4>1. ReturnedAfterEveryCall'
        BY ReturnStep
      <4> QED
        BY <3>7, <4>1 DEF Return, Promise!Return, ReturnedAfterEveryCall
    <3> QED BY <2>1, <3>1, <3>2, <3>3, <3>4, <3>5, <3>6, <3>7 DEF CallerSteps
  <2>2. CASE Throws
    BY <2>2 DEF Throws, SpawnFails, SerialCallFails, CallFails, Promise!Fail
  <2>3. ASSUME NEW t \in Threads, Claim(t) PROVE [Promise!Next]_Promise!vars
    BY <2>3 DEF Claim
  <2>4. ASSUME NEW t \in Threads, Finish(t) PROVE [Promise!Next]_Promise!vars
    <3>1. item[t] \in Indices /\ calls[item[t]] = 0
      BY <2>4 DEF Finish, LinesNotShared
    <3>2. ~Ended
      BY <2>4 DEF Finish, NoWorkerOutlivesTheCall
    <3>3. Promise!Apply(item[t])
      BY <2>4, <3>1, <3>2 DEF Finish, Promise!Apply
    <3> QED BY <3>1, <3>3
  <2>5. CASE UNCHANGED vars
    BY <2>5 DEF vars
  <2> QED
    BY <2>1, <2>2, <2>3, <2>4, <2>5 DEF Next, WorkerSteps
<1> QED
  BY <1>1, <1>2, Invariance, PTL DEF Spec, Safe, ImplementsForEach, Promise!Spec

--------------------------------------------------------------------------------
(* The sizes of the levels *)

\* The sizes that a plane runs through: the levels, then the size of its base.
At(levels, base, k) == IF k <= Len(levels) THEN levels[k] ELSE base

LumaBase == IF phase = "luma" THEN cur ELSE header.base
ChromaBase == IF phase = "chroma" THEN cur ELSE header.chromaBase

Written == phase \in {"walk luma", "walk chroma", "accepted"}

\* The number of columns that are left after k - 1 halvings of the widest image.
Room == <<16384, 8192, 4096, 2048, 1024, 512, 256, 128, 64, 32, 16, 8, 4, 2, 1>>

ImageInv == /\ w \in Widths /\ h \in Heights /\ target \in Targets /\ subsampled \in BOOLEAN
            /\ phase \in {"luma", "chroma", "walk luma", "walk chroma", "accepted"}
            /\ cur \in Size
            /\ luma \in Seq(Size) /\ chroma \in Seq(Size)
            /\ shapes0 \in Seq(Size) /\ shapes1 \in Seq(Size)

\* What the header says.
HeaderInv == /\ phase = "chroma" =>
                  header = [levels |-> Len(luma), base |-> header.base, subsampled |-> subsampled]
             /\ Written =>
                  header = [levels |-> Len(luma), base |-> header.base, subsampled |-> subsampled,
                            chromaBase |-> header.chromaBase]
             /\ phase # "luma" => header.base \in Size
             /\ Written => header.chromaBase \in Size

\* A plane is halved as long as it is large, and each halving makes it smaller.
Descends(levels, base, whole) ==
  /\ At(levels, base, 1) = whole
  /\ \A k \in 1 .. Len(levels) : /\ Splits(levels[k], whole)
                                 /\ At(levels, base, k + 1) = Half(levels[k])
                                 /\ levels[k].w > base.w /\ levels[k].h > base.h

LumaInv == /\ Descends(luma, LumaBase, Image)
           /\ Len(luma) <= 14
           /\ \A k \in 1 .. Len(luma) + 1 : At(luma, LumaBase, k).w <= Room[k]
           /\ phase # "luma" => ~Splits(header.base, Image)

\* Chroma runs through the sizes of luma, or through the halves of these.
ChromaInv ==
  /\ phase = "luma" => chroma = <<>>
  /\ phase # "luma" =>
       /\ Descends(chroma, ChromaBase, ChromaImage)
       /\ Len(chroma) <= Len(luma)
       /\ \A k \in 1 .. Len(chroma) + 1 :
            At(chroma, ChromaBase, k) = IF subsampled THEN Half(At(luma, header.base, k))
                                        ELSE At(luma, header.base, k)
  /\ Written /\ ~subsampled => Len(chroma) = Len(luma)

\* A walk has found the first n levels and stands at the next size.
Walked(shapes, at, levels, base) ==
  /\ Len(shapes) <= Len(levels)
  /\ \A k \in 1 .. Len(shapes) : shapes[k] = levels[k]
  /\ at = At(levels, base, Len(shapes) + 1)

WalkInv ==
  /\ phase \in {"luma", "chroma"} => shapes0 = <<>>
  /\ phase \in {"luma", "chroma", "walk luma"} => shapes1 = <<>>
  /\ phase = "walk luma" => Walked(shapes0, cur, luma, header.base)
  /\ phase = "walk chroma" => /\ subsampled /\ shapes0 = luma
                              /\ Walked(shapes1, cur, chroma, header.chromaBase)
  /\ phase = "accepted" => shapes0 = luma /\ shapes1 = chroma

SizesInv == ImageInv /\ HeaderInv /\ LumaInv /\ ChromaInv /\ WalkInv

--------------------------------------------------------------------------------
(* Halving *)

LEMMA HalfSize ==
  ASSUME NEW s \in Size
  PROVE  /\ Half(s) \in Size
         /\ Half(s).w <= s.w /\ Half(s).h <= s.h
         /\ s.w > 1 => Half(s).w < s.w
         /\ s.h > 1 => Half(s).h < s.h
BY DEF Size, Half

\* Halving keeps the order of two sizes.
LEMMA HalfMonotone ==
  ASSUME NEW s \in Size, NEW t \in Size, s.w >= t.w, s.h >= t.h
  PROVE  Half(s).w >= Half(t).w /\ Half(s).h >= Half(t).h
BY DEF Size, Half

LEMMA RoomHalves ==
  ASSUME NEW k \in 1 .. 14, NEW n \in Nat, n <= Room[k]
  PROVE  (n + 1) \div 2 <= Room[k + 1]
<1>1. k \in {1, 2, 3, 4, 5, 6, 7, 8, 9, 10, 11, 12, 13, 14}
  OBVIOUS
<1>2. \A m \in Nat : m <= 2 * ((m + 1) \div 2) /\ 2 * ((m + 1) \div 2) <= m + 1
  OBVIOUS
<1>3. Room[k] = 2 * Room[k + 1] /\ Room[k + 1] \in Nat
  BY <1>1 DEF Room
<1> QED BY <1>2, <1>3

\* A level that has no room for two columns is not split.
LEMMA RoomEnds == Room[1] = MaxDimension /\ Room[15] = 1
BY DEF Room, MaxDimension

\* What is not split is not split in half either, at the target that chroma then has.
LEMMA SmallStaysSmall ==
  ASSUME target \in Nat, w \in Nat \ {0}, h \in Nat \ {0}, NEW s \in Size, ~Splits(s, Image)
  PROVE  ~Splits(Half(s), Half(Image))
<1> DEFINE t == TargetFor(Image)
           u == TargetFor(Half(Image))
<1>1. t \in Nat /\ u \in Nat /\ (t = u \/ (t \in {32, 64} /\ u \in {32, 64}))
  BY DEF TargetFor, SafeBaseTarget
<1>2. SUFFICES ASSUME s.w > 1, s.h > 1 PROVE ~(Shorter(Half(s)) > u)
  BY DEF Splits, Half, Size
<1>3. Shorter(s) <= t
  BY <1>2, <1>1 DEF Splits, Shorter, Size
<1>4. Shorter(Half(s)) <= Shorter(s) /\ 2 * Shorter(Half(s)) <= Shorter(s) + 1 /\ Shorter(Half(s)) \in Nat
  BY <1>2 DEF Shorter, Half, Size
<1>5. Shorter(s) \in Nat
  BY DEF Shorter, Size
<1> QED BY <1>1, <1>3, <1>4, <1>5

LEMMA LargeHasTwo ==
  ASSUME NEW s \in Size, NEW whole, Splits(s, whole)
  PROVE  s.w > 1 /\ s.h > 1
BY DEF Splits

--------------------------------------------------------------------------------
(* Sequences of sizes *)

LEMMA DescendsStep ==
  ASSUME NEW levels \in Seq(Size), NEW s \in Size, NEW whole,
         Descends(levels, s, whole), Splits(s, whole)
  PROVE  /\ Append(levels, s) \in Seq(Size)
         /\ Descends(Append(levels, s), Half(s), whole)
<1> DEFINE new == Append(levels, s)
<1>1. new \in Seq(Size) /\ Len(new) = Len(levels) + 1 /\ Len(levels) \in Nat
  OBVIOUS
<1>2. \A k \in 1 .. Len(levels) : new[k] = levels[k] /\ levels[k] \in Size
  OBVIOUS
<1>3. new[Len(levels) + 1] = s
  OBVIOUS
<1>4. Half(s) \in Size /\ Half(s).w < s.w /\ Half(s).h < s.h
  BY HalfSize, LargeHasTwo
<1>5. At(new, Half(s), 1) = whole
  BY <1>1, <1>2, <1>3 DEF At, Descends
<1>6. ASSUME NEW k \in 1 .. Len(new)
      PROVE  /\ Splits(new[k], whole)
             /\ At(new, Half(s), k + 1) = Half(new[k])
             /\ new[k].w > Half(s).w /\ new[k].h > Half(s).h
  <2>1. CASE k = Len(levels) + 1
    BY <2>1, <1>1, <1>3, <1>4 DEF At
  <2>2. CASE k <= Len(levels)
    <3>1. Splits(levels[k], whole) /\ At(levels, s, k + 1) = Half(levels[k])
          /\ levels[k].w > s.w /\ levels[k].h > s.h
      BY <2>2, <1>1 DEF Descends
    <3>2. At(new, Half(s), k + 1) = At(levels, s, k + 1)
      BY <2>2, <1>1, <1>2, <1>3 DEF At
    <3> QED BY <3>1, <3>2, <2>2, <1>1, <1>2, <1>4 DEF Size
  <2> QED BY <2>1, <2>2, <1>1
<1> QED BY <1>1, <1>5, <1>6 DEF Descends

\* The positions of the longer sequence are those of the shorter one, and one more.
LEMMA AtStep ==
  ASSUME NEW levels \in Seq(Size), NEW s \in Size, NEW t \in Size
  PROVE  /\ \A k \in 1 .. Len(levels) + 1 : At(Append(levels, s), t, k) = At(levels, s, k)
         /\ At(Append(levels, s), t, Len(levels) + 2) = t
         /\ At(levels, s, Len(levels) + 1) = s
         /\ Len(Append(levels, s)) = Len(levels) + 1
BY DEF At

LEMMA AtSize ==
  ASSUME NEW levels \in Seq(Size), NEW s \in Size, NEW k \in 1 .. Len(levels) + 1
  PROVE  At(levels, s, k) \in Size
BY DEF At

LEMMA WalkStarts ==
  ASSUME NEW levels \in Seq(Size), NEW base, NEW whole, Descends(levels, base, whole)
  PROVE  Walked(<<>>, whole, levels, base)
BY DEF Walked, Descends

LEMMA WalkStep ==
  ASSUME NEW levels \in Seq(Size), NEW base, NEW whole, Descends(levels, base, whole),
         NEW shapes \in Seq(Size), NEW at \in Size, Walked(shapes, at, levels, base),
         Len(shapes) < Len(levels)
  PROVE  /\ at = levels[Len(shapes) + 1]
         /\ Append(shapes, at) \in Seq(Size)
         /\ Walked(Append(shapes, at), Half(at), levels, base)
<1> DEFINE n == Len(shapes)
           new == Append(shapes, at)
<1>1. n \in Nat /\ Len(levels) \in Nat /\ Len(new) = n + 1 /\ new \in Seq(Size)
  OBVIOUS
<1>2. at = levels[n + 1]
  BY <1>1 DEF Walked, At
<1>3. At(levels, base, n + 2) = Half(levels[n + 1])
  <2>1. n + 1 \in 1 .. Len(levels) /\ (n + 1) + 1 = n + 2
    BY <1>1
  <2> QED BY <2>1 DEF Descends
<1>4. \A k \in 1 .. n : new[k] = levels[k]
  BY <1>1 DEF Walked
<1>5. new[n + 1] = levels[n + 1]
  BY <1>1, <1>2
<1> QED BY <1>1, <1>2, <1>3, <1>4, <1>5 DEF Walked

LEMMA WalkEnds ==
  ASSUME NEW levels \in Seq(Size), NEW base, NEW shapes \in Seq(Size), NEW at,
         Walked(shapes, at, levels, base), Len(shapes) = Len(levels)
  PROVE  shapes = levels /\ at = base
BY DEF Walked, At

\* The size of the base is met at the end only.
LEMMA WalkStopsAtBase ==
  ASSUME NEW levels \in Seq(Size), NEW base \in Size, NEW whole, Descends(levels, base, whole),
         NEW shapes \in Seq(Size), Walked(shapes, base, levels, base)
  PROVE  Len(shapes) = Len(levels)
<1>1. SUFFICES ASSUME Len(shapes) < Len(levels) PROVE FALSE
  BY DEF Walked
<1>2. Len(shapes) + 1 \in 1 .. Len(levels)
  BY <1>1
<1>3. base = levels[Len(shapes) + 1]
  BY <1>1, <1>2 DEF Walked, At
<1> QED BY <1>2, <1>3 DEF Descends, Size
--------------------------------------------------------------------------------
(* The invariant *)

LEMMA ImageFacts ==
  ASSUME ImageInv
  PROVE  /\ w \in Nat \ {0} /\ h \in Nat \ {0} /\ target \in Nat
         /\ Image \in Size /\ ChromaImage \in Size
         /\ w <= MaxDimension /\ h <= MaxDimension
<1>1. MaxDimension \in Nat
  BY DEF MaxDimension
<1>2. w \in 1 .. MaxDimension /\ h \in 1 .. MaxDimension /\ target \in Nat
  BY GeometryAssumption DEF ImageInv, GeometryAssumption
<1>3. Image \in Size
  BY <1>1, <1>2 DEF Image, Size
<1> QED BY <1>1, <1>2, <1>3, HalfSize DEF ChromaImage

LEMMA SizesInitInv == SizesInit => SizesInv
<1> SUFFICES ASSUME SizesInit PROVE SizesInv
  OBVIOUS
<1>1. ImageInv
  <2>1. w \in 1 .. MaxDimension /\ h \in 1 .. MaxDimension
    BY GeometryAssumption DEF SizesInit, GeometryAssumption
  <2>2. MaxDimension \in Nat
    BY DEF MaxDimension
  <2>3. Image \in Size
    BY <2>1, <2>2 DEF Size, Image
  <2> QED BY <2>3 DEF SizesInit, ImageInv
<1>2. HeaderInv
  BY DEF SizesInit, HeaderInv, Written
<1>3. LumaInv
  <2>1. w <= Room[1]
    BY <1>1, ImageFacts, RoomEnds
  <2> QED BY <2>1, <1>1, ImageFacts DEF SizesInit, LumaInv, Descends, At, LumaBase, Image
<1>4. ChromaInv /\ WalkInv
  BY DEF SizesInit, ChromaInv, WalkInv, Written
<1> QED BY <1>1, <1>2, <1>3, <1>4 DEF SizesInv

LEMMA SplitLumaInv == SizesInv /\ SplitLuma => SizesInv'
<1> SUFFICES ASSUME SizesInv, SplitLuma PROVE SizesInv'
  OBVIOUS
<1> USE DEF SizesInv
<1>1. /\ phase = "luma" /\ phase' = "luma" /\ Splits(cur, Image)
      /\ luma' = Append(luma, cur) /\ cur' = Half(cur)
      /\ UNCHANGED <<w, h, target, subsampled, chroma, header, shapes0, shapes1>>
  BY DEF SplitLuma
<1>2. cur \in Size /\ luma \in Seq(Size) /\ cur' \in Size
  BY <1>1, HalfSize DEF ImageInv
<1>3. luma' \in Seq(Size) /\ Descends(luma', cur', Image)
  BY <1>1, <1>2, DescendsStep DEF LumaInv, LumaBase
<1>4. ImageInv'
  BY <1>1, <1>2, <1>3 DEF ImageInv
<1>5. HeaderInv' /\ ChromaInv' /\ WalkInv'
  BY <1>1 DEF HeaderInv, ChromaInv, WalkInv, Written
<1>6. Len(luma) \in Nat /\ Len(luma) <= 14 /\ Len(luma') = Len(luma) + 1
  BY <1>1, <1>2, AtStep DEF LumaInv
<1>7. cur.w <= Room[Len(luma) + 1] /\ cur.w > 1
  <2>1. At(luma, cur, Len(luma) + 1) = cur
    BY <1>2, AtStep
  <2>2. Len(luma) + 1 \in 1 .. Len(luma) + 1
    BY <1>6
  <2> QED BY <2>1, <2>2, <1>1, <1>2, LargeHasTwo DEF LumaInv, LumaBase
<1>8. Len(luma) + 1 # 15
  BY <1>7, <1>2, RoomEnds DEF Size
<1>9. Len(luma) + 1 \in 1 .. 14
  BY <1>6, <1>8
<1>10. cur'.w <= Room[Len(luma) + 2]
  <2>1. cur'.w = (cur.w + 1) \div 2 /\ cur.w \in Nat
    BY <1>1, <1>2 DEF Half, Size
  <2>2. (Len(luma) + 1) + 1 = Len(luma) + 2
    BY <1>6
  <2> QED BY <2>1, <2>2, <1>7, <1>9, RoomHalves
<1>11. \A k \in 1 .. Len(luma') + 1 : At(luma', cur', k).w <= Room[k]
  <2> TAKE k \in 1 .. Len(luma') + 1
  <2>1. CASE k = Len(luma) + 2
    BY <2>1, <1>1, <1>2, <1>10, AtStep
  <2>2. CASE k \in 1 .. Len(luma) + 1
    BY <2>2, <1>1, <1>2, AtStep DEF LumaInv, LumaBase
  <2> QED BY <2>1, <2>2, <1>6
<1>12. LumaInv'
  <2>1. LumaBase' = cur' /\ Image' = Image /\ phase' = "luma"
    BY <1>1 DEF LumaBase, Image
  <2>2. Descends(luma, LumaBase, Image)' <=> Descends(luma', cur', Image)
    BY <2>1, <1>1 DEF Descends, Splits, TargetFor, SafeBaseTarget
  <2>3. Len(luma') <= 14
    BY <1>6, <1>9
  <2>4. (\A k \in 1 .. Len(luma) + 1 : At(luma, LumaBase, k).w <= Room[k])'
    BY <2>1, <1>11 DEF Room
  <2> QED BY <2>1, <2>2, <2>3, <2>4, <1>3 DEF LumaInv
<1> QED BY <1>4, <1>5, <1>12

LEMMA LumaBuiltInv == SizesInv /\ LumaBuilt => SizesInv'
<1> SUFFICES ASSUME SizesInv, LumaBuilt PROVE SizesInv'
  OBVIOUS
<1> USE DEF SizesInv
<1>1. /\ phase = "luma" /\ phase' = "chroma" /\ ~Splits(cur, Image)
      /\ cur' = ChromaImage
      /\ header' = [levels |-> Len(luma), base |-> cur, subsampled |-> subsampled]
      /\ UNCHANGED <<w, h, target, subsampled, luma, chroma, shapes0, shapes1>>
  BY DEF LumaBuilt
<1>2. cur \in Size /\ cur' \in Size /\ luma \in Seq(Size)
  BY <1>1, ImageFacts DEF ImageInv
<1>3. ImageInv'
  BY <1>1, <1>2 DEF ImageInv
<1>4. HeaderInv'
  BY <1>1, <1>2 DEF HeaderInv, Written
<1>5. LumaInv'
  <2>1. header'.base = cur
    BY <1>1
  <2> QED BY <2>1, <1>1 DEF LumaInv, LumaBase, Image, Splits, TargetFor, Descends
<1>6. ChromaInv'
  <2>1. chroma' = <<>> /\ phase' = "chroma" /\ header'.base = cur
    BY <1>1 DEF ChromaInv
  <2>2. At(luma, cur, 1) = Image
    BY <1>1 DEF LumaInv, LumaBase, Descends
  <2>3. ChromaImage = IF subsampled THEN Half(At(luma, cur, 1)) ELSE At(luma, cur, 1)
    BY <2>2 DEF ChromaImage
  <2>4. ChromaImage' = ChromaImage
    BY <1>1 DEF ChromaImage, Image
  <2>5. Len(luma) \in Nat
    BY <1>2
  <2> QED BY <2>1, <2>3, <2>4, <2>5, <1>1 DEF ChromaInv, ChromaBase, Descends, At, Written
<1>7. WalkInv'
  BY <1>1 DEF WalkInv
<1> QED BY <1>3, <1>4, <1>5, <1>6, <1>7

\* What LumaInv says of a stream stays true while the sizes are written and read.
LEMMA LumaStays ==
  ASSUME LumaInv, phase # "luma", phase' # "luma",
         UNCHANGED <<w, h, target, luma>>, header'.base = header.base
  PROVE  LumaInv'
<1>1. LumaBase' = LumaBase /\ Image' = Image
  BY DEF LumaBase, Image
<1>2. Descends(luma, LumaBase, Image)' <=> Descends(luma, LumaBase, Image)
  BY <1>1 DEF Descends, Splits, TargetFor, SafeBaseTarget
<1>3. Splits(header.base, Image)' <=> Splits(header.base, Image)
  BY <1>1 DEF Splits, TargetFor, SafeBaseTarget
<1>4. (\A k \in 1 .. Len(luma) + 1 : At(luma, LumaBase, k).w <= Room[k])'
  <2>1. \A k \in 1 .. Len(luma) + 1 : At(luma, LumaBase, k).w <= Room[k]
    BY DEF LumaInv
  <2> QED BY <2>1, <1>1
<1> QED BY <1>1, <1>2, <1>3, <1>4 DEF LumaInv

LEMMA SplitChromaInv == SizesInv /\ SplitChroma => SizesInv'
<1> SUFFICES ASSUME SizesInv, SplitChroma PROVE SizesInv'
  OBVIOUS
<1> USE DEF SizesInv
<1> DEFINE n == Len(chroma)
<1>1. /\ phase = "chroma" /\ phase' = "chroma" /\ Splits(cur, ChromaImage)
      /\ chroma' = Append(chroma, cur) /\ cur' = Half(cur)
      /\ UNCHANGED <<w, h, target, subsampled, luma, header, shapes0, shapes1>>
  BY DEF SplitChroma
<1>2. /\ cur \in Size /\ luma \in Seq(Size) /\ chroma \in Seq(Size) /\ cur' \in Size
      /\ header.base \in Size /\ n \in Nat /\ Len(luma) \in Nat
  BY <1>1, HalfSize DEF ImageInv, HeaderInv
<1>3. chroma' \in Seq(Size) /\ Descends(chroma', cur', ChromaImage)
  BY <1>1, <1>2, DescendsStep DEF ChromaInv, ChromaBase
<1>4. ImageInv'
  BY <1>1, <1>2, <1>3 DEF ImageInv
<1>5. HeaderInv' /\ WalkInv'
  BY <1>1 DEF HeaderInv, WalkInv, Written
<1>6. LumaInv'
  BY <1>1, LumaStays
<1>7. /\ n <= Len(luma)
      /\ \A k \in 1 .. n + 1 : At(chroma, cur, k) = IF subsampled THEN Half(At(luma, header.base, k))
                                                    ELSE At(luma, header.base, k)
  BY <1>1 DEF ChromaInv, ChromaBase
<1>8. cur = IF subsampled THEN Half(At(luma, header.base, n + 1)) ELSE At(luma, header.base, n + 1)
  <2>1. At(chroma, cur, n + 1) = cur /\ n + 1 \in 1 .. n + 1
    BY <1>2, AtStep
  <2> QED BY <2>1, <1>7
<1>9. n < Len(luma)
  <2>1. SUFFICES ASSUME n = Len(luma) PROVE FALSE
    BY <1>2, <1>7
  <2>2. At(luma, header.base, n + 1) = header.base
    BY <2>1, <1>2, AtStep
  <2>3. ~Splits(header.base, Image)
    BY <1>1 DEF LumaInv
  <2>4. CASE subsampled
    BY <2>2, <2>3, <2>4, <1>1, <1>2, <1>8, ImageFacts, SmallStaysSmall DEF ChromaImage
  <2>5. CASE ~subsampled
    BY <2>2, <2>3, <2>5, <1>1, <1>8 DEF ChromaImage
  <2> QED BY <2>4, <2>5
<1>10. At(luma, header.base, n + 2) = Half(At(luma, header.base, n + 1))
  <2>1. n + 1 \in 1 .. Len(luma) /\ (n + 1) + 1 = n + 2
    BY <1>2, <1>9
  <2>2. LumaBase = header.base
    BY <1>1 DEF LumaBase
  <2> QED BY <2>1, <2>2 DEF LumaInv, Descends, At
<1>11. ASSUME NEW k \in 1 .. Len(chroma') + 1
       PROVE  At(chroma', cur', k) = IF subsampled THEN Half(At(luma, header.base, k))
                                     ELSE At(luma, header.base, k)
  <2>1. CASE k = n + 2
    BY <2>1, <1>1, <1>2, <1>8, <1>10, AtStep
  <2>2. CASE k \in 1 .. n + 1
    BY <2>2, <1>1, <1>2, <1>7, AtStep
  <2>3. Len(chroma') = n + 1
    BY <1>1, <1>2
  <2> QED BY <2>1, <2>2, <2>3, <1>2
<1>12. ChromaInv'
  <2>1. ChromaBase' = cur' /\ ChromaImage' = ChromaImage /\ Image' = Image /\ ~Written'
    BY <1>1 DEF ChromaBase, ChromaImage, Image, Written
  <2>2. Descends(chroma, ChromaBase, ChromaImage)' <=> Descends(chroma', cur', ChromaImage)
    BY <2>1, <1>1 DEF Descends, Splits, TargetFor, SafeBaseTarget
  <2>3. Len(chroma') <= Len(luma)
    BY <1>1, <1>2, <1>9
  <2> QED BY <2>1, <2>2, <2>3, <1>1, <1>3, <1>11 DEF ChromaInv
<1> QED BY <1>4, <1>5, <1>6, <1>12

LEMMA ChromaBuiltInv == SizesInv /\ ChromaBuilt => SizesInv'
<1> SUFFICES ASSUME SizesInv, ChromaBuilt PROVE SizesInv'
  OBVIOUS
<1> USE DEF SizesInv
<1>1. /\ phase = "chroma" /\ ~Splits(cur, ChromaImage)
      /\ header' = [levels |-> header.levels, base |-> header.base,
                    subsampled |-> header.subsampled, chromaBase |-> cur]
      /\ phase' = IF header.levels > MaxLevels THEN "rejected" ELSE "walk luma"
      /\ cur' = Image
      /\ UNCHANGED <<w, h, target, subsampled, luma, chroma, shapes0, shapes1>>
  BY DEF ChromaBuilt
<1>2. /\ cur \in Size /\ luma \in Seq(Size) /\ chroma \in Seq(Size) /\ header.base \in Size
      /\ Len(luma) \in Nat /\ Len(chroma) \in Nat
  <2>1. phase # "luma"
    BY <1>1
  <2>2. cur \in Size /\ luma \in Seq(Size) /\ chroma \in Seq(Size)
    BY DEF ImageInv
  <2>3. header.base \in Size
    BY <2>1 DEF HeaderInv
  <2> QED BY <2>2, <2>3
<1>3. header.levels = Len(luma) /\ header.subsampled = subsampled
  <2>1. phase = "chroma"
    BY <1>1
  <2>2. header = [levels |-> Len(luma), base |-> header.base, subsampled |-> subsampled]
    BY <2>1 DEF HeaderInv
  <2> QED BY <2>2
<1>4. phase' = "walk luma"
  <2>1. ~(header.levels > MaxLevels)
    BY <1>2, <1>3 DEF LumaInv, MaxLevels
  <2> QED BY <2>1, <1>1
<1>5. ImageInv'
  BY <1>1, <1>4, ImageFacts DEF ImageInv
<1>6. HeaderInv'
  BY <1>1, <1>2, <1>3, <1>4 DEF HeaderInv, Written
<1>7. LumaInv'
  BY <1>1, <1>4, LumaStays
<1>8. /\ Descends(chroma, cur, ChromaImage) /\ Len(chroma) <= Len(luma)
      /\ \A k \in 1 .. Len(chroma) + 1 :
           At(chroma, cur, k) = IF subsampled THEN Half(At(luma, header.base, k))
                                ELSE At(luma, header.base, k)
  BY <1>1 DEF ChromaInv, ChromaBase
<1>9. ASSUME ~subsampled PROVE Len(chroma) = Len(luma)
  <2>1. SUFFICES ASSUME Len(chroma) < Len(luma) PROVE FALSE
    BY <1>2, <1>8
  <2>2. At(chroma, cur, Len(chroma) + 1) = cur /\ Len(chroma) + 1 \in 1 .. Len(chroma) + 1
    BY <1>2, AtStep
  <2>3. cur = luma[Len(chroma) + 1] /\ Len(chroma) + 1 \in 1 .. Len(luma)
    BY <2>1, <2>2, <1>2, <1>8, <1>9 DEF At
  <2>4. Splits(luma[Len(chroma) + 1], Image)
    BY <2>3 DEF LumaInv, Descends
  <2> QED BY <2>3, <2>4, <1>1, <1>9 DEF ChromaImage
<1>10. ChromaInv'
  <2>1. ChromaBase' = cur /\ ChromaImage' = ChromaImage /\ header'.base = header.base
    BY <1>1, <1>4 DEF ChromaBase, ChromaImage, Image
  <2>2. Descends(chroma, ChromaBase, ChromaImage)' <=> Descends(chroma, cur, ChromaImage)
    BY <2>1, <1>1 DEF Descends, Splits, TargetFor, SafeBaseTarget
  <2> QED BY <2>1, <2>2, <1>1, <1>4, <1>8, <1>9 DEF ChromaInv
<1>11. WalkInv'
  <2>1. shapes0' = <<>> /\ shapes1' = <<>>
    BY <1>1 DEF WalkInv
  <2>2. Walked(<<>>, Image, luma, header.base)
    BY <1>1, <1>2, WalkStarts DEF LumaInv, LumaBase
  <2>3. header'.base = header.base
    BY <1>1
  <2> QED BY <2>1, <2>2, <2>3, <1>1, <1>4 DEF WalkInv
<1> QED BY <1>5, <1>6, <1>7, <1>10, <1>11

\* The same for chroma, once its last size is in the header.
LEMMA ChromaStays ==
  ASSUME ChromaInv, Written, Written', UNCHANGED <<w, h, target, subsampled, luma, chroma, header>>
  PROVE  ChromaInv'
<1>1. ChromaBase' = ChromaBase /\ ChromaImage' = ChromaImage
  BY DEF ChromaBase, ChromaImage, Image, Written
<1>2. Descends(chroma, ChromaBase, ChromaImage)' <=> Descends(chroma, ChromaBase, ChromaImage)
  BY <1>1 DEF Descends, Splits, TargetFor, SafeBaseTarget
<1>3. phase # "luma" /\ phase' # "luma"
  BY DEF Written
<1> QED BY <1>1, <1>2, <1>3 DEF ChromaInv

\* The decoder changes nothing of what the encoder found.
LEMMA WalkKeeps ==
  ASSUME SizesInv, Written, Written', UNCHANGED encVars
  PROVE  HeaderInv' /\ LumaInv' /\ ChromaInv'
<1>1. phase # "luma" /\ phase' # "luma" /\ phase # "chroma" /\ phase' # "chroma"
  BY DEF Written
<1>2. LumaInv'
  BY <1>1, LumaStays DEF SizesInv, encVars
<1>3. ChromaInv'
  BY ChromaStays DEF SizesInv, encVars
<1>4. HeaderInv'
  BY <1>1 DEF SizesInv, HeaderInv, encVars
<1> QED BY <1>2, <1>3, <1>4

LEMMA WalkLumaInv == SizesInv /\ WalkLuma => SizesInv'
<1> SUFFICES ASSUME SizesInv, WalkLuma PROVE SizesInv'
  OBVIOUS
<1>1. /\ phase = "walk luma" /\ phase' = "walk luma" /\ Len(shapes0) < header.levels
      /\ shapes0' = Append(shapes0, cur) /\ cur' = Half(cur)
      /\ UNCHANGED <<encVars, shapes1>>
  BY DEF WalkLuma
<1>2. Written /\ Written'
  BY <1>1 DEF Written
<1>3. HeaderInv' /\ LumaInv' /\ ChromaInv'
  BY <1>1, <1>2, WalkKeeps
<1>4. header.levels = Len(luma)
  <2>1. header = [levels |-> Len(luma), base |-> header.base, subsampled |-> subsampled,
                  chromaBase |-> header.chromaBase]
    BY <1>2 DEF SizesInv, HeaderInv
  <2> QED BY <2>1
<1>5. cur \in Size /\ luma \in Seq(Size) /\ shapes0 \in Seq(Size) /\ cur' \in Size
  BY <1>1, HalfSize DEF SizesInv, ImageInv
<1>6. Descends(luma, header.base, Image)
  BY <1>1 DEF SizesInv, LumaInv, LumaBase
<1>7. Walked(shapes0, cur, luma, header.base)
  BY <1>1 DEF SizesInv, WalkInv
<1>8. shapes0' \in Seq(Size) /\ Walked(shapes0', cur', luma, header.base)
  <2>1. Append(shapes0, cur) \in Seq(Size) /\ Walked(Append(shapes0, cur), Half(cur), luma, header.base)
    <3>1. Len(shapes0) < Len(luma)
      BY <1>1, <1>4
    <3> QED BY <3>1, <1>5, <1>6, <1>7, WalkStep
  <2> QED BY <2>1, <1>1
<1>9. ImageInv'
  BY <1>1, <1>5, <1>8 DEF SizesInv, ImageInv, encVars
<1>10. WalkInv'
  BY <1>1, <1>8 DEF SizesInv, WalkInv, encVars
<1> QED BY <1>3, <1>9, <1>10 DEF SizesInv

LEMMA LumaWalkedInv == SizesInv /\ LumaWalked => SizesInv'
<1> SUFFICES ASSUME SizesInv, LumaWalked PROVE SizesInv'
  OBVIOUS
<1>1. /\ phase = "walk luma" /\ Len(shapes0) = header.levels
      /\ UNCHANGED <<encVars, shapes0>>
  BY DEF LumaWalked
<1>2. Written
  BY <1>1 DEF Written
<1>3. header.levels = Len(luma) /\ header.subsampled = subsampled
  <2>1. header = [levels |-> Len(luma), base |-> header.base, subsampled |-> subsampled,
                  chromaBase |-> header.chromaBase]
    BY <1>2 DEF SizesInv, HeaderInv
  <2> QED BY <2>1
<1>4. /\ cur \in Size /\ luma \in Seq(Size) /\ chroma \in Seq(Size) /\ shapes0 \in Seq(Size)
      /\ shapes1 = <<>> /\ subsampled \in BOOLEAN
  BY <1>1 DEF SizesInv, ImageInv, WalkInv
<1>5. shapes0 = luma /\ cur = header.base
  <2>1. Walked(shapes0, cur, luma, header.base)
    BY <1>1 DEF SizesInv, WalkInv
  <2> QED BY <2>1, <1>1, <1>3, <1>4, WalkEnds
<1>6. Descends(luma, header.base, Image) /\ Descends(chroma, header.chromaBase, ChromaImage)
  BY <1>1 DEF SizesInv, LumaInv, LumaBase, ChromaInv, ChromaBase
<1>7. CASE subsampled
  <2>1. phase' = "walk chroma" /\ cur' = Half(Image) /\ shapes1' = shapes1
    BY <1>1, <1>3, <1>5, <1>7 DEF LumaWalked
  <2>2. Written'
    BY <2>1 DEF Written
  <2>3. HeaderInv' /\ LumaInv' /\ ChromaInv'
    BY <1>1, <1>2, <2>2, WalkKeeps
  <2>4. ChromaImage \in Size /\ ChromaImage = Half(Image)
    BY <1>7, ImageFacts DEF SizesInv, ChromaImage
  <2>5. ImageInv'
    BY <1>1, <2>1, <2>4 DEF SizesInv, ImageInv, encVars
  <2>6. Walked(<<>>, ChromaImage, chroma, header.chromaBase)
    BY <1>4, <1>6, WalkStarts
  <2>7. WalkInv'
    BY <1>1, <1>4, <1>5, <1>7, <2>1, <2>4, <2>6 DEF WalkInv, encVars
  <2> QED BY <2>3, <2>5, <2>7 DEF SizesInv
<1>8. CASE ~subsampled
  <2>1. phase' = "accepted" /\ shapes1' = shapes0 /\ cur' = cur
    BY <1>1, <1>3, <1>5, <1>8 DEF LumaWalked
  <2>2. Written'
    BY <2>1 DEF Written
  <2>3. HeaderInv' /\ LumaInv' /\ ChromaInv'
    BY <1>1, <1>2, <2>2, WalkKeeps
  <2>4. ImageInv'
    BY <1>1, <1>4, <2>1 DEF SizesInv, ImageInv, encVars
  <2>5. luma = chroma
    <3>1. Len(chroma) = Len(luma)
      BY <1>2, <1>8 DEF SizesInv, ChromaInv
    <3>2. ASSUME NEW k \in 1 .. Len(luma) PROVE luma[k] = chroma[k]
      <4>1. k \in 1 .. Len(chroma) + 1 /\ k <= Len(luma) /\ k <= Len(chroma)
        BY <1>4, <3>1
      <4>2. At(chroma, header.chromaBase, k) = At(luma, header.base, k)
        BY <1>1, <1>8, <4>1 DEF SizesInv, ChromaInv, ChromaBase
      <4> QED BY <4>1, <4>2 DEF At
    <3> QED BY <1>4, <3>1, <3>2
  <2>6. WalkInv'
    BY <1>1, <1>5, <2>1, <2>5 DEF WalkInv, encVars
  <2> QED BY <2>3, <2>4, <2>6 DEF SizesInv
<1> QED BY <1>4, <1>7, <1>8

LEMMA WalkChromaInv == SizesInv /\ WalkChroma => SizesInv'
<1> SUFFICES ASSUME SizesInv, WalkChroma PROVE SizesInv'
  OBVIOUS
<1> DEFINE n == Len(shapes1)
           base == header.chromaBase
<1>1. /\ phase = "walk chroma" /\ cur # base /\ UNCHANGED <<encVars, shapes0>>
  BY DEF WalkChroma
<1>2. Written
  BY <1>1 DEF Written
<1>3. /\ cur \in Size /\ luma \in Seq(Size) /\ chroma \in Seq(Size) /\ shapes1 \in Seq(Size)
      /\ n \in Nat /\ Len(chroma) \in Nat /\ Len(luma) \in Nat
  <2>1. cur \in Size /\ luma \in Seq(Size) /\ chroma \in Seq(Size) /\ shapes1 \in Seq(Size)
    BY DEF SizesInv, ImageInv
  <2> QED BY <2>1
<1>4. base \in Size
  BY <1>2 DEF SizesInv, HeaderInv
<1>5. Descends(chroma, base, ChromaImage) /\ Len(chroma) <= 14
  <2>1. Len(luma) <= 14
    BY DEF SizesInv, LumaInv
  <2>2. Descends(chroma, base, ChromaImage) /\ Len(chroma) <= Len(luma)
    BY <1>1 DEF SizesInv, ChromaInv, ChromaBase
  <2> QED BY <2>1, <2>2, <1>3
<1>6. subsampled /\ shapes0 = luma /\ Walked(shapes1, cur, chroma, base)
  BY <1>1 DEF SizesInv, WalkInv
<1>7. n < Len(chroma)
  <2>1. n <= Len(chroma)
    BY <1>6 DEF Walked
  <2>2. ASSUME Len(shapes1) = Len(chroma) PROVE FALSE
    <3>1. cur = base
      BY <1>3, <1>6, <2>2, WalkEnds, SMTT(30)
    <3> QED BY <1>1, <3>1
  <2> QED BY <2>1, <2>2, <1>3
<1>8. cur = chroma[n + 1] /\ Append(shapes1, cur) \in Seq(Size)
      /\ Walked(Append(shapes1, cur), Half(cur), chroma, base)
  BY <1>3, <1>5, <1>6, <1>7, WalkStep
<1>9. cur.w > 1 /\ cur.h > 1
  BY <1>3, <1>5, <1>7, <1>8, LargeHasTwo DEF Descends
<1>10. Half(cur).w >= base.w /\ Half(cur).h >= base.h /\ Half(cur) \in Size
  <2>1. Half(cur) = At(chroma, base, n + 2) /\ n + 1 \in 1 .. Len(chroma)
    <3>1. n + 1 \in 1 .. Len(chroma) /\ (n + 1) + 1 = n + 2
      BY <1>3, <1>7
    <3> QED BY <3>1, <1>5, <1>8 DEF Descends
  <2>2. CASE n + 2 <= Len(chroma)
    <3>1. n + 2 \in 1 .. Len(chroma)
      BY <2>2, <1>3
    <3>2. chroma[n + 2].w > base.w /\ chroma[n + 2].h > base.h /\ chroma[n + 2] \in Size
      BY <3>1, <1>3, <1>5 DEF Descends
    <3>3. Half(cur) = chroma[n + 2]
      BY <2>1, <2>2 DEF At
    <3> QED BY <3>2, <3>3, <1>4 DEF Size
  <2>3. CASE ~(n + 2 <= Len(chroma))
    BY <2>1, <2>3, <1>3, <1>4 DEF At, Size
  <2> QED BY <2>2, <2>3
<1>11. shapes1' = Append(shapes1, cur) /\ cur' = Half(cur) /\ phase' = "walk chroma"
  <2>1. ~(n >= MaxLevels)
    BY <1>3, <1>5, <1>7 DEF MaxLevels
  <2>2. ~(cur.w <= 1) /\ ~(cur.h <= 1) /\ ~(Half(cur).w < base.w) /\ ~(Half(cur).h < base.h)
    BY <1>3, <1>4, <1>9, <1>10 DEF Size
  <2> QED BY <1>1, <2>1, <2>2 DEF WalkChroma
<1>12. HeaderInv' /\ LumaInv' /\ ChromaInv'
  <2>1. Written'
    BY <1>11 DEF Written
  <2> QED BY <1>1, <1>2, <2>1, WalkKeeps
<1>13. ImageInv'
  BY <1>1, <1>8, <1>10, <1>11 DEF SizesInv, ImageInv, encVars
<1>14. WalkInv'
  BY <1>1, <1>6, <1>8, <1>11 DEF WalkInv, encVars
<1> QED BY <1>12, <1>13, <1>14 DEF SizesInv

LEMMA ChromaWalkedInv == SizesInv /\ ChromaWalked => SizesInv'
<1> SUFFICES ASSUME SizesInv, ChromaWalked PROVE SizesInv'
  OBVIOUS
<1>1. /\ phase = "walk chroma" /\ phase' = "accepted" /\ cur = header.chromaBase
      /\ UNCHANGED <<encVars, cur, shapes0, shapes1>>
  BY DEF ChromaWalked
<1>2. Written /\ Written'
  BY <1>1 DEF Written
<1>3. HeaderInv' /\ LumaInv' /\ ChromaInv'
  BY <1>1, <1>2, WalkKeeps
<1>4. ImageInv'
  BY <1>1 DEF SizesInv, ImageInv, encVars
<1>5. shapes0 = luma /\ Walked(shapes1, cur, chroma, header.chromaBase)
  BY <1>1 DEF SizesInv, WalkInv
<1>6. chroma \in Seq(Size) /\ shapes1 \in Seq(Size) /\ header.chromaBase \in Size
  BY <1>2 DEF SizesInv, ImageInv, HeaderInv
<1>7. Descends(chroma, header.chromaBase, ChromaImage)
  BY <1>1 DEF SizesInv, ChromaInv, ChromaBase
<1>8. shapes1 = chroma
  BY <1>1, <1>5, <1>6, <1>7, WalkStopsAtBase, WalkEnds
<1>9. WalkInv'
  BY <1>1, <1>5, <1>8 DEF WalkInv, encVars
<1> QED BY <1>3, <1>4, <1>9 DEF SizesInv

LEMMA SizesStutterInv == SizesInv /\ UNCHANGED sizesVars => SizesInv'
<1> SUFFICES ASSUME SizesInv, UNCHANGED sizesVars PROVE SizesInv'
  OBVIOUS
<1>1. /\ ImageInv' <=> ImageInv
      /\ HeaderInv' <=> HeaderInv
      /\ WalkInv' <=> WalkInv
  BY DEF sizesVars, ImageInv, HeaderInv, WalkInv, Walked, At, Written
<1>2. LumaInv' <=> LumaInv
  BY DEF sizesVars, LumaInv, LumaBase, Descends, At, Splits, TargetFor, SafeBaseTarget, Image
<1>3. ChromaInv' <=> ChromaInv
  BY DEF sizesVars, ChromaInv, ChromaBase, ChromaImage, Descends, At, Splits, TargetFor,
         SafeBaseTarget, Image, Written
<1> QED BY <1>1, <1>2, <1>3 DEF SizesInv

--------------------------------------------------------------------------------
(* Results *)

\* The sizes of both sides are those of repeated halving, at every step of both.
THEOREM SizesInvariance == SizesSpec => []SizesInv
<1>1. SizesInv /\ [SizesNext]_sizesVars => SizesInv'
  BY SplitLumaInv, LumaBuiltInv, SplitChromaInv, ChromaBuiltInv, WalkLumaInv, LumaWalkedInv,
     WalkChromaInv, ChromaWalkedInv, SizesStutterInv DEF SizesNext
<1> QED BY SizesInitInv, <1>1, PTL DEF SizesSpec

\* No plane is ever without a sample, and no level with a single row or column is split,
\* for every image that encode accepts and every target.
THEOREM SizesTypeCorrect == SizesSpec => []SizesTypeOK
<1>1. SizesInv => SizesTypeOK
  <2> SUFFICES ASSUME SizesInv PROVE SizesTypeOK
    OBVIOUS
  <2>1. \A k \in DOMAIN luma : luma[k].w > 1 /\ luma[k].h > 1
    <3>1. Descends(luma, LumaBase, Image) /\ luma \in Seq(Size)
      BY DEF SizesInv, LumaInv, ImageInv
    <3> QED BY <3>1 DEF Descends, Splits
  <2>2. \A k \in DOMAIN chroma : chroma[k].w > 1 /\ chroma[k].h > 1
    <3>1. CASE phase = "luma"
      BY <3>1 DEF SizesInv, ChromaInv
    <3>2. CASE phase # "luma"
      <4>1. Descends(chroma, ChromaBase, ChromaImage) /\ chroma \in Seq(Size)
        BY <3>2 DEF SizesInv, ChromaInv, ImageInv
      <4> QED BY <4>1 DEF Descends, Splits
    <3> QED BY <3>1, <3>2
  <2> QED BY <2>1, <2>2 DEF SizesInv, ImageInv, SizesTypeOK
<1> QED BY SizesInvariance, <1>1, PTL

\* decode_v2 never refuses the sizes that encode wrote: neither the number of levels nor
\* the two base sizes nor the length of the walk to the chroma base.
THEOREM StreamsAccepted == SizesSpec => []NeverRejected
<1>1. SizesInv => NeverRejected
  BY DEF SizesInv, ImageInv, NeverRejected
<1> QED BY SizesInvariance, <1>1, PTL

\* Encoder and decoder derive the same size for every band of every channel.
THEOREM SizesAgree == SizesSpec => []ShapesAgree
<1>1. SizesInv => ShapesAgree
  BY DEF SizesInv, WalkInv, ShapesAgree
<1> QED BY SizesInvariance, <1>1, PTL

\* The single level count of the header is large enough for the chroma bands.
THEOREM ChromaShallower == SizesSpec => []ChromaNotDeeper
<1>1. SizesInv => ChromaNotDeeper
  BY DEF SizesInv, ChromaInv, ChromaNotDeeper
<1> QED BY SizesInvariance, <1>1, PTL
==================================================================================
