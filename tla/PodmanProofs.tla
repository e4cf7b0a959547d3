------------------------------ MODULE PodmanProofs ------------------------------
(***************************************************************************)
(* A call that returns success has been performed, and what exists was     *)
(* asked for, for any number of threads and calls, texts of any length,    *)
(* answers that come late and requests that are served after they were     *)
(* given up.                                                               *)
(*                                                                         *)
(* First the codecs: Podman reads from a request what its caller means     *)
(* (CodecsAgree).  A decoder is a fold over the encoded text; the fold is  *)
(* unfolded into the states it passes (RunsTo), and for the code of a      *)
(* single byte these are followed one by one (UrlByte, JsonByte,           *)
(* FilterByte).  The round trips follow by induction on the text.          *)
(*                                                                         *)
(* Then the protocol.  SuccessWasDone is not inductive: a success is       *)
(* received, so the invariant says it of the answers under way             *)
(* (AnswerInv), and of the requests that they are the ones their callers   *)
(* wait for (WireInv); that no number is used twice keeps the answers      *)
(* apart (NumberInv).                                                      *)
(***************************************************************************)
EXTENDS PodmanClient, SequenceTheorems, WellFoundedInduction, TLAPS

\* Induction for the natural numbers in a set.
LEMMA Induction ==
    ASSUME NEW S, 0 \in S, \A n \in Nat : n \in S => n + 1 \in S
    PROVE  \A n \in Nat : n \in S
<1> SUFFICES ASSUME NEW n \in Nat, n \notin S PROVE FALSE
  OBVIOUS
<1> DEFINE T == Nat \ S
<1>1. PICK m \in T : \A k \in T : <<k, m>> \notin OpToRel(<, Nat)
  <2>1. T \in SUBSET Nat /\ T # {}
    OBVIOUS
  <2> QED
    BY <2>1, WFMin, NatLessThanWellFounded, Zenon
<1>2. \A k \in T : ~(k < m)
  BY <1>1 DEF OpToRel
<1>3. m # 0 /\ m - 1 \in Nat /\ (m - 1) + 1 = m
  OBVIOUS
<1>4. m - 1 \in T
  BY <1>3
<1> QED
  BY <1>2, <1>4
-----------------------------------------------------------------------------
\* A decoder runs from a to b over the text t: h is what it is after each byte.

Text == Seq(Byte)

States == [escape : Text, out : Seq(Int)]

Passes(step, a, t, h) ==
    /\ h \in [0..Len(t) -> States]
    /\ h[0] = a
    /\ \A k \in 1..Len(t) : h[k] = step[h[k - 1]][t[k]]

RunsTo(step, a, t, b) == \E h : Passes(step, a, t, h) /\ h[Len(t)] = b

Steps(step) == \A d \in States, c \in Byte : step[d][c] \in States

LEMMA RunsOnce ==
    ASSUME NEW step, NEW t \in Text, NEW a, NEW b, NEW c, RunsTo(step, a, t, b), RunsTo(step, a, t, c)
    PROVE  b = c
<1>1. PICK g : Passes(step, a, t, g) /\ g[Len(t)] = b
  BY DEF RunsTo
<1>2. PICK h : Passes(step, a, t, h) /\ h[Len(t)] = c
  BY DEF RunsTo
<1> DEFINE S == {n \in Nat : n <= Len(t) => g[n] = h[n]}
<1>3. 0 \in S
  BY <1>1, <1>2 DEF Passes
<1>4. ASSUME NEW n \in Nat, n \in S PROVE n + 1 \in S
  BY <1>1, <1>2, <1>4 DEF Passes, Text
<1> HIDE DEF S
<1>5. \A n \in Nat : n \in S
  BY <1>3, <1>4, Induction
<1> QED
  BY <1>1, <1>2, <1>5 DEF S, Text

LEMMA RunsNowhere ==
    ASSUME NEW step, NEW a \in States
    PROVE  RunsTo(step, a, <<>>, a)
<1> DEFINE h == [k \in 0..0 |-> a]
<1>1. Passes(step, a, <<>>, h) /\ h[Len(<<>>)] = a
  BY DEF Passes
<1> QED
  BY <1>1 DEF RunsTo

LEMMA RunsOn ==
    ASSUME NEW step, Steps(step), NEW t \in Text, NEW c \in Byte, NEW a, NEW b, RunsTo(step, a, t, b)
    PROVE  RunsTo(step, a, Append(t, c), step[b][c])
<1>1. PICK g : Passes(step, a, t, g) /\ g[Len(t)] = b
  BY DEF RunsTo
<1> DEFINE u == Append(t, c)
           n == Len(t)
           h == [k \in 0..(n + 1) |-> IF k <= n THEN g[k] ELSE step[b][c]]
<1>2. n \in Nat /\ Len(u) = n + 1 /\ u[n + 1] = c /\ \A k \in 1..n : u[k] = t[k]
  BY DEF Text
<1>3. b \in States /\ step[b][c] \in States
  BY <1>1, <1>2 DEF Passes, Steps
<1>4. h \in [0..(n + 1) -> States]
  BY <1>1, <1>2, <1>3 DEF Passes
<1>5. h[0] = a
  BY <1>1, <1>2 DEF Passes
<1>6. \A k \in 1..(n + 1) : h[k] = step[h[k - 1]][u[k]]
  BY <1>1, <1>2 DEF Passes
<1>7. h[n + 1] = step[b][c]
  BY <1>2
<1> HIDE DEF h, u
<1>8. Passes(step, a, u, h) /\ h[Len(u)] = step[b][c]
  BY <1>2, <1>4, <1>5, <1>6, <1>7 DEF Passes
<1> QED
  BY <1>8 DEF RunsTo, u

LEMMA RunsAlong ==
    ASSUME NEW step, NEW s \in Text, NEW t \in Text, NEW a, NEW b, NEW c,
           RunsTo(step, a, s, b), RunsTo(step, b, t, c)
    PROVE  RunsTo(step, a, s \o t, c)
<1>1. PICK f : Passes(step, a, s, f) /\ f[Len(s)] = b
  BY DEF RunsTo
<1>2. PICK g : Passes(step, b, t, g) /\ g[Len(t)] = c
  BY DEF RunsTo
<1> DEFINE u == s \o t
           m == Len(s)
           n == Len(t)
           h == [k \in 0..(m + n) |-> IF k <= m THEN f[k] ELSE g[k - m]]
<1>3. /\ m \in Nat /\ n \in Nat /\ Len(u) = m + n
      /\ \A k \in 1..m : u[k] = s[k]
      /\ \A k \in (m + 1)..(m + n) : u[k] = t[k - m]
  BY DEF Text
<1>4. h \in [0..(m + n) -> States] /\ h[0] = a
  BY <1>1, <1>2, <1>3 DEF Passes
<1>5. ASSUME NEW k \in 1..(m + n) PROVE h[k] = step[h[k - 1]][u[k]]
  <2>1. CASE k <= m
    BY <2>1, <1>1, <1>3 DEF Passes
  <2>2. CASE k = m + 1
    <3>1. h[k] = g[1] /\ h[k - 1] = g[0] /\ u[k] = t[1] /\ 1 \in 1..n
      BY <2>2, <1>1, <1>2, <1>3 DEF Passes
    <3> QED
      BY <3>1, <1>2 DEF Passes
  <2>3. CASE k > m + 1
    <3>1. h[k] = g[k - m] /\ h[k - 1] = g[(k - m) - 1] /\ u[k] = t[k - m] /\ k - m \in 1..n
      BY <2>3, <1>3
    <3> QED
      BY <3>1, <1>2 DEF Passes
  <2> QED
    BY <2>1, <2>2, <2>3, <1>3
<1>6. h[m + n] = c
  <2>1. m + n \in 0..(m + n) /\ f[m] = b /\ g[0] = b /\ g[n] = c
    BY <1>1, <1>2, <1>3 DEF Passes
  <2>2. CASE n = 0
    BY <2>1, <2>2, <1>3
  <2>3. CASE n > 0
    <3>1. ~(m + n <= m) /\ (m + n) - m = n
      BY <2>3, <1>3
    <3>2. h[m + n] = g[(m + n) - m]
      BY <2>1, <3>1
    <3> QED
      BY <2>1, <3>1, <3>2
  <2> QED
    BY <2>2, <2>3, <1>3
<1> HIDE DEF h, u
<1>7. Passes(step, a, u, h) /\ h[Len(u)] = c
  BY <1>3, <1>4, <1>5, <1>6 DEF Passes
<1> QED
  BY <1>7 DEF RunsTo, u
-----------------------------------------------------------------------------
\* FoldLeft and FlattenSeq, unfolded.

\* iter folds step over the parts of the first n bytes of t.
Folds(step, a, t, n, iter) ==
    /\ iter \in [SUBSET (1..n) -> States]
    /\ \A s \in SUBSET (1..n) :
          /\ s # {} => Max(s) \in s
          /\ iter[s] = IF s = {} THEN a ELSE step[iter[s \ {Max(s)}]][t[Max(s)]]

LEMMA MaxIs ==
    ASSUME NEW n \in Nat, NEW s \in SUBSET (1..(n + 1)), n + 1 \in s
    PROVE  Max(s) = n + 1
<1>1. n + 1 \in s /\ \A y \in s : n + 1 >= y
  OBVIOUS
<1>2. Max(s) \in s /\ \A y \in s : Max(s) >= y
  BY <1>1 DEF Max
<1> DEFINE m == Max(s)
<1>3. m \in 1..(n + 1) /\ m >= n + 1
  BY <1>2
<1> HIDE DEF m
<1>4. m = n + 1
  BY <1>3
<1> QED
  BY <1>4 DEF m

LEMMA Ranges ==
    ASSUME NEW m \in Nat, NEW n \in 0..(m - 1)
    PROVE  /\ 1..(n + 1) \in SUBSET (1..m) /\ 1..(n + 1) # {} /\ (1..(n + 1)) \ {n + 1} = 1..n
           /\ Max(1..(n + 1)) = n + 1
<1>1. n \in Nat /\ n + 1 <= m
  OBVIOUS
<1>2. 1..(n + 1) \in SUBSET (1..m)
  BY <1>1
<1>3. n + 1 \in 1..(n + 1)
  BY <1>1
<1>4. \A k \in (1..(n + 1)) \ {n + 1} : k \in 1..n
  BY <1>1
<1>5. \A k \in 1..n : k \in 1..(n + 1) /\ k # n + 1
  BY <1>1
<1>6. (1..(n + 1)) \ {n + 1} = 1..n
  BY <1>4, <1>5, Zenon
<1>7. Max(1..(n + 1)) = n + 1
  BY <1>1, <1>3, MaxIs
<1> QED
  BY <1>2, <1>3, <1>6, <1>7, Zenon

LEMMA FoldExists ==
    ASSUME NEW step, Steps(step), NEW t \in Text, NEW a \in States
    PROVE  \E iter : Folds(step, a, t, Len(t), iter)
<1> DEFINE S == {n \in Nat : n <= Len(t) => \E iter : Folds(step, a, t, n, iter)}
<1>1. 0 \in S
  <2> DEFINE iter == [s \in SUBSET (1..0) |-> a]
  <2>1. SUBSET (1..0) = {{}}
    OBVIOUS
  <2>2. \A s \in SUBSET (1..0) : s = {} /\ iter[s] = a
    BY <2>1
  <2> HIDE DEF iter
  <2>3. iter \in [SUBSET (1..0) -> States]
    BY DEF iter
  <2>4. Folds(step, a, t, 0, iter)
    BY <2>2, <2>3 DEF Folds
  <2> QED
    BY <2>4
<1>2. ASSUME NEW n \in Nat, n \in S PROVE n + 1 \in S
  <2> SUFFICES ASSUME n + 1 <= Len(t) PROVE \E iter : Folds(step, a, t, n + 1, iter)
    OBVIOUS
  <2>1. PICK f : Folds(step, a, t, n, f)
    BY <1>2 DEF Text
  <2> DEFINE iter == [s \in SUBSET (1..(n + 1)) |->
                         IF n + 1 \in s THEN step[f[s \ {n + 1}]][t[n + 1]] ELSE f[s]]
  <2>2. \A s \in SUBSET (1..n) : s \in SUBSET (1..(n + 1)) /\ n + 1 \notin s /\ iter[s] = f[s] /\ iter[s] \in States
    BY <2>1 DEF Folds
  <2>3. ASSUME NEW s \in SUBSET (1..(n + 1)), n + 1 \in s
        PROVE  /\ Max(s) = n + 1 /\ Max(s) \in s
               /\ iter[s] = step[iter[s \ {n + 1}]][t[n + 1]] /\ iter[s] \in States
    <3>1. s \ {n + 1} \in SUBSET (1..n)
      OBVIOUS
    <3>2. Max(s) = n + 1
      BY <2>3, MaxIs
    <3>3. iter[s] = step[f[s \ {n + 1}]][t[n + 1]]
      BY <2>3
    <3>4. t[n + 1] \in Byte
      BY DEF Text
    <3> HIDE DEF iter
    <3> QED
      BY <2>2, <2>3, <3>1, <3>2, <3>3, <3>4 DEF Steps
  <2>4. ASSUME NEW s \in SUBSET (1..(n + 1)), n + 1 \notin s
        PROVE  /\ s # {} => Max(s) \in s
               /\ iter[s] = IF s = {} THEN a ELSE step[iter[s \ {Max(s)}]][t[Max(s)]]
               /\ iter[s] \in States
    <3>0. \A x \in s : x \in 1..n
      BY <2>4
    <3>1. s \in SUBSET (1..n) /\ \A x : s \ {x} \in SUBSET (1..n)
      BY <3>0, Zenon
    <3>2. iter[s] = f[s] /\ iter[s] \in States /\ \A x : iter[s \ {x}] = f[s \ {x}]
      BY <3>1, <2>2
    <3> HIDE DEF iter
    <3> QED
      BY <2>1, <3>1, <3>2 DEF Folds
  <2>5. iter \in [SUBSET (1..(n + 1)) -> States]
    BY <2>3, <2>4
  <2> HIDE DEF iter
  <2>6. Folds(step, a, t, n + 1, iter)
    <3> SUFFICES ASSUME NEW s \in SUBSET (1..(n + 1))
                 PROVE  /\ s # {} => Max(s) \in s
                        /\ iter[s] = IF s = {} THEN a ELSE step[iter[s \ {Max(s)}]][t[Max(s)]]
      BY <2>5 DEF Folds
    <3> QED
      BY <2>3, <2>4
  <2> QED
    BY <2>6
<1> HIDE DEF S
<1>3. \A n \in Nat : n \in S
  BY <1>1, <1>2, Induction
<1> QED
  BY <1>3 DEF S, Text

\* What is folded over a text is where step runs to.
LEMMA FoldRuns ==
    ASSUME NEW step, Steps(step), NEW t \in Text, NEW a \in States, NEW iter,
           iter[{}] = a,
           \A n \in 0..(Len(t) - 1) : iter[1..n] \in States =>
               iter[1..(n + 1)] = step[iter[1..n]][t[n + 1]]
    PROVE  RunsTo(step, a, t, iter[1..Len(t)])
<1> DEFINE S == {n \in Nat : n <= Len(t) => iter[1..n] \in States}
           h == [n \in 0..Len(t) |-> iter[1..n]]
<1>0. 1..0 = {} /\ Len(t) \in Nat
  BY DEF Text
<1>1. 0 \in S
  BY <1>0
<1>2. ASSUME NEW n \in Nat, n \in S PROVE n + 1 \in S
  <2> SUFFICES ASSUME n + 1 <= Len(t) PROVE iter[1..(n + 1)] \in States
    OBVIOUS
  <2>1. iter[1..n] \in States /\ t[n + 1] \in Byte /\ n \in 0..(Len(t) - 1)
    BY <1>2, <1>0 DEF Text
  <2> QED
    BY <2>1 DEF Steps
<1> HIDE DEF S
<1>3. \A n \in Nat : n \in S
  BY <1>1, <1>2, Induction
<1>4. \A n \in 0..Len(t) : iter[1..n] \in States
  BY <1>0, <1>3 DEF S
<1>5. ASSUME NEW k \in 1..Len(t) PROVE h[k] = step[h[k - 1]][t[k]]
  <2>1. k - 1 \in 0..(Len(t) - 1) /\ k \in 0..Len(t) /\ k - 1 \in 0..Len(t) /\ (k - 1) + 1 = k
    BY <1>0
  <2>2. h[k] = iter[1..k] /\ h[k - 1] = iter[1..(k - 1)]
    BY <2>1
  <2>3. iter[1..((k - 1) + 1)] = step[iter[1..(k - 1)]][t[(k - 1) + 1]]
    BY <2>1, <1>4
  <2> QED
    BY <2>1, <2>2, <2>3
<1>6. h[0] = a /\ h[Len(t)] = iter[1..Len(t)] /\ h \in [0..Len(t) -> States]
  BY <1>0, <1>4
<1> HIDE DEF h
<1>7. Passes(step, a, t, h)
  BY <1>5, <1>6 DEF Passes
<1> QED
  BY <1>6, <1>7 DEF RunsTo
-----------------------------------------------------------------------------
\* The two decoders.

UrlSteps(plus) == [d \in States |-> [c \in Byte |-> UrlTake(d, c, plus)]]

JsonSteps == [d \in States |-> [c \in Byte |-> JsonTake(d, c)]]

LEMMA HexValueIsInt == \A c : HexValue(c) \in Int
BY DEF HexValue, Digit

LEMMA StartIs ==
    /\ Start \in States /\ Start.escape = <<>> /\ Start.out = <<>>
    /\ Undecodable \in Seq(Int)
    /\ \A b \in Byte : <<b>> \in Text
<1>1. <<>> \in Text /\ <<>> \in Seq(Int) /\ Undecodable \in Seq(Int) /\ \A b \in Byte : <<b>> \in Text
  BY DEF Text, Undecodable
<1> QED
  BY <1>1 DEF Start, States

LEMMA StatesMade ==
    ASSUME NEW d \in States
    PROVE  /\ d.escape \in Text /\ d.out \in Seq(Int)
           /\ \A e \in Text : [d EXCEPT !.escape = e] \in States
           /\ \A o \in Seq(Int) : [d EXCEPT !.out = o] \in States
           /\ \A e \in Text, o \in Seq(Int) : [escape |-> e, out |-> o] \in States
           /\ \A c \in Byte : Append(d.escape, c) \in Text
           /\ \A i \in Int : Append(d.out, i) \in Seq(Int)
<1>1. d.escape \in Text /\ d.out \in Seq(Int)
  BY DEF States
<1>2. \A c \in Byte : Append(d.escape, c) \in Text
  BY <1>1 DEF Text
<1>3. \A i \in Int : Append(d.out, i) \in Seq(Int)
  BY <1>1
<1>4. \A e \in Text, o \in Seq(Int) : [escape |-> e, out |-> o] \in States
  BY DEF States
<1>5. \A e \in Text : [d EXCEPT !.escape = e] \in States
  BY <1>1 DEF States
<1>6. \A o \in Seq(Int) : [d EXCEPT !.out = o] \in States
  BY <1>1 DEF States
<1> QED
  BY <1>1, <1>2, <1>3, <1>4, <1>5, <1>6

LEMMA UrlStepsOf ==
    ASSUME NEW plus
    PROVE  /\ Steps(UrlSteps(plus))
           /\ \A d \in States, c \in Byte : UrlSteps(plus)[d][c] = UrlTake(d, c, plus)
<1>1. ASSUME NEW d \in States, NEW c \in Byte PROVE UrlTake(d, c, plus) \in States
  <2>1. /\ c \in Int /\ 32 \in Int /\ <<c>> \in Text /\ <<>> \in Text /\ Undecodable \in Seq(Int)
    BY StartIs DEF Byte, Text
  <2>3. 16 * HexValue(d.escape[2]) + HexValue(c) \in Int
    BY HexValueIsInt
  <2> QED
    BY <2>1, <2>3, StatesMade DEF UrlTake
<1> QED
  BY <1>1 DEF Steps, UrlSteps

LEMMA JsonStepsOf ==
    /\ Steps(JsonSteps)
    /\ \A d \in States, c \in Byte : JsonSteps[d][c] = JsonTake(d, c)
<1>1. ASSUME NEW d \in States, NEW c \in Byte PROVE JsonTake(d, c) \in States
  <2>1. /\ c \in Int /\ 32 \in Int /\ <<c>> \in Text /\ <<>> \in Text /\ Undecodable \in Seq(Int)
    BY StartIs DEF Byte, Text
  <2>3. 16 * HexValue(d.escape[4]) + HexValue(c) \in Int
    BY HexValueIsInt
  <2>4. (\E e \in DOMAIN ShortEscape : ShortEscape[e] = c) =>
            (CHOOSE e \in DOMAIN ShortEscape : ShortEscape[e] = c) \in Int
    BY DEF ShortEscape
  <2> QED
    BY <2>1, <2>3, <2>4, StatesMade DEF JsonTake
<1> QED
  BY <1>1 DEF Steps, JsonSteps

LEMMA UrlDecodeRuns ==
    ASSUME NEW plus, NEW t \in Text
    PROVE  \E d \in States : /\ RunsTo(UrlSteps(plus), Start, t, d)
                             /\ UrlDecode(t, plus) = IF d.escape # <<>> THEN Undecodable ELSE d.out
<1> DEFINE Folded(iter) == iter = [s \in SUBSET DOMAIN t |->
                IF s = {} THEN Start ELSE UrlTake(iter[s \ {Max(s)}], t[Max(s)], plus)]
           fold == CHOOSE iter : Folded(iter)
<1>1. UrlDecode(t, plus) = IF fold[DOMAIN t].escape # <<>> THEN Undecodable ELSE fold[DOMAIN t].out
  BY DEF UrlDecode, FoldLeft, MapThenFoldSet
<1>2. DOMAIN t = 1..Len(t) /\ Len(t) \in Nat
  BY DEF Text
<1>3. PICK f : Folds(UrlSteps(plus), Start, t, Len(t), f)
  BY UrlStepsOf, StartIs, FoldExists
<1>4. Folded(f)
  <2>1. ASSUME NEW s \in SUBSET DOMAIN t, s # {}
        PROVE  f[s] = UrlTake(f[s \ {Max(s)}], t[Max(s)], plus)
    <3>1. s \ {Max(s)} \in SUBSET (1..Len(t)) /\ Max(s) \in s
      BY <1>2, <1>3, <2>1 DEF Folds
    <3>2. f[s \ {Max(s)}] \in States /\ t[Max(s)] \in Byte
      BY <1>2, <1>3, <3>1 DEF Folds, Text
    <3> QED
      BY <1>2, <1>3, <2>1, <3>2, UrlStepsOf DEF Folds
  <2>2. f[{}] = Start /\ f \in [SUBSET DOMAIN t -> States]
    BY <1>2, <1>3 DEF Folds
  <2> QED
    BY <2>1, <2>2
<1>5. Folded(fold)
  BY <1>4
<1> HIDE DEF fold
<1>6. /\ fold[{}] = Start
      /\ \A s \in SUBSET DOMAIN t : s # {} => fold[s] = UrlTake(fold[s \ {Max(s)}], t[Max(s)], plus)
  BY <1>5
<1>7. ASSUME NEW n \in 0..(Len(t) - 1), fold[1..n] \in States
      PROVE  fold[1..(n + 1)] = UrlSteps(plus)[fold[1..n]][t[n + 1]]
  <2>1. Len(t) \in Nat /\ DOMAIN t = 1..Len(t)
    BY <1>2
  <2>2. /\ 1..(n + 1) \in SUBSET DOMAIN t /\ 1..(n + 1) # {} /\ (1..(n + 1)) \ {n + 1} = 1..n
        /\ Max(1..(n + 1)) = n + 1
    BY <2>1, Ranges, Zenon
  <2>3. t[n + 1] \in Byte
    BY <1>2 DEF Text
  <2>4. fold[1..(n + 1)] = UrlTake(fold[1..n], t[n + 1], plus)
    BY <1>6, <2>2
  <2> QED
    BY <1>7, <2>3, <2>4, UrlStepsOf
<1>8. RunsTo(UrlSteps(plus), Start, t, fold[1..Len(t)])
  BY <1>6, <1>7, UrlStepsOf, StartIs, FoldRuns
<1>9. fold[1..Len(t)] \in States
  BY <1>2, <1>8 DEF RunsTo, Passes
<1> QED
  BY <1>1, <1>2, <1>8, <1>9

LEMMA QuotedIs ==
    ASSUME NEW t \in Text
    PROVE  Quoted(t) \in Text /\ SubSeq(Quoted(t), 2, Len(Quoted(t)) - 1) = t
<1> DEFINE q == <<Quote>>
<1>1. q \in Text /\ Len(q) = 1
  BY StartIs DEF Quote, Byte
<1> HIDE DEF q
<1>2. q \o t \in Text /\ Len(q \o t) = Len(t) + 1 /\ Len(t) \in Nat
      /\ \A i \in 1..Len(t) : (q \o t)[i + 1] = t[i]
  <2>1. /\ q \o t \in Seq(Byte) /\ Len(q \o t) = 1 + Len(t) /\ Len(t) \in Nat
        /\ \A i \in 1..(1 + Len(t)) : (q \o t)[i] = IF i <= 1 THEN q[i] ELSE t[i - 1]
    <3>1. t \in Seq(Byte) /\ q \in Seq(Byte) /\ Len(q) = 1 /\ Len(t) \in Nat
      BY <1>1 DEF Text
    <3>2. /\ q \o t \in Seq(Byte) /\ Len(q \o t) = Len(q) + Len(t)
          /\ \A i \in 1..(Len(q) + Len(t)) : (q \o t)[i] = IF i <= Len(q) THEN q[i] ELSE t[i - Len(q)]
      BY <3>1, ConcatProperties, Zenon
    <3> QED
      BY <3>1, <3>2
  <2> QED
    BY <2>1 DEF Text
<1>3. (q \o t) \o q \in Text /\ Len((q \o t) \o q) = Len(t) + 2
      /\ \A i \in 1..Len(t) : ((q \o t) \o q)[i + 1] = t[i]
  BY <1>1, <1>2 DEF Text
<1>4. Quoted(t) = (q \o t) \o q
  BY DEF Quoted, q
<1> DEFINE u == SubSeq(Quoted(t), 2, Len(Quoted(t)) - 1)
<1>5. u \in Text /\ Len(u) = Len(t) /\ \A i \in 1..Len(t) : u[i] = t[i]
  BY <1>2, <1>3, <1>4 DEF Text
<1> HIDE DEF u
<1>6. u = t
  BY <1>5, SeqEqual DEF Text
<1> QED
  BY <1>3, <1>4, <1>6 DEF u

LEMMA JsonUnescapeRuns ==
    ASSUME NEW t \in Text
    PROVE  \E d \in States : RunsTo(JsonSteps, Start, t, d) /\ JsonUnescape(Quoted(t)) = d.out
<1> DEFINE Folded(iter) == iter = [s \in SUBSET DOMAIN t |->
                IF s = {} THEN Start ELSE JsonTake(iter[s \ {Max(s)}], t[Max(s)])]
           fold == CHOOSE iter : Folded(iter)
<1>1. JsonUnescape(Quoted(t)) = fold[DOMAIN t].out
  <2>1. JsonUnescape(Quoted(t)) = FoldLeft(JsonTake, Start, t).out
    BY QuotedIs DEF JsonUnescape
  <2> QED
    BY <2>1 DEF FoldLeft, MapThenFoldSet
<1>2. DOMAIN t = 1..Len(t) /\ Len(t) \in Nat
  BY DEF Text
<1>3. PICK f : Folds(JsonSteps, Start, t, Len(t), f)
  BY JsonStepsOf, StartIs, FoldExists
<1>4. Folded(f)
  <2>1. ASSUME NEW s \in SUBSET DOMAIN t, s # {}
        PROVE  f[s] = JsonTake(f[s \ {Max(s)}], t[Max(s)])
    <3>1. s \ {Max(s)} \in SUBSET (1..Len(t)) /\ Max(s) \in s
      BY <1>2, <1>3, <2>1 DEF Folds
    <3>2. f[s \ {Max(s)}] \in States /\ t[Max(s)] \in Byte
      BY <1>2, <1>3, <3>1 DEF Folds, Text
    <3> QED
      BY <1>2, <1>3, <2>1, <3>2, JsonStepsOf DEF Folds
  <2>2. f[{}] = Start /\ f \in [SUBSET DOMAIN t -> States]
    BY <1>2, <1>3 DEF Folds
  <2> QED
    BY <2>1, <2>2
<1>5. Folded(fold)
  BY <1>4
<1> HIDE DEF fold
<1>6. /\ fold[{}] = Start
      /\ \A s \in SUBSET DOMAIN t : s # {} => fold[s] = JsonTake(fold[s \ {Max(s)}], t[Max(s)])
  BY <1>5
<1>7. ASSUME NEW n \in 0..(Len(t) - 1), fold[1..n] \in States
      PROVE  fold[1..(n + 1)] = JsonSteps[fold[1..n]][t[n + 1]]
  <2>1. Len(t) \in Nat /\ DOMAIN t = 1..Len(t)
    BY <1>2
  <2>2. /\ 1..(n + 1) \in SUBSET DOMAIN t /\ 1..(n + 1) # {} /\ (1..(n + 1)) \ {n + 1} = 1..n
        /\ Max(1..(n + 1)) = n + 1
    BY <2>1, Ranges, Zenon
  <2>3. t[n + 1] \in Byte
    BY <1>2 DEF Text
  <2>4. fold[1..(n + 1)] = JsonTake(fold[1..n], t[n + 1])
    BY <1>6, <2>2
  <2> QED
    BY <1>7, <2>3, <2>4, JsonStepsOf
<1>8. RunsTo(JsonSteps, Start, t, fold[1..Len(t)])
  BY <1>6, <1>7, JsonStepsOf, StartIs, FoldRuns
<1>9. fold[1..Len(t)] \in States
  BY <1>2, <1>8 DEF RunsTo, Passes
<1> QED
  BY <1>1, <1>2, <1>8, <1>9
-----------------------------------------------------------------------------
\* The encoders: f gives the bytes for each byte of a text.

Encodes(f) == \A c \in Byte : f[c] \in Text

\* g is what the beginnings of t are encoded to.
FlattensTo(t, f, n, g) ==
    /\ g \in [0..n -> Text]
    /\ g[0] = <<>>
    /\ \A k \in 1..n : g[k] = g[k - 1] \o f[t[k]]

Flattens(t, f, g) == FlattensTo(t, f, Len(t), g)

LEMMA FlattenExists ==
    ASSUME NEW f, Encodes(f), NEW t \in Text
    PROVE  \E g : Flattens(t, f, g)
<1> DEFINE S == {n \in Nat : n <= Len(t) => \E g : FlattensTo(t, f, n, g)}
<1>1. 0 \in S
  <2> DEFINE g == [k \in 0..0 |-> <<>>]
  <2>1. <<>> \in Text
    BY StartIs DEF States, Text
  <2>2. FlattensTo(t, f, 0, g)
    BY <2>1 DEF FlattensTo
  <2> QED
    BY <2>2
<1>2. ASSUME NEW n \in Nat, n \in S PROVE n + 1 \in S
  <2> SUFFICES ASSUME n + 1 <= Len(t) PROVE \E g : FlattensTo(t, f, n + 1, g)
    OBVIOUS
  <2>1. PICK g : FlattensTo(t, f, n, g)
    BY <1>2 DEF Text
  <2> DEFINE h == [k \in 0..(n + 1) |-> IF k <= n THEN g[k] ELSE g[n] \o f[t[n + 1]]]
  <2>2. g[n] \o f[t[n + 1]] \in Text
    <3>1. g[n] \in Text /\ f[t[n + 1]] \in Text
      BY <2>1 DEF FlattensTo, Encodes, Text
    <3> QED
      BY <3>1 DEF Text
  <2>3. h \in [0..(n + 1) -> Text] /\ h[0] = <<>>
    BY <2>1, <2>2 DEF FlattensTo
  <2>4. ASSUME NEW k \in 1..(n + 1) PROVE h[k] = h[k - 1] \o f[t[k]]
    <3>1. CASE k <= n
      <4>1. h[k] = g[k] /\ h[k - 1] = g[k - 1] /\ k \in 1..n
        BY <3>1
      <4> QED
        BY <2>1, <4>1 DEF FlattensTo
    <3>2. CASE k = n + 1
      <4>1. h[k] = g[n] \o f[t[n + 1]] /\ h[k - 1] = g[n]
        BY <3>2
      <4> QED
        BY <3>2, <4>1
    <3>3. k <= n \/ k = n + 1
      OBVIOUS
    <3> HIDE DEF h
    <3> QED
      BY <3>1, <3>2, <3>3
  <2> HIDE DEF h
  <2>5. FlattensTo(t, f, n + 1, h)
    BY <2>3, <2>4 DEF FlattensTo
  <2> QED
    BY <2>5
<1> HIDE DEF S
<1>3. \A n \in Nat : n \in S
  BY <1>1, <1>2, Induction
<1> QED
  BY <1>3 DEF S, Text, Flattens

LEMMA EachIs ==
    ASSUME NEW f, Encodes(f), NEW t \in Text
    PROVE  \E g : Flattens(t, f, g) /\ Each(t, f) = g[Len(t)]
<1> DEFINE seqs == [k \in DOMAIN t |-> f[t[k]]]
           Flat(g) == g = [i \in 1..Len(seqs) |-> IF i = 1 THEN seqs[i] ELSE g[i - 1] \o seqs[i]]
           flat == CHOOSE g : Flat(g)
<1>1. Each(t, f) = IF Len(seqs) = 0 THEN seqs ELSE flat[Len(seqs)]
  BY DEF Each, FlattenSeq
<1>2. /\ Len(t) \in Nat /\ DOMAIN t = 1..Len(t) /\ Len(seqs) = Len(t)
      /\ \A k \in 1..Len(t) : seqs[k] = f[t[k]] /\ f[t[k]] \in Text
      /\ Len(t) = 0 => seqs = <<>>
  BY DEF Text, Encodes
<1>3. PICK g : Flattens(t, f, g)
  BY FlattenExists
<1> HIDE DEF seqs
<1>4. Flat([i \in 1..Len(t) |-> g[i]])
  <2> DEFINE h == [i \in 1..Len(t) |-> g[i]]
  <2>1. ASSUME NEW i \in 1..Len(seqs) PROVE h[i] = IF i = 1 THEN seqs[i] ELSE h[i - 1] \o seqs[i]
    <3>1. h[i] = g[i - 1] \o seqs[i] /\ seqs[i] \in Text
      BY <1>2, <1>3 DEF Flattens, FlattensTo
    <3>2. CASE i = 1
      <4>1. g[i - 1] = <<>>
        BY <3>2, <1>3 DEF Flattens, FlattensTo
      <4>2. <<>> \o seqs[i] = seqs[i]
        BY <3>1, ConcatEmptySeq DEF Text
      <4> QED
        BY <3>1, <3>2, <4>1, <4>2
    <3>3. CASE i # 1
      <4>1. i - 1 \in 1..Len(t) /\ h[i - 1] = g[i - 1]
        BY <3>3, <1>2
      <4> QED
        BY <3>1, <3>3, <4>1
    <3> QED
      BY <3>2, <3>3
  <2>2. h = [i \in 1..Len(seqs) |-> h[i]]
    BY <1>2
  <2> HIDE DEF h
  <2>3. h = [i \in 1..Len(seqs) |-> IF i = 1 THEN seqs[i] ELSE h[i - 1] \o seqs[i]]
    BY <2>1, <2>2
  <2> QED
    BY <2>3 DEF h
<1>5. Flat(flat)
  BY <1>4
<1> HIDE DEF flat
<1>6. \A i \in 1..Len(t) : flat[i] = IF i = 1 THEN seqs[i] ELSE flat[i - 1] \o seqs[i]
  BY <1>2, <1>5
<1> DEFINE S == {n \in Nat : n + 1 <= Len(t) => flat[n + 1] = g[n + 1]}
<1>7. 0 \in S
  <2> SUFFICES ASSUME 1 <= Len(t) PROVE flat[1] = g[1]
    OBVIOUS
  <2>1. g[1] = g[0] \o f[t[1]] /\ g[0] = <<>> /\ seqs[1] = f[t[1]] /\ f[t[1]] \in Text
    BY <1>2, <1>3 DEF Flattens, FlattensTo
  <2>2. <<>> \o seqs[1] = seqs[1]
    BY <2>1, ConcatEmptySeq DEF Text
  <2> QED
    BY <1>2, <1>6, <2>1, <2>2
<1>8. ASSUME NEW n \in Nat, n \in S PROVE n + 1 \in S
  <2> SUFFICES ASSUME (n + 1) + 1 <= Len(t) PROVE flat[(n + 1) + 1] = g[(n + 1) + 1]
    OBVIOUS
  <2> DEFINE i == (n + 1) + 1
  <2>1. i \in 1..Len(t) /\ i # 1 /\ i - 1 = n + 1
    BY <1>2
  <2>2. flat[n + 1] = g[n + 1]
    BY <1>2, <1>8
  <2> HIDE DEF i
  <2>3. flat[i] = flat[i - 1] \o seqs[i]
    BY <1>6, <2>1
  <2>4. g[i] = g[i - 1] \o f[t[i]] /\ seqs[i] = f[t[i]]
    BY <1>2, <1>3, <2>1 DEF Flattens, FlattensTo
  <2>5. flat[i] = g[i]
    BY <2>1, <2>2, <2>3, <2>4
  <2> QED
    BY <2>5 DEF i
<1> HIDE DEF S
<1>9. \A n \in Nat : n \in S
  BY <1>7, <1>8, Induction
<1>10. CASE Len(t) = 0
  BY <1>1, <1>2, <1>3, <1>10 DEF Flattens, FlattensTo
<1>11. CASE Len(t) # 0
  <2>1. Len(t) - 1 \in S /\ (Len(t) - 1) + 1 = Len(t) /\ Len(t) - 1 \in Nat
    BY <1>2, <1>9, <1>11
  <2>2. flat[Len(t)] = g[Len(t)]
    BY <2>1, <1>2 DEF S
  <2> QED
    BY <1>1, <1>2, <1>3, <1>11, <2>2
<1> QED
  BY <1>10, <1>11

LEMMA EachIsText ==
    ASSUME NEW f, Encodes(f), NEW t \in Text
    PROVE  Each(t, f) \in Text
<1>1. PICK g : Flattens(t, f, g) /\ Each(t, f) = g[Len(t)]
  BY EachIs
<1> QED
  BY <1>1 DEF Flattens, FlattensTo, Text

\* Where a decoder runs to over an encoded text follows byte by byte.
LEMMA EachRuns ==
    ASSUME NEW step, Steps(step), NEW f, Encodes(f), NEW t \in Text,
           NEW state \in [0..Len(t) -> States],
           \A k \in 1..Len(t) : RunsTo(step, state[k - 1], f[t[k]], state[k])
    PROVE  RunsTo(step, state[0], Each(t, f), state[Len(t)])
<1>1. PICK g : Flattens(t, f, g) /\ Each(t, f) = g[Len(t)]
  BY EachIs
<1> DEFINE S == {n \in Nat : n <= Len(t) => RunsTo(step, state[0], g[n], state[n])}
<1>2. 0 \in S
  BY <1>1, RunsNowhere DEF Flattens, FlattensTo, Text
<1>3. ASSUME NEW n \in Nat, n \in S PROVE n + 1 \in S
  <2> SUFFICES ASSUME n + 1 <= Len(t) PROVE RunsTo(step, state[0], g[n + 1], state[n + 1])
    OBVIOUS
  <2>1. n + 1 \in 1..Len(t) /\ (n + 1) - 1 = n /\ n \in 0..Len(t) /\ t[n + 1] \in Byte
    BY DEF Text
  <2>2. RunsTo(step, state[0], g[n], state[n]) /\ RunsTo(step, state[n], f[t[n + 1]], state[n + 1])
    BY <1>3, <2>1
  <2>3. g[n + 1] = g[n] \o f[t[n + 1]] /\ g[n] \in Text /\ f[t[n + 1]] \in Text
    BY <1>1, <2>1 DEF Flattens, FlattensTo, Encodes
  <2> QED
    BY <2>2, <2>3, RunsAlong
<1> HIDE DEF S
<1>4. \A n \in Nat : n \in S
  BY <1>2, <1>3, Induction
<1> QED
  BY <1>1, <1>4 DEF S, Text
-----------------------------------------------------------------------------
\* What is decoded of one encoded byte.

Clean(o) == [escape |-> <<>>, out |-> o]

LEMMA CleanIs ==
    /\ Start = Clean(<<>>)
    /\ Clean(Undecodable) \in States
    /\ \A o \in Text : /\ Clean(o) \in States /\ o # Undecodable
                       /\ \A c \in Byte : Append(o, c) \in Text
<1>1. Start = Clean(<<>>)
  BY DEF Start, Clean
<1>2. Clean(Undecodable) \in States
  BY StartIs, StatesMade DEF Clean, States, Text
<1>3. ASSUME NEW o \in Text
      PROVE  o \in Seq(Int) /\ o # Undecodable /\ \A c \in Byte : Append(o, c) \in Text
  <2>1. o \in Seq(Int)
    <3>1. Byte \subseteq Int
      BY DEF Byte
    <3> QED
      BY <3>1, SeqMonotonic, Zenon DEF Text
  <2>2. o # Undecodable
    <3>1. o = Undecodable => Len(o) = 1 /\ o[1] = -1
      BY DEF Undecodable
    <3>2. Len(o) = 1 => o[1] \in Byte
      BY DEF Text
    <3> QED
      BY <3>1, <3>2 DEF Byte
  <2> QED
    BY <2>1, <2>2 DEF Text
<1>4. \A o \in Text : Clean(o) \in States
  BY <1>3, StartIs DEF Clean, States, Text
<1> QED
  BY <1>1, <1>2, <1>3, <1>4

LEMMA HexIs ==
    ASSUME NEW n \in 0..15, NEW letters \in {65, 97}
    PROVE  HexDigit(n, letters) \in Byte \ {Percent, Quote, Backslash} /\ HexValue(HexDigit(n, letters)) = n
BY DEF HexDigit, HexValue, Digit, Byte, Percent, Quote, Backslash

LEMMA HalvesOf ==
    ASSUME NEW c \in Byte
    PROVE  c \div 16 \in 0..15 /\ c % 16 \in 0..15 /\ 16 * (c \div 16) + (c % 16) = c
BY DEF Byte

\* One byte more.
LEMMA RunsOneByte ==
    ASSUME NEW step, Steps(step), NEW a \in States, NEW c \in Byte
    PROVE  RunsTo(step, a, <<c>>, step[a][c])
<1>1. RunsTo(step, a, <<>>, a) /\ <<>> \in Text
  BY RunsNowhere, StartIs DEF States
<1>2. Append(<<>>, c) = <<c>>
  OBVIOUS
<1> QED
  BY <1>1, <1>2, RunsOn

LEMMA RunsNext ==
    ASSUME NEW step, Steps(step), NEW t \in Text, NEW c \in Byte, NEW a, NEW b, RunsTo(step, a, t, b),
           NEW u, u = Append(t, c), NEW d, d = step[b][c]
    PROVE  RunsTo(step, a, u, d)
BY RunsOn

LEMMA Appended ==
    ASSUME NEW S, NEW t \in Seq(S), NEW c \in S, NEW u \in Seq(S), Len(u) = Len(t) + 1,
           u[Len(t) + 1] = c, \A k \in 1..Len(t) : u[k] = t[k]
    PROVE  Append(t, c) = u
<1> DEFINE v == Append(t, c)
<1>1. v \in Seq(S) /\ Len(v) = Len(t) + 1 /\ Len(t) \in Nat
      /\ \A k \in 1..Len(v) : v[k] = IF k <= Len(t) THEN t[k] ELSE c
  OBVIOUS
<1> HIDE DEF v
<1>2. \A k \in 1..Len(v) : v[k] = u[k]
  BY <1>1
<1>3. v = u
  BY <1>1, <1>2, SeqEqual
<1> QED
  BY <1>3 DEF v

LEMMA Append2 ==
    ASSUME NEW x1, NEW x2
    PROVE  Append(<<x1>>, x2) = <<x1, x2>>
<1> DEFINE S == {x1, x2}
           t == <<x1>>
           u == <<x1, x2>>
<1>1. t \in Seq(S) /\ Len(t) = 1 /\ t[1] = x1
  OBVIOUS
<1>2. u \in Seq(S) /\ Len(u) = 2 /\ u[1] = x1 /\ u[2] = x2
  OBVIOUS
<1>3. x2 \in S
  OBVIOUS
<1> HIDE DEF S, t, u
<1>4. Len(u) = Len(t) + 1 /\ u[Len(t) + 1] = x2 /\ \A k \in 1..Len(t) : u[k] = t[k]
  BY <1>1, <1>2
<1>5. Append(t, x2) = u
  BY <1>1, <1>2, <1>3, <1>4, Appended, Zenon
<1> QED
  BY <1>5 DEF t, u

LEMMA Append3 ==
    ASSUME NEW x1, NEW x2, NEW x3
    PROVE  Append(<<x1, x2>>, x3) = <<x1, x2, x3>>
<1> DEFINE S == {x1, x2, x3}
           t == <<x1, x2>>
           u == <<x1, x2, x3>>
<1>1. t \in Seq(S) /\ Len(t) = 2 /\ t[1] = x1 /\ t[2] = x2
  OBVIOUS
<1>2. u \in Seq(S) /\ Len(u) = 3 /\ u[1] = x1 /\ u[2] = x2 /\ u[3] = x3
  OBVIOUS
<1>3. x3 \in S
  OBVIOUS
<1> HIDE DEF S, t, u
<1>4. Len(u) = Len(t) + 1 /\ u[Len(t) + 1] = x3 /\ \A k \in 1..Len(t) : u[k] = t[k]
  BY <1>1, <1>2
<1>5. Append(t, x3) = u
  BY <1>1, <1>2, <1>3, <1>4, Appended, Zenon
<1> QED
  BY <1>5 DEF t, u

LEMMA Append4 ==
    ASSUME NEW x1, NEW x2, NEW x3, NEW x4
    PROVE  Append(<<x1, x2, x3>>, x4) = <<x1, x2, x3, x4>>
<1> DEFINE S == {x1, x2, x3, x4}
           t == <<x1, x2, x3>>
           u == <<x1, x2, x3, x4>>
<1>1. t \in Seq(S) /\ Len(t) = 3 /\ t[1] = x1 /\ t[2] = x2 /\ t[3] = x3
  OBVIOUS
<1>2. u \in Seq(S) /\ Len(u) = 4 /\ u[1] = x1 /\ u[2] = x2 /\ u[3] = x3 /\ u[4] = x4
  OBVIOUS
<1>3. x4 \in S
  OBVIOUS
<1> HIDE DEF S, t, u
<1>4. Len(u) = Len(t) + 1 /\ u[Len(t) + 1] = x4 /\ \A k \in 1..Len(t) : u[k] = t[k]
  BY <1>1, <1>2
<1>5. Append(t, x4) = u
  BY <1>1, <1>2, <1>3, <1>4, Appended, Zenon
<1> QED
  BY <1>5 DEF t, u

LEMMA Append5 ==
    ASSUME NEW x1, NEW x2, NEW x3, NEW x4, NEW x5
    PROVE  Append(<<x1, x2, x3, x4>>, x5) = <<x1, x2, x3, x4, x5>>
<1> DEFINE S == {x1, x2, x3, x4, x5}
           t == <<x1, x2, x3, x4>>
           u == <<x1, x2, x3, x4, x5>>
<1>1. t \in Seq(S) /\ Len(t) = 4 /\ t[1] = x1 /\ t[2] = x2 /\ t[3] = x3 /\ t[4] = x4
  OBVIOUS
<1>2. u \in Seq(S) /\ Len(u) = 5 /\ u[1] = x1 /\ u[2] = x2 /\ u[3] = x3 /\ u[4] = x4 /\ u[5] = x5
  OBVIOUS
<1>3. x5 \in S
  OBVIOUS
<1> HIDE DEF S, t, u
<1>4. Len(u) = Len(t) + 1 /\ u[Len(t) + 1] = x5 /\ \A k \in 1..Len(t) : u[k] = t[k]
  BY <1>1, <1>2
<1>5. Append(t, x5) = u
  BY <1>1, <1>2, <1>3, <1>4, Appended, Zenon
<1> QED
  BY <1>5 DEF t, u

LEMMA Append6 ==
    ASSUME NEW x1, NEW x2, NEW x3, NEW x4, NEW x5, NEW x6
    PROVE  Append(<<x1, x2, x3, x4, x5>>, x6) = <<x1, x2, x3, x4, x5, x6>>
<1> DEFINE S == {x1, x2, x3, x4, x5, x6}
           t == <<x1, x2, x3, x4, x5>>
           u == <<x1, x2, x3, x4, x5, x6>>
<1>1. t \in Seq(S) /\ Len(t) = 5 /\ t[1] = x1 /\ t[2] = x2 /\ t[3] = x3 /\ t[4] = x4 /\ t[5] = x5
  OBVIOUS
<1>2. u \in Seq(S) /\ Len(u) = 6 /\ u[1] = x1 /\ u[2] = x2 /\ u[3] = x3 /\ u[4] = x4 /\ u[5] = x5 /\ u[6] = x6
  OBVIOUS
<1>3. x6 \in S
  OBVIOUS
<1> HIDE DEF S, t, u
<1>4. Len(u) = Len(t) + 1 /\ u[Len(t) + 1] = x6 /\ \A k \in 1..Len(t) : u[k] = t[k]
  BY <1>1, <1>2
<1>5. Append(t, x6) = u
  BY <1>1, <1>2, <1>3, <1>4, Appended, Zenon
<1> QED
  BY <1>5 DEF t, u

UrlCode == [c \in Byte |->
    IF c \in Unreserved THEN <<c>>
    ELSE <<Percent, HexDigit(c \div 16, 65), HexDigit(c % 16, 65)>>]

LEMMA UrlByte ==
    ASSUME NEW plus, NEW o \in Text, NEW c \in Byte
    PROVE  UrlCode[c] \in Text /\ RunsTo(UrlSteps(plus), Clean(o), UrlCode[c], Clean(Append(o, c)))
<1> DEFINE step == UrlSteps(plus)
<1>1. /\ Steps(step) /\ \A d \in States, b \in Byte : step[d][b] = UrlTake(d, b, plus)
      /\ Clean(o) \in States /\ o # Undecodable
  BY UrlStepsOf, CleanIs
<1> HIDE DEF step
<1>2. CASE c \in Unreserved
  <2>1. c # Percent /\ c # 43
    BY <1>2 DEF Unreserved, Alnum, Digit, Percent
  <2>2. UrlTake(Clean(o), c, plus) = Clean(Append(o, c))
    BY <1>1, <2>1 DEF UrlTake, Clean
  <2>3. UrlCode[c] = <<c>> /\ <<c>> \in Text
    BY <1>2, StartIs DEF UrlCode
  <2> QED
    BY <1>1, <2>2, <2>3, RunsOneByte DEF step
<1>3. CASE c \notin Unreserved
  <2> DEFINE h == HexDigit(c \div 16, 65)
             l == HexDigit(c % 16, 65)
             d1 == [escape |-> <<Percent>>, out |-> o]
             d2 == [escape |-> <<Percent, h>>, out |-> o]
  <2>1. /\ h \in Byte /\ l \in Byte /\ HexValue(h) = c \div 16 /\ HexValue(l) = c % 16
        /\ 16 * HexValue(h) + HexValue(l) = c /\ ~(HexValue(h) < 0) /\ ~(HexValue(l) < 0)
    BY HexIs, HalvesOf
  <2>2. UrlCode[c] = <<Percent, h, l>>
    BY <1>3 DEF UrlCode
  <2> HIDE DEF h, l
  <2>3. Percent \in Byte /\ <<Percent>> \in Text /\ <<Percent, h>> \in Text /\ <<Percent, h, l>> \in Text
    BY <2>1 DEF Text, Byte, Percent
  <2>4. Append(<<Percent>>, h) = <<Percent, h>> /\ Append(<<Percent, h>>, l) = <<Percent, h, l>>
    BY Append2, Append3
  <2>5. UrlTake(Clean(o), Percent, plus) = d1
    BY <1>1 DEF UrlTake, Clean
  <2>6. UrlTake(d1, h, plus) = d2
    <3>1. <<Percent>> # <<>> /\ Len(<<Percent>>) = 1
      OBVIOUS
    <3> QED
      BY <1>1, <2>4, <3>1 DEF UrlTake
  <2>7. UrlTake(d2, l, plus) = Clean(Append(o, c))
    <3>1. <<Percent, h>> # <<>> /\ Len(<<Percent, h>>) # 1 /\ <<Percent, h>>[2] = h
      OBVIOUS
    <3> QED
      BY <1>1, <2>1, <3>1 DEF UrlTake, Clean
  <2>8. d1 \in States /\ d2 \in States
    BY <1>1, <2>3 DEF States, Clean
  <2> HIDE DEF d1, d2
  <2>9. RunsTo(step, Clean(o), <<Percent>>, d1)
    BY <1>1, <2>3, <2>5, RunsOneByte
  <2>10. RunsTo(step, Clean(o), <<Percent, h>>, d2)
    <3>1. d2 = step[d1][h] /\ Clean(o) \in States
      BY <1>1, <2>1, <2>6, <2>8
    <3> QED
      BY <1>1, <2>1, <2>3, <2>4, <2>9, <3>1, RunsNext
  <2>11. RunsTo(step, Clean(o), <<Percent, h, l>>, Clean(Append(o, c)))
    <3>1. Clean(Append(o, c)) = step[d2][l]
      BY <1>1, <2>1, <2>7, <2>8
    <3> QED
      BY <1>1, <2>1, <2>3, <2>4, <2>10, <3>1, RunsNext
  <2> QED
    BY <2>2, <2>3, <2>11 DEF step
<1> QED
  BY <1>2, <1>3

JsonCode == [c \in Byte |->
    CASE c \in {Quote, Backslash} -> <<Backslash, c>>
      [] c \in DOMAIN ShortEscape -> <<Backslash, ShortEscape[c]>>
      [] c < 32 /\ c \notin DOMAIN ShortEscape ->
            <<Backslash, 117, 48, 48, HexDigit(c \div 16, 97), HexDigit(c % 16, 97)>>
      [] OTHER -> <<c>>]

\* The decoder with escape e after the text o.
Within(e, o) == [escape |-> e, out |-> o]

LEMMA JsonNext ==
    ASSUME NEW o \in Text, NEW e \in Text, NEW t \in Text, NEW c \in Byte, NEW u, u = Append(t, c),
           RunsTo(JsonSteps, Clean(o), t, Within(e, o)), NEW d, d = JsonTake(Within(e, o), c)
    PROVE  RunsTo(JsonSteps, Clean(o), u, d)
<1>1. Within(e, o) \in States
  BY CleanIs DEF Within, States, Clean
<1>2. Steps(JsonSteps) /\ d = JsonSteps[Within(e, o)][c]
  BY <1>1, JsonStepsOf
<1> QED
  BY <1>2, RunsNext

LEMMA JsonFirst ==
    ASSUME NEW o \in Text, NEW c \in Byte
    PROVE  RunsTo(JsonSteps, Clean(o), <<c>>, JsonTake(Clean(o), c))
BY CleanIs, JsonStepsOf, RunsOneByte

\* A backslash and one more byte.
LEMMA JsonEscape ==
    ASSUME NEW o \in Text, NEW c \in Byte
    PROVE  /\ <<Backslash>> \in Text /\ <<Backslash, c>> \in Text
           /\ RunsTo(JsonSteps, Clean(o), <<Backslash, c>>, JsonTake(Within(<<Backslash>>, o), c))
           /\ c \in {Quote, Backslash} => JsonTake(Within(<<Backslash>>, o), c) = Clean(Append(o, c))
<1>1. Backslash \in Byte /\ <<Backslash>> \in Text /\ <<Backslash, c>> \in Text
  BY DEF Text, Byte, Backslash
<1>2. o # Undecodable
  BY CleanIs
<1>3. JsonTake(Clean(o), Backslash) = Within(<<Backslash>>, o)
  BY <1>2 DEF JsonTake, Clean, Within
<1>4. RunsTo(JsonSteps, Clean(o), <<Backslash>>, Within(<<Backslash>>, o))
  BY <1>1, <1>3, JsonFirst
<1>5. Append(<<Backslash>>, c) = <<Backslash, c>>
  BY Append2
<1>6. RunsTo(JsonSteps, Clean(o), <<Backslash, c>>, JsonTake(Within(<<Backslash>>, o), c))
  BY <1>1, <1>4, <1>5, JsonNext
<1>7. ASSUME c \in {Quote, Backslash} PROVE JsonTake(Within(<<Backslash>>, o), c) = Clean(Append(o, c))
  <2>1. <<Backslash>> # <<>> /\ c # 117
    BY <1>7 DEF Quote, Backslash
  <2> QED
    BY <1>2, <1>7, <2>1 DEF JsonTake, Clean, Within
<1> QED
  BY <1>1, <1>6, <1>7

LEMMA JsonShort ==
    ASSUME NEW o \in Text, NEW c \in DOMAIN ShortEscape
    PROVE  /\ ShortEscape[c] \in Byte
           /\ JsonTake(Within(<<Backslash>>, o), ShortEscape[c]) = Clean(Append(o, c))
<1> DEFINE b == ShortEscape[c]
<1>1. b \in Byte /\ b # 117 /\ b \notin {Quote, Backslash}
  BY DEF ShortEscape, Byte, Quote, Backslash
<1>2. \A e \in DOMAIN ShortEscape : ShortEscape[e] = b => e = c
  BY DEF ShortEscape
<1>3. (\E e \in DOMAIN ShortEscape : ShortEscape[e] = b) /\ (CHOOSE e \in DOMAIN ShortEscape : ShortEscape[e] = b) = c
  BY <1>2
<1>4. o # Undecodable /\ <<Backslash>> # <<>>
  BY CleanIs
<1> HIDE DEF b
<1>5. JsonTake(Within(<<Backslash>>, o), b) = Clean(Append(o, c))
  BY <1>1, <1>3, <1>4 DEF JsonTake, Clean, Within
<1> QED
  BY <1>1, <1>5 DEF b

LEMMA JsonByte ==
    ASSUME NEW o \in Text, NEW c \in Byte
    PROVE  JsonCode[c] \in Text /\ RunsTo(JsonSteps, Clean(o), JsonCode[c], Clean(Append(o, c)))
<1>1. CASE c \in {Quote, Backslash}
  <2>1. c \notin DOMAIN ShortEscape /\ ~(c < 32)
    BY <1>1 DEF Quote, Backslash, ShortEscape
  <2>2. JsonCode[c] = <<Backslash, c>>
    BY <1>1, <2>1 DEF JsonCode
  <2> QED
    BY <1>1, <2>2, JsonEscape
<1>2. CASE c \in DOMAIN ShortEscape
  <2>1. c \notin {Quote, Backslash}
    BY <1>2 DEF Quote, Backslash, ShortEscape
  <2>2. JsonCode[c] = <<Backslash, ShortEscape[c]>>
    BY <1>2, <2>1 DEF JsonCode
  <2> QED
    BY <1>2, <2>2, JsonEscape, JsonShort
<1>3. CASE c < 32 /\ c \notin DOMAIN ShortEscape
  <2> DEFINE h == HexDigit(c \div 16, 97)
             l == HexDigit(c % 16, 97)
  <2>1. c \notin {Quote, Backslash}
    BY <1>3 DEF Quote, Backslash
  <2>2. JsonCode[c] = <<Backslash, 117, 48, 48, h, l>>
    BY <1>3, <2>1 DEF JsonCode
  <2>3. h \in Byte /\ l \in Byte /\ 16 * HexValue(h) + HexValue(l) = c
    BY HexIs, HalvesOf
  <2> HIDE DEF h, l
  <2> DEFINE esc1 == <<117>>
             esc2 == <<117, 48>>
             esc3 == <<117, 48, 48>>
             esc4 == <<117, 48, 48, h>>
             seq2 == <<Backslash, 117>>
             seq3 == <<Backslash, 117, 48>>
             seq4 == <<Backslash, 117, 48, 48>>
             seq5 == <<Backslash, 117, 48, 48, h>>
             seq6 == <<Backslash, 117, 48, 48, h, l>>
  <2>4. /\ Backslash \in Byte /\ 117 \in Byte /\ 48 \in Byte
        /\ seq2 \in Text /\ seq3 \in Text /\ seq4 \in Text /\ seq5 \in Text /\ seq6 \in Text
    BY <2>3 DEF Text, Byte, Backslash
  <2>5. esc1 \in Text /\ esc2 \in Text /\ esc3 \in Text /\ esc4 \in Text
    BY <2>3 DEF Text, Byte
  <2>6. /\ Append(esc1, 48) = esc2 /\ Append(esc2, 48) = esc3 /\ Append(esc3, h) = esc4
        /\ seq3 = Append(seq2, 48) /\ seq4 = Append(seq3, 48) /\ seq5 = Append(seq4, h) /\ seq6 = Append(seq5, l)
    <3>1. Append(esc1, 48) = esc2
      BY Append2, Zenon
    <3>2. Append(esc2, 48) = esc3
      BY Append3, Zenon
    <3>3. Append(esc3, h) = esc4
      BY Append4, Zenon
    <3>4. Append(seq2, 48) = seq3
      BY Append3, Zenon
    <3>5. Append(seq3, 48) = seq4
      BY Append4, Zenon
    <3>6. Append(seq4, h) = seq5
      BY Append5
    <3>7. Append(seq5, l) = seq6
      BY Append6
    <3> QED
      BY <3>1, <3>2, <3>3, <3>4, <3>5, <3>6, <3>7
  <2>7. /\ Len(esc1) = 1 /\ Len(esc2) = 2 /\ Len(esc3) = 3 /\ Len(esc4) = 4
        /\ esc1[1] = 117 /\ esc4[4] = h
    OBVIOUS
  <2>8. o # Undecodable
    BY CleanIs
  <2>9. seq2 = <<Backslash, 117>> /\ esc1 = <<117>> /\ JsonCode[c] = seq6
    BY <2>2
  <2> HIDE DEF esc1, esc2, esc3, esc4, seq2, seq3, seq4, seq5, seq6
  <2>10. \A e \in {esc1, esc2, esc3, esc4} : e # <<>> /\ e # <<Backslash>>
    <3>1. Len(<<>>) = 0 /\ Len(<<Backslash>>) = 1 /\ <<Backslash>>[1] = Backslash /\ Backslash # 117
      BY DEF Backslash
    <3> DEFINE empty == <<>>
               escape == <<Backslash>>
    <3> HIDE DEF empty, escape
    <3>2. /\ Len(esc1) # Len(empty) /\ Len(esc2) # Len(empty)
          /\ Len(esc3) # Len(empty) /\ Len(esc4) # Len(empty)
      BY <2>7, <3>1 DEF empty
    <3>3. Len(esc2) # Len(escape) /\ Len(esc3) # Len(escape) /\ Len(esc4) # Len(escape)
      BY <2>7, <3>1 DEF escape
    <3>4. esc1 # empty /\ esc2 # empty /\ esc3 # empty /\ esc4 # empty
      BY <3>2, Zenon
    <3>5. esc2 # escape /\ esc3 # escape /\ esc4 # escape
      BY <3>3, Zenon
    <3>6. esc1 # <<Backslash>>
      BY <2>7, <3>1
    <3> QED
      BY <3>4, <3>5, <3>6 DEF empty, escape
  <2>11. ASSUME NEW e \in {esc1, esc2, esc3}, NEW b PROVE JsonTake(Within(e, o), b) = Within(Append(e, b), o)
    <3>0. Len(esc1) < 4 /\ Len(esc2) < 4 /\ Len(esc3) < 4
      BY <2>7
    <3>1. e # <<>> /\ e # <<Backslash>> /\ Len(e) < 4
      BY <2>10, <3>0
    <3> QED
      BY <2>8, <3>1 DEF JsonTake, Within
  <2>12. JsonTake(Within(esc4, o), l) = Clean(Append(o, c))
    <3>1. esc4 # <<>> /\ esc4 # <<Backslash>> /\ ~(Len(esc4) < 4)
      BY <2>7, <2>10
    <3>2. JsonTake(Within(esc4, o), l) = Clean(Append(o, 16 * HexValue(esc4[4]) + HexValue(l)))
      BY <2>8, <3>1 DEF JsonTake, Within, Clean
    <3> QED
      BY <2>3, <2>7, <3>2
  <2>13. RunsTo(JsonSteps, Clean(o), seq2, Within(esc1, o))
    <3>1. <<Backslash>> # <<>>
      OBVIOUS
    <3>2. JsonTake(Within(<<Backslash>>, o), 117) = Within(<<117>>, o)
      BY <2>8, <3>1 DEF JsonTake, Within
    <3> QED
      BY <2>4, <2>9, <3>2, JsonEscape
  <2>14. ASSUME NEW e \in Text, NEW t \in Text, NEW b \in Byte, RunsTo(JsonSteps, Clean(o), t, Within(e, o))
         PROVE  RunsTo(JsonSteps, Clean(o), Append(t, b), JsonTake(Within(e, o), b))
    <3> DEFINE u == Append(t, b)
               d == JsonTake(Within(e, o), b)
    <3>1. RunsTo(JsonSteps, Clean(o), u, d)
      BY <2>14, JsonNext
    <3> QED
      BY <3>1
  <2>15. RunsTo(JsonSteps, Clean(o), seq3, Within(esc2, o))
    <3>1. JsonTake(Within(esc1, o), 48) = Within(esc2, o)
      BY <2>6, <2>11
    <3> QED
      BY <2>4, <2>5, <2>6, <2>13, <2>14, <3>1
  <2>16. RunsTo(JsonSteps, Clean(o), seq4, Within(esc3, o))
    <3>1. JsonTake(Within(esc2, o), 48) = Within(esc3, o)
      BY <2>6, <2>11
    <3> QED
      BY <2>4, <2>5, <2>6, <2>15, <2>14, <3>1
  <2>17. RunsTo(JsonSteps, Clean(o), seq5, Within(esc4, o))
    <3>1. JsonTake(Within(esc3, o), h) = Within(esc4, o)
      BY <2>6, <2>11
    <3> QED
      BY <2>3, <2>4, <2>5, <2>6, <2>16, <2>14, <3>1
  <2>18. RunsTo(JsonSteps, Clean(o), seq6, Clean(Append(o, c)))
    BY <2>3, <2>4, <2>5, <2>6, <2>12, <2>17, <2>14
  <2> QED
    BY <2>4, <2>9, <2>18
<1>4. CASE c \notin {Quote, Backslash} /\ c \notin DOMAIN ShortEscape /\ ~(c < 32)
  <2>1. JsonCode[c] = <<c>> /\ <<c>> \in Text
    BY <1>4, StartIs DEF JsonCode
  <2>2. JsonTake(Clean(o), c) = Clean(Append(o, c))
    BY <1>4, CleanIs DEF JsonTake, Clean
  <2> QED
    BY <2>1, <2>2, JsonFirst
<1> QED
  BY <1>1, <1>2, <1>3, <1>4

FilterCode == [c \in Byte |-> IF c \in {Quote, Backslash} THEN <<Backslash, c>> ELSE <<c>>]

LEMMA FilterByte ==
    ASSUME NEW o \in Text, NEW c \in Byte
    PROVE  /\ FilterCode[c] \in Text
           /\ RunsTo(JsonSteps, Clean(o), FilterCode[c],
                   Clean(IF c \in Control THEN Undecodable ELSE Append(o, c)))
<1>1. CASE c \in {Quote, Backslash}
  <2>1. c \notin Control /\ FilterCode[c] = <<Backslash, c>>
    BY <1>1 DEF Quote, Backslash, Control, FilterCode
  <2> QED
    BY <1>1, <2>1, JsonEscape
<1>2. CASE c \notin {Quote, Backslash}
  <2>1. FilterCode[c] = <<c>> /\ <<c>> \in Text
    BY <1>2, StartIs DEF FilterCode
  <2>2. c < 32 <=> c \in Control
    BY DEF Control, Byte
  <2>3. JsonTake(Clean(o), c) = Clean(IF c \in Control THEN Undecodable ELSE Append(o, c))
    BY <1>2, <2>2, CleanIs DEF JsonTake, Clean
  <2> QED
    BY <2>1, <2>3, JsonFirst
<1> QED
  BY <1>1, <1>2

\* What is not decodable stays so.
LEMMA FilterLost ==
    ASSUME NEW c \in Byte
    PROVE  RunsTo(JsonSteps, Clean(Undecodable), FilterCode[c], Clean(Undecodable))
<1> DEFINE d == Clean(Undecodable)
<1>1. d \in States /\ Backslash \in Byte /\ <<Backslash>> \in Text
  BY CleanIs, StartIs DEF Backslash, Byte
<1>2. \A b \in Byte : JsonSteps[d][b] = d
  BY <1>1, JsonStepsOf DEF JsonTake, Clean
<1> HIDE DEF d
<1>3. RunsTo(JsonSteps, d, <<c>>, d) /\ RunsTo(JsonSteps, d, <<Backslash>>, d)
  <2>1. JsonSteps[d][c] = d /\ JsonSteps[d][Backslash] = d
    BY <1>1, <1>2
  <2> QED
    BY <1>1, <2>1, JsonStepsOf, RunsOneByte
<1>4. RunsTo(JsonSteps, d, <<Backslash, c>>, d)
  <2>1. d = JsonSteps[d][c] /\ <<Backslash, c>> = Append(<<Backslash>>, c)
    BY <1>2, Append2
  <2> QED
    BY <1>1, <1>3, <2>1, JsonStepsOf, RunsNext
<1>5. FilterCode[c] = <<c>> \/ FilterCode[c] = <<Backslash, c>>
  BY DEF FilterCode
<1> QED
  BY <1>3, <1>4, <1>5 DEF d
-----------------------------------------------------------------------------
\* The round trips.

\* The first k bytes of t.
Upto(t, k) == SubSeq(t, 1, k)

LEMMA Beginnings ==
    ASSUME NEW t \in Text
    PROVE  /\ Len(t) \in Nat /\ Upto(t, 0) = <<>> /\ Upto(t, Len(t)) = t
           /\ \A k \in 0..Len(t) : Upto(t, k) \in Text
           /\ \A k \in 1..Len(t) : /\ k - 1 \in 0..Len(t) /\ t[k] \in Byte
                                   /\ Upto(t, k) = Append(Upto(t, k - 1), t[k])
<1>1. t \in Seq(Byte) /\ Len(t) \in Nat
  BY DEF Text
<1>2. SubSeq(t, 1, 0) = <<>> /\ SubSeq(t, 1, Len(t)) = t
  BY <1>1
<1>3. ASSUME NEW k \in 0..Len(t) PROVE /\ SubSeq(t, 1, k) \in Seq(Byte) /\ Len(SubSeq(t, 1, k)) = k
                                       /\ \A i \in 1..k : SubSeq(t, 1, k)[i] = t[i]
  BY <1>1
<1>4. ASSUME NEW k \in 1..Len(t)
      PROVE  k - 1 \in 0..Len(t) /\ t[k] \in Byte /\ SubSeq(t, 1, k) = Append(SubSeq(t, 1, k - 1), t[k])
  <2> DEFINE s == SubSeq(t, 1, k - 1)
             u == SubSeq(t, 1, k)
  <2>1. k - 1 \in 0..Len(t) /\ k \in 0..Len(t) /\ t[k] \in Byte /\ (k - 1) + 1 = k /\ k \in 1..k
    BY <1>1
  <2>2. /\ s \in Seq(Byte) /\ Len(s) = k - 1 /\ \A i \in 1..(k - 1) : s[i] = t[i]
        /\ u \in Seq(Byte) /\ Len(u) = k /\ \A i \in 1..k : u[i] = t[i]
    BY <1>3, <2>1
  <2> HIDE DEF s, u
  <2>3. Append(s, t[k]) = u
    BY <2>1, <2>2, Appended
  <2> QED
    BY <2>1, <2>3 DEF s, u
<1>5. \A k \in 0..Len(t) : SubSeq(t, 1, k) \in Text
  BY <1>3 DEF Text
<1>6. \A k \in 1..Len(t) : /\ k - 1 \in 0..Len(t) /\ t[k] \in Byte
                           /\ SubSeq(t, 1, k) = Append(SubSeq(t, 1, k - 1), t[k])
  BY <1>4
<1> QED
  BY <1>1, <1>2, <1>5, <1>6 DEF Upto

\* url_decode_component undoes url_encode_component, whatever it makes of a plus.
LEMMA UrlRoundTrip ==
    ASSUME NEW plus, NEW t \in Text
    PROVE  UrlEncode(t) \in Text /\ UrlDecode(UrlEncode(t), plus) = t
<1> DEFINE state == [k \in 0..Len(t) |-> Clean(Upto(t, k))]
<1>1. UrlEncode(t) = Each(t, UrlCode)
  BY DEF UrlEncode, UrlCode
<1>2. Encodes(UrlCode)
  BY UrlByte, StartIs DEF Encodes, States
<1>3. Each(t, UrlCode) \in Text
  BY <1>2, EachIsText
<1>4. state \in [0..Len(t) -> States] /\ state[0] = Start /\ state[Len(t)] = Clean(t)
  BY Beginnings, CleanIs
<1>5. ASSUME NEW k \in 1..Len(t) PROVE RunsTo(UrlSteps(plus), state[k - 1], UrlCode[t[k]], state[k])
  <2>1. Len(t) \in Nat /\ k - 1 \in 0..Len(t) /\ Upto(t, k - 1) \in Text /\ t[k] \in Byte
    BY Beginnings
  <2>2. Upto(t, k) = Append(Upto(t, k - 1), t[k])
    BY Beginnings
  <2>3. state[k - 1] = Clean(Upto(t, k - 1)) /\ state[k] = Clean(Append(Upto(t, k - 1), t[k]))
    BY <2>1, <2>2
  <2> QED
    BY <2>1, <2>3, UrlByte
<1> HIDE DEF state
<1>6. RunsTo(UrlSteps(plus), Start, Each(t, UrlCode), Clean(t))
  <2>1. RunsTo(UrlSteps(plus), state[0], Each(t, UrlCode), state[Len(t)])
    BY <1>2, <1>4, <1>5, UrlStepsOf, EachRuns
  <2> QED
    BY <1>4, <2>1
<1>7. PICK d \in States : /\ RunsTo(UrlSteps(plus), Start, Each(t, UrlCode), d)
                          /\ UrlDecode(Each(t, UrlCode), plus) = IF d.escape # <<>> THEN Undecodable ELSE d.out
  BY <1>3, UrlDecodeRuns
<1>8. d = Clean(t)
  BY <1>3, <1>6, <1>7, RunsOnce
<1> QED
  BY <1>1, <1>3, <1>7, <1>8 DEF Clean

\* The escapes of append_json_string are undone by a JSON parser.
LEMMA JsonEscapesUndone ==
    ASSUME NEW t \in Text
    PROVE  JsonUnescape(JsonString(t)) = t
<1> DEFINE state == [k \in 0..Len(t) |-> Clean(Upto(t, k))]
<1>1. JsonString(t) = Quoted(Each(t, JsonCode))
  BY DEF JsonString, JsonCode
<1>2. Encodes(JsonCode)
  BY JsonByte, StartIs DEF Encodes, States
<1>3. Each(t, JsonCode) \in Text
  BY <1>2, EachIsText
<1>4. state \in [0..Len(t) -> States] /\ state[0] = Start /\ state[Len(t)] = Clean(t)
  BY Beginnings, CleanIs
<1>5. ASSUME NEW k \in 1..Len(t) PROVE RunsTo(JsonSteps, state[k - 1], JsonCode[t[k]], state[k])
  <2>1. Len(t) \in Nat /\ k - 1 \in 0..Len(t) /\ Upto(t, k - 1) \in Text /\ t[k] \in Byte
    BY Beginnings
  <2>2. Upto(t, k) = Append(Upto(t, k - 1), t[k])
    BY Beginnings
  <2>3. state[k - 1] = Clean(Upto(t, k - 1)) /\ state[k] = Clean(Append(Upto(t, k - 1), t[k]))
    BY <2>1, <2>2
  <2> QED
    BY <2>1, <2>3, JsonByte
<1> HIDE DEF state
<1>6. RunsTo(JsonSteps, Start, Each(t, JsonCode), Clean(t))
  <2>1. RunsTo(JsonSteps, state[0], Each(t, JsonCode), state[Len(t)])
    BY <1>2, <1>4, <1>5, JsonStepsOf, EachRuns
  <2> QED
    BY <1>4, <2>1
<1>7. PICK d \in States : RunsTo(JsonSteps, Start, Each(t, JsonCode), d) /\ JsonUnescape(Quoted(Each(t, JsonCode))) = d.out
  BY <1>3, JsonUnescapeRuns
<1>8. d = Clean(t)
  BY <1>3, <1>6, <1>7, RunsOnce
<1> QED
  BY <1>1, <1>7, <1>8 DEF Clean

\* Those of a label filter too, or, for a control character in it, it is not decoded at all.
LEMMA FilterEscapesUndone ==
    ASSUME NEW t \in Text
    PROVE  FilterString(t) \in Text /\ JsonUnescape(FilterString(t)) \in {t, Undecodable}
<1> DEFINE Lost(k) == \E j \in 1..k : t[j] \in Control
           state == [k \in 0..Len(t) |-> Clean(IF Lost(k) THEN Undecodable ELSE Upto(t, k))]
<1>1. FilterString(t) = Quoted(Each(t, FilterCode))
  BY DEF FilterString, FilterCode
<1>2. Encodes(FilterCode)
  BY FilterByte, StartIs DEF Encodes, States
<1>3. Each(t, FilterCode) \in Text
  BY <1>2, EachIsText
<1>4. /\ state \in [0..Len(t) -> States] /\ state[0] = Start
      /\ state[Len(t)] = Clean(IF Lost(Len(t)) THEN Undecodable ELSE t)
  <2>1. ~Lost(0)
    OBVIOUS
  <2> HIDE DEF Lost
  <2> QED
    BY <2>1, Beginnings, CleanIs
<1>5. ASSUME NEW k \in 1..Len(t) PROVE RunsTo(JsonSteps, state[k - 1], FilterCode[t[k]], state[k])
  <2> DEFINE s == Upto(t, k - 1)
  <2>1. s \in Text /\ t[k] \in Byte /\ Upto(t, k) = Append(s, t[k]) /\ k \in 0..Len(t) /\ k - 1 \in 0..Len(t)
    BY Beginnings
  <2>2. Lost(k) <=> Lost(k - 1) \/ t[k] \in Control
    OBVIOUS
  <2>3. /\ state[k - 1] = Clean(IF Lost(k - 1) THEN Undecodable ELSE s)
        /\ state[k] = Clean(IF Lost(k) THEN Undecodable ELSE Append(s, t[k]))
    BY <2>1
  <2> HIDE DEF Lost, s, state
  <2>4. CASE Lost(k - 1)
    <3>1. state[k - 1] = Clean(Undecodable) /\ state[k] = Clean(Undecodable)
      BY <2>2, <2>3, <2>4
    <3> QED
      BY <2>1, <3>1, FilterLost
  <2>5. CASE ~Lost(k - 1)
    <3>1. /\ state[k - 1] = Clean(s)
          /\ state[k] = Clean(IF t[k] \in Control THEN Undecodable ELSE Append(s, t[k]))
      BY <2>2, <2>3, <2>5
    <3> QED
      BY <2>1, <3>1, FilterByte
  <2> QED
    BY <2>4, <2>5
<1> DEFINE end == IF Lost(Len(t)) THEN Undecodable ELSE t
<1> HIDE DEF state
<1>6. RunsTo(JsonSteps, Start, Each(t, FilterCode), Clean(end))
  <2>1. RunsTo(JsonSteps, state[0], Each(t, FilterCode), state[Len(t)])
    BY <1>2, <1>4, <1>5, JsonStepsOf, EachRuns
  <2> QED
    BY <1>4, <2>1
<1>7. PICK d \in States : RunsTo(JsonSteps, Start, Each(t, FilterCode), d) /\ JsonUnescape(Quoted(Each(t, FilterCode))) = d.out
  BY <1>3, JsonUnescapeRuns
<1>8. d = Clean(end)
  BY <1>3, <1>6, <1>7, RunsOnce
<1>9. end \in {t, Undecodable}
  OBVIOUS
<1> HIDE DEF end
<1> QED
  BY <1>1, <1>3, <1>7, <1>8, <1>9, QuotedIs DEF Clean
\* UTF-8 passes Podman's decoder unchanged.
LEMMA Utf8Keeps ==
    ASSUME NEW t \in Text, ValidUtf8(t)
    PROVE  Utf8(t) = t
<1> DEFINE f == [c \in Byte |-> <<c>>]
<1>1. Encodes(f)
  BY StartIs DEF Encodes
<1>2. Utf8(t) = Each(t, f)
  <2>1. [k \in DOMAIN t |-> IF InCharacter(t, k) THEN <<t[k]>> ELSE Replacement] = [k \in DOMAIN t |-> f[t[k]]]
    BY DEF ValidUtf8, Text
  <2> HIDE DEF f
  <2> QED
    BY <2>1 DEF Utf8, Each
<1>3. PICK g : Flattens(t, f, g) /\ Each(t, f) = g[Len(t)]
  BY <1>1, EachIs
<1> DEFINE S == {n \in Nat : n <= Len(t) => g[n] = Upto(t, n)}
<1>4. 0 \in S
  BY <1>3, Beginnings DEF Flattens, FlattensTo
<1>5. ASSUME NEW n \in Nat, n \in S PROVE n + 1 \in S
  <2> SUFFICES ASSUME n + 1 <= Len(t) PROVE g[n + 1] = Upto(t, n + 1)
    OBVIOUS
  <2>1. n + 1 \in 1..Len(t) /\ (n + 1) - 1 = n /\ n \in 0..Len(t) /\ g[n] = Upto(t, n)
    BY <1>5, Beginnings
  <2>2. g[n + 1] = g[n] \o f[t[n + 1]] /\ t[n + 1] \in Byte
    BY <1>3, <2>1, Beginnings DEF Flattens, FlattensTo
  <2>3. Upto(t, n + 1) = Append(Upto(t, n), t[n + 1]) /\ Upto(t, n) \in Text
    BY <2>1, Beginnings
  <2>4. \A u \in Text, c \in Byte : u \o <<c>> = Append(u, c)
    BY DEF Text
  <2>5. f[t[n + 1]] = <<t[n + 1]>>
    BY <2>2
  <2> QED
    BY <2>1, <2>2, <2>3, <2>4, <2>5
<1> HIDE DEF S
<1>6. \A n \in Nat : n \in S
  BY <1>4, <1>5, Induction
<1>7. g[Len(t)] = t
  BY <1>6, Beginnings DEF S
<1> QED
  BY <1>2, <1>3, <1>7

\* Letters, digits and the like are UTF-8.
LEMMA AsciiIsUtf8 ==
    ASSUME NEW t \in Text, \A k \in DOMAIN t : t[k] < 128
    PROVE  ValidUtf8(t)
<1> SUFFICES ASSUME NEW k \in DOMAIN t PROVE InCharacter(t, k)
  BY DEF ValidUtf8
<1>1. k \in 1..Len(t) /\ Len(t) \in Nat /\ t[k] \in 0..127
  <2>1. t \in Seq(Byte) /\ k \in 1..Len(t) /\ Len(t) \in Nat
    BY DEF Text
  <2>2. t[k] \in Byte /\ t[k] < 128
    BY <2>1
  <2>3. \A b \in Byte : b < 128 => b \in 0..127
    BY DEF Byte
  <2>4. t[k] \in 0..127
    BY <2>2, <2>3
  <2> QED
    BY <2>1, <2>4
<1> DEFINE one == SubSeq(t, k, k)
<1>2. Len(one) = 1 /\ one[1] = t[k]
  BY <1>1 DEF Text
<1> HIDE DEF one
<1>3. CharacterLength(one[1]) = 1
  <2>1. \A b \in 0..127 : CharacterLength(b) = 1
    BY DEF CharacterLength
  <2> QED
    BY <1>1, <1>2, <2>1
<1>4. IsCharacter(one)
  BY <1>2, <1>3 DEF IsCharacter
<1>5. k \in 1..k /\ k \in k..Len(t)
  BY <1>1
<1> QED
  BY <1>4, <1>5 DEF InCharacter, one

LEMMA NameIsUtf8 ==
    ASSUME NEW t \in Text, ValidName(t)
    PROVE  ValidUtf8(t)
<1>1. Len(t) \in Nat /\ t # <<>> /\ DOMAIN t = 1..Len(t) /\ \A k \in DOMAIN t : t[k] \in Byte
  BY DEF ValidName, Text
<1>2. \A c \in Byte : c \in Alnum \cup {95, 46, 45} => c < 128
  BY DEF Alnum, Digit, Byte
<1>3. t[1] \in Alnum
  BY DEF ValidName
<1>4. ASSUME NEW k \in DOMAIN t, k # 1
      PROVE  t[k] \in Alnum \cup {95, 46, 45}
  <2> DEFINE rest == Tail(t)
  <2>1. k - 1 \in DOMAIN rest /\ rest[k - 1] = t[k]
    BY <1>1, <1>4 DEF Text
  <2>2. \A j \in DOMAIN rest : rest[j] \notin Byte \ (Alnum \cup {95, 46, 45})
    BY DEF ValidName, Has
  <2> HIDE DEF rest
  <2> QED
    BY <1>1, <2>1, <2>2
<1>5. \A k \in DOMAIN t : t[k] < 128
  BY <1>1, <1>2, <1>3, <1>4
<1> QED
  BY <1>5, AsciiIsUtf8

\* A JSON parser reads a string of append_json_string as it was, if that was UTF-8.
LEMMA JsonRoundTrip ==
    ASSUME NEW t \in Text
    PROVE  Kept(t, JsonDecode(JsonString(t)))
<1>1. JsonUnescape(JsonString(t)) = t /\ t # Undecodable
  BY JsonEscapesUndone, CleanIs
<1>2. JsonDecode(JsonString(t)) = Utf8(t)
  BY <1>1 DEF JsonDecode
<1> QED
  BY <1>2, Utf8Keeps DEF Kept

\* A label filter too, or Podman refuses it.
LEMMA FilterRoundTrip ==
    ASSUME NEW t \in Text
    PROVE  /\ FilterString(t) \in Text
           /\ JsonDecode(FilterString(t)) = Undecodable \/ Kept(t, JsonDecode(FilterString(t)))
<1>1. FilterString(t) \in Text /\ JsonUnescape(FilterString(t)) \in {t, Undecodable}
  BY FilterEscapesUndone
<1>2. CASE JsonUnescape(FilterString(t)) = Undecodable
  BY <1>1, <1>2 DEF JsonDecode
<1>3. CASE JsonUnescape(FilterString(t)) = t /\ t # Undecodable
  <2>1. JsonDecode(FilterString(t)) = Utf8(t)
    BY <1>3 DEF JsonDecode
  <2> QED
    BY <1>1, <2>1, Utf8Keeps DEF Kept
<1> QED
  BY <1>1, <1>2, <1>3
-----------------------------------------------------------------------------
\* The body of a creation.

LEMMA PresentIs ==
    ASSUME NEW json, NEW f \in DOMAIN json
    PROVE  /\ f \notin Optional => f \in DOMAIN Present(json) /\ Present(json)[f] = json[f]
           /\ f \in Optional => Field(Present(json), f) = IF DOMAIN json[f] = {} THEN <<>> ELSE json[f]
BY DEF Present, Restrict, Field, Empty

LEMMA EmptyIs ==
    /\ DOMAIN <<>> = {}
    /\ \A S : \A t \in Seq(S) : DOMAIN t = {} => t = <<>>
OBVIOUS

LEMMA TextsAre ==
    ASSUME NEW texts \in Seq(Text)
    PROVE  /\ KeptAll(texts, Texts(JsonArray(texts)))
           /\ DOMAIN JsonArray(texts) = {} => KeptAll(texts, Texts(<<>>))
<1>1. ASSUME NEW k \in DOMAIN texts PROVE Kept(texts[k], JsonDecode(JsonString(texts[k])))
  BY JsonRoundTrip
<1>2. KeptAll(texts, Texts(JsonArray(texts)))
  BY <1>1 DEF KeptAll, Texts, JsonArray
<1>3. DOMAIN Texts(<<>>) = {}
  BY EmptyIs DEF Texts
<1>4. DOMAIN JsonArray(texts) = DOMAIN texts
  BY DEF JsonArray
<1>5. DOMAIN JsonArray(texts) = {} => KeptAll(texts, Texts(<<>>))
  BY <1>3, <1>4 DEF KeptAll
<1> QED
  BY <1>2, <1>5

LEMMA MapIs ==
    ASSUME NEW map, IsMap(map)
    PROVE  /\ KeptMap(map, Map(JsonMap(map)))
           /\ DOMAIN JsonMap(map) = {} => KeptMap(map, Map(<<>>))
<1> DEFINE json == JsonMap(map)
<1> SUFFICES ASSUME \A k \in DOMAIN map : ValidUtf8(k) /\ ValidUtf8(map[k])
             PROVE  Map(json) = map /\ (DOMAIN json = {} => Map(<<>>) = map)
  BY DEF KeptMap
<1>1. DOMAIN map \in SUBSET Text /\ map = [k \in DOMAIN map |-> map[k]] /\ \A k \in DOMAIN map : map[k] \in Text
  BY DEF IsMap, Text
<1>2. \A k \in DOMAIN map : JsonDecode(JsonString(k)) = k /\ JsonDecode(JsonString(map[k])) = map[k]
  BY <1>1, JsonRoundTrip DEF Kept
<1>3. \A k, l \in DOMAIN map : JsonString(k) = JsonString(l) => k = l
  BY <1>2
<1>4. DOMAIN json = {JsonString(k) : k \in DOMAIN map}
  BY DEF JsonMap
<1>5. ASSUME NEW k \in DOMAIN map
      PROVE  JsonString(k) \in DOMAIN json /\ json[JsonString(k)] = JsonString(map[k])
  <2>1. (CHOOSE l \in DOMAIN map : JsonString(l) = JsonString(k)) = k
    BY <1>3
  <2> QED
    BY <1>4, <2>1 DEF JsonMap
<1>6. {JsonDecode(j) : j \in DOMAIN json} = DOMAIN map
  BY <1>2, <1>4
<1>7. ASSUME NEW k \in DOMAIN map
      PROVE  JsonDecode(json[CHOOSE j \in DOMAIN json : JsonDecode(j) = k]) = map[k]
  <2>1. JsonString(k) \in DOMAIN json /\ JsonDecode(JsonString(k)) = k
    BY <1>2, <1>5
  <2>2. \A j \in DOMAIN json : JsonDecode(j) = k => j = JsonString(k)
    BY <1>2, <1>4
  <2>3. (CHOOSE j \in DOMAIN json : JsonDecode(j) = k) = JsonString(k)
    BY <2>1, <2>2
  <2> QED
    BY <1>2, <1>5, <2>3
<1> HIDE DEF json
<1>8. Map(json) = map
  BY <1>1, <1>6, <1>7 DEF Map
<1>9. ASSUME DOMAIN json = {} PROVE Map(<<>>) = map
  <2>1. DOMAIN map = {}
    BY <1>4, <1>9
  <2>2. Map(<<>>) = [k \in {} |-> map[k]]
    BY EmptyIs DEF Map
  <2> QED
    BY <1>1, <2>1, <2>2
<1> QED
  BY <1>8, <1>9

\* What SpecOf makes of the limits.
LimitsOf(json) ==
    [f \in DOMAIN json \cap {"cpu.period", "cpu.quota", "cpu.shares", "cpu.cpus",
                             "memory.limit", "memory.swap", "pids.limit"} |->
        IF f = "cpu.cpus" THEN JsonDecode(json[f]) ELSE json[f]]

LEMMA LimitsAre ==
    ASSUME NEW limits, IsLimits(limits), \A f \in DOMAIN limits \ Numbers : ValidCpuset(limits[f])
    PROVE  /\ LimitsOf(LimitsJson(limits)) = limits
           /\ DOMAIN LimitsJson(limits) = {} => LimitsOf(<<>>) = limits
<1> DEFINE json == LimitsJson(limits)
<1>1. ASSUME NEW f \in DOMAIN limits, f \notin Numbers
      PROVE  JsonDecode(JsonString(limits[f])) = limits[f]
  <2>1. limits[f] \in Text /\ ValidCpuset(limits[f])
    BY <1>1 DEF IsLimits, Text
  <2>2. \A k \in DOMAIN limits[f] : limits[f][k] \in Byte /\ limits[f][k] \in Digit \cup {44, 45}
    BY <2>1 DEF ValidCpuset, Has, Text
  <2>3. \A k \in DOMAIN limits[f] : limits[f][k] < 128
    BY <2>2 DEF Digit, Byte
  <2> QED
    BY <2>1, <2>3, AsciiIsUtf8, JsonRoundTrip DEF Kept
<1>2. DOMAIN json = DOMAIN limits /\ DOMAIN limits \subseteq Limits
  BY DEF LimitsJson, IsLimits
<1>3. \A f \in Limits : f \in Numbers <=> f # "cpu.cpus"
  BY DEF Limits, Numbers
<1>4. ASSUME NEW f \in DOMAIN limits
      PROVE  (IF f = "cpu.cpus" THEN JsonDecode(json[f]) ELSE json[f]) = limits[f]
  <2>1. f \in Numbers <=> f # "cpu.cpus"
    BY <1>2, <1>3
  <2>2. json[f] = IF f \in Numbers THEN limits[f] ELSE JsonString(limits[f])
    BY DEF LimitsJson
  <2> HIDE DEF json
  <2> QED
    BY <1>1, <2>1, <2>2
<1>5. limits = [f \in DOMAIN limits |-> limits[f]]
  BY DEF IsLimits
<1>6. \A D : D \subseteq Limits =>
          D \cap {"cpu.period", "cpu.quota", "cpu.shares", "cpu.cpus",
                  "memory.limit", "memory.swap", "pids.limit"} = D
  BY DEF Limits, Numbers
<1> HIDE DEF json
<1>7. LimitsOf(json) = limits
  BY <1>2, <1>4, <1>5, <1>6 DEF LimitsOf
<1>8. ASSUME DOMAIN json = {} PROVE LimitsOf(<<>>) = limits
  <2>1. LimitsOf(<<>>) = [f \in {} |-> limits[f]]
    BY EmptyIs DEF LimitsOf
  <2> QED
    BY <1>2, <1>5, <1>8, <2>1
<1> QED
  BY <1>7, <1>8 DEF json

\* Podman reads from a body the specification it was written from, but for
\* security_opt and for what is not UTF-8.
LEMMA SpecRoundTrip ==
    ASSUME NEW spec, IsSpec(spec), ValidSpec(spec)
    PROVE  KeptSpec(spec, SpecOf(CreateJson(spec)))
<1> DEFINE json == [name |-> JsonString(spec.name), image |-> JsonString(spec.image),
                    command |-> JsonArray(spec.command),
                    env |-> JsonMap(spec.env), labels |-> JsonMap(spec.labels),
                    read_only_filesystem |-> spec.read_only_filesystem,
                    cap_drop |-> JsonArray(spec.cap_drop), security_opt |-> JsonArray(spec.security_opt),
                    resource_limits |-> LimitsJson(spec.limits)]
           body == Present(json)
<1>1. CreateJson(spec) = body
  BY DEF CreateJson
<1>2. /\ spec.name \in Text /\ spec.image \in Text
      /\ spec.command \in Seq(Text) /\ spec.cap_drop \in Seq(Text)
      /\ IsMap(spec.env) /\ IsMap(spec.labels) /\ IsLimits(spec.limits)
  BY DEF IsSpec, Text
<1>3. /\ "name" \in DOMAIN json /\ json["name"] = JsonString(spec.name)
      /\ "image" \in DOMAIN json /\ json["image"] = JsonString(spec.image)
      /\ "command" \in DOMAIN json /\ json["command"] = JsonArray(spec.command)
      /\ "env" \in DOMAIN json /\ json["env"] = JsonMap(spec.env)
      /\ "labels" \in DOMAIN json /\ json["labels"] = JsonMap(spec.labels)
      /\ "read_only_filesystem" \in DOMAIN json /\ json["read_only_filesystem"] = spec.read_only_filesystem
      /\ "cap_drop" \in DOMAIN json /\ json["cap_drop"] = JsonArray(spec.cap_drop)
      /\ "resource_limits" \in DOMAIN json /\ json["resource_limits"] = LimitsJson(spec.limits)
  OBVIOUS
<1> HIDE DEF json
<1>4. /\ body["name"] = JsonString(spec.name) /\ body["image"] = JsonString(spec.image)
      /\ body["read_only_filesystem"] = spec.read_only_filesystem
  BY <1>3, PresentIs DEF Optional
<1> DEFINE Written(f, value) == Field(body, f) = IF DOMAIN value = {} THEN <<>> ELSE value
<1>5. /\ Written("command", JsonArray(spec.command)) /\ Written("cap_drop", JsonArray(spec.cap_drop))
      /\ Written("env", JsonMap(spec.env)) /\ Written("labels", JsonMap(spec.labels))
      /\ Written("resource_limits", LimitsJson(spec.limits))
  BY <1>3, PresentIs DEF Optional
<1> HIDE DEF body
<1>6. JsonDecode(body["name"]) = spec.name
  <2>1. ValidName(spec.name)
    BY DEF ValidSpec
  <2>2. ValidUtf8(spec.name)
    BY <1>2, <2>1, NameIsUtf8
  <2> QED
    BY <1>2, <1>4, <2>2, JsonRoundTrip DEF Kept
<1>7. Kept(spec.image, JsonDecode(body["image"]))
  BY <1>2, <1>4, JsonRoundTrip
<1>8. \A f, texts : texts \in Seq(Text) /\ Written(f, JsonArray(texts)) => KeptAll(texts, Texts(Field(body, f)))
  BY TextsAre
<1>9. \A f, map : IsMap(map) /\ Written(f, JsonMap(map)) => KeptMap(map, Map(Field(body, f)))
  BY MapIs
<1>10. LimitsOf(Field(body, "resource_limits")) = spec.limits
  <2>1. \A f \in DOMAIN spec.limits \ Numbers : ValidCpuset(spec.limits[f])
    BY DEF ValidSpec
  <2> QED
    BY <1>2, <1>5, <2>1, LimitsAre
<1>11. /\ KeptAll(spec.command, Texts(Field(body, "command")))
       /\ KeptAll(spec.cap_drop, Texts(Field(body, "cap_drop")))
       /\ KeptMap(spec.env, Map(Field(body, "env"))) /\ KeptMap(spec.labels, Map(Field(body, "labels")))
  BY <1>2, <1>5, <1>8, <1>9
<1>12. SpecOf(body) = [name |-> JsonDecode(body["name"]), image |-> JsonDecode(body["image"]),
                       command |-> Texts(Field(body, "command")),
                       env |-> Map(Field(body, "env")), labels |-> Map(Field(body, "labels")),
                       read_only_filesystem |-> body["read_only_filesystem"],
                       cap_drop |-> Texts(Field(body, "cap_drop")),
                       limits |-> LimitsOf(Field(body, "resource_limits"))]
  BY DEF SpecOf, LimitsOf
<1>13. /\ SpecOf(body).name = JsonDecode(body["name"]) /\ SpecOf(body).image = JsonDecode(body["image"])
       /\ SpecOf(body).command = Texts(Field(body, "command"))
       /\ SpecOf(body).env = Map(Field(body, "env")) /\ SpecOf(body).labels = Map(Field(body, "labels"))
       /\ SpecOf(body).read_only_filesystem = body["read_only_filesystem"]
       /\ SpecOf(body).cap_drop = Texts(Field(body, "cap_drop"))
       /\ SpecOf(body).limits = LimitsOf(Field(body, "resource_limits"))
  BY <1>12
<1> QED
  BY <1>1, <1>4, <1>6, <1>7, <1>10, <1>11, <1>13 DEF KeptSpec
-----------------------------------------------------------------------------
Operations == {"ping", "info", "list", "create"} \cup OnContainer

\* Podman refuses a request r that was read from k: one of its filters is no JSON, or
\* it is for a path at which there is nothing.
Unread(k, r) ==
    \/ k.op = "list" /\ r.op = "list" /\ \E n \in DOMAIN r.filters : r.filters[n] = Undecodable
    \/ k.op \in OnContainer /\ Dissolves(k.name) /\ r = Nowhere

\* Request and Podman's reading of it: every request means what its caller means, or
\* Podman refuses it.
THEOREM CodecsAgree ==
    \A k \in Calls : ~Refuses(k) =>
        Means(k, Understood(Request(k))) \/ Unread(k, Understood(Request(k)))
<1> SUFFICES ASSUME NEW k \in Calls, ~Refuses(k)
             PROVE  Means(k, Understood(Request(k))) \/ Unread(k, Understood(Request(k)))
  OBVIOUS
<1>1. k.op \in Operations
  BY ClientAssumption DEF Operations
<1>2. CASE k.op = "create"
  <2>1. ValidSpec(k.spec)
    BY <1>2 DEF Refuses
  <2>2. KeptSpec(k.spec, SpecOf(CreateJson(k.spec)))
    BY <1>2, <2>1, ClientAssumption, SpecRoundTrip
  <2> DEFINE body == CreateJson(k.spec)
             read == SpecOf(body)
  <2>3. Request(k) = [op |-> "create", body |-> body]
    BY <1>2 DEF Request, OnContainer
  <2> HIDE DEF body
  <2>4. Understood([op |-> "create", body |-> body]) = [op |-> "create", spec |-> read]
    BY DEF Understood, OnContainer
  <2> HIDE DEF read
  <2>5. Means(k, [op |-> "create", spec |-> read])
    BY <1>2, <2>2 DEF Means, OnContainer, read, body
  <2> QED
    BY <2>3, <2>4, <2>5
<1>3. CASE k.op \in OnContainer
  <2>1. UrlDecode(UrlEncode(k.name), FALSE) = k.name
    BY <1>3, ClientAssumption, UrlRoundTrip DEF Text
  <2>2. k.op # "create" /\ k.op # "list"
    BY <1>3 DEF OnContainer
  <2> DEFINE force == k.op = "remove" /\ k.force
             timeout == IF k.op = "stop" THEN k.timeout ELSE 0
             code == UrlEncode(k.name)
             r == [op |-> k.op, name |-> code, force |-> force, timeout |-> timeout]
  <2>3. Request(k) = r
    BY <1>3, <2>2 DEF Request
  <2>4. (k.op = "stop" => timeout = k.timeout) /\ (k.op = "remove" => (force <=> k.force))
    OBVIOUS
  <2>5. force \in BOOLEAN /\ (k.op = "remove" => k.force \in BOOLEAN)
    <3>1. k.op = "remove" => k.force \in BOOLEAN
      BY ClientAssumption
    <3>2. force \in BOOLEAN
      BY Zenon
    <3> QED
      BY <3>1, <3>2
  <2>6. k.op = "remove" => force = k.force
    BY <2>4, <2>5, Zenon
  <2> HIDE DEF force, timeout, code
  <2>7. r.op = k.op /\ r.name = code
    OBVIOUS
  <2>8. Understood(r) = IF Dissolves(UrlDecode(code, FALSE)) THEN Nowhere
                        ELSE [r EXCEPT !.name = UrlDecode(code, FALSE)]
    BY <1>3, <2>2, <2>7 DEF Understood
  <2>9. UrlDecode(code, FALSE) = k.name
    BY <2>1 DEF code
  <2>10. CASE Dissolves(k.name)
    BY <1>3, <2>3, <2>8, <2>9, <2>10 DEF Unread
  <2>11. CASE ~Dissolves(k.name)
    <3> DEFINE read == [op |-> k.op, name |-> k.name, force |-> force, timeout |-> timeout]
    <3>1. Understood(r) = read
      BY <2>8, <2>9, <2>11
    <3>2. read.op = k.op /\ read.name = k.name /\ read.force = force /\ read.timeout = timeout
      OBVIOUS
    <3> HIDE DEF read, r
    <3>3. Means(k, read)
      BY <2>2, <2>4, <2>6, <3>2 DEF Means
    <3> QED
      BY <2>3, <3>1, <3>3
  <2> QED
    BY <2>10, <2>11
<1>4. CASE k.op = "list"
  <2> DEFINE read == [n \in DOMAIN k.filters |-> JsonDecode(UrlDecode(UrlEncode(FilterString(k.filters[n])), TRUE))]
             r == [op |-> "list", all |-> k.all, filters |-> read]
  <2>1. k.filters \in Seq(Text)
    BY <1>4, ClientAssumption DEF Text
  <2>2. ASSUME NEW n \in DOMAIN k.filters PROVE read[n] = Undecodable \/ Kept(k.filters[n], read[n])
    <3>1. k.filters[n] \in Text
      BY <2>1
    <3>2. UrlDecode(UrlEncode(FilterString(k.filters[n])), TRUE) = FilterString(k.filters[n])
      BY <3>1, FilterRoundTrip, UrlRoundTrip
    <3> QED
      BY <3>1, <3>2, FilterRoundTrip
  <2>3. Understood(Request(k)) = r
    BY <1>4 DEF Request, Understood, OnContainer
  <2>4. DOMAIN read = DOMAIN k.filters
    OBVIOUS
  <2> HIDE DEF read
  <2>5. r.op = "list" /\ r.all = k.all /\ r.filters = read
    OBVIOUS
  <2> HIDE DEF r
  <2>6. CASE \E n \in DOMAIN k.filters : read[n] = Undecodable
    BY <1>4, <2>3, <2>4, <2>5, <2>6 DEF Unread
  <2>7. CASE \A n \in DOMAIN k.filters : Kept(k.filters[n], read[n])
    <3>1. KeptAll(k.filters, read)
      BY <2>4, <2>7 DEF KeptAll
    <3> QED
      BY <1>4, <2>3, <2>5, <3>1 DEF Means, OnContainer
  <2> QED
    BY <2>2, <2>6, <2>7
<1>5. CASE k.op \in {"ping", "info"}
  BY <1>5 DEF Request, Understood, Means, OnContainer
<1> QED
  BY <1>1, <1>2, <1>3, <1>4, <1>5 DEF Operations
-----------------------------------------------------------------------------
\* The inductive invariant.

Numbered == 1..Len(made)

\* Request n has been performed.
Performed(n) == \E p \in performed : p[1] = n

NumberInv ==
    /\ made \in Seq(Calls)
    /\ pc \in [Callers -> {"idle", "waiting", "ok", "error"}]
    /\ id \in [Callers -> Nat]
    /\ \A c \in Callers : id[c] <= Len(made)
    /\ \A c, d \in Callers : id[c] = id[d] => c = d \/ id[c] = 0
    /\ DOMAIN wire \subseteq Numbered /\ DOMAIN answers \subseteq Numbered

\* Requests are those of the calls with their numbers.
WireInv == \A n \in DOMAIN wire : ~Refuses(made[n]) /\ wire[n] = Request(made[n])

AnswerInv == \A n \in DOMAIN answers : Success(answers[n]) => Performed(n)

SuccessInv == \A c \in Callers : pc[c] = "ok" => Performed(id[c])

\* What was performed is what the call with that number means.
PerformedInv ==
    \A p \in performed : /\ p[1] \in Numbered /\ ~Refuses(made[p[1]])
                         /\ Means(made[p[1]], p[2])

\* A container is one whose creation was performed.
ContainerInv ==
    \A name \in DOMAIN containers : \E p \in performed, running \in BOOLEAN :
        /\ p[2].op = "create" /\ p[2].spec.name = name
        /\ containers[name] = [spec |-> p[2].spec, running |-> running]

IInv == NumberInv /\ WireInv /\ AnswerInv /\ SuccessInv /\ PerformedInv /\ ContainerInv

\* The two properties follow.
LEMMA InvSuccess == IInv => SuccessWasDone
<1> SUFFICES ASSUME IInv, NEW c \in Callers, pc[c] = "ok"
             PROVE  \E p \in performed : p[1] = id[c] /\ Means(made[id[c]], p[2])
  BY DEF SuccessWasDone
<1>1. PICK p \in performed : p[1] = id[c]
  BY DEF IInv, SuccessInv, Performed
<1>2. Means(made[p[1]], p[2])
  BY DEF IInv, PerformedInv
<1> QED
  BY <1>1, <1>2

LEMMA InvCreated == IInv => CreatedAsAsked
<1> SUFFICES ASSUME IInv, NEW name \in DOMAIN containers
             PROVE  \E p \in performed :
                        /\ made[p[1]].op = "create" /\ ValidSpec(made[p[1]].spec)
                        /\ made[p[1]].spec.name = name
                        /\ KeptSpec(made[p[1]].spec, containers[name].spec)
  BY DEF CreatedAsAsked
<1>1. PICK p \in performed, running \in BOOLEAN :
          /\ p[2].op = "create" /\ p[2].spec.name = name
          /\ containers[name] = [spec |-> p[2].spec, running |-> running]
  BY DEF IInv, ContainerInv
<1>2. ~Refuses(made[p[1]]) /\ Means(made[p[1]], p[2])
  BY DEF IInv, PerformedInv
<1> DEFINE k == made[p[1]]
<1> HIDE DEF k
<1>3. k.op = "create" /\ KeptSpec(k.spec, p[2].spec) /\ ValidSpec(k.spec)
  BY <1>1, <1>2 DEF Means, Refuses, k
<1>4. k.spec.name = name
  BY <1>1, <1>3 DEF KeptSpec
<1>5. containers[name].spec = p[2].spec
  BY <1>1
<1> QED
  BY <1>3, <1>4, <1>5 DEF k
-----------------------------------------------------------------------------
\* What is left of a function without x.
Less(f, g) == DOMAIN g \subseteq DOMAIN f /\ \A y \in DOMAIN g : g[y] = f[y]

LEMMA WithoutIs == \A f, x : Less(f, f) /\ Less(f, Without(f, x))
BY DEF Without, Restrict, Less

LEMMA InitInv == Init => IInv
<1> SUFFICES ASSUME Init PROVE IInv
  OBVIOUS
<1>1. DOMAIN wire = {} /\ DOMAIN answers = {} /\ DOMAIN containers = {} /\ performed = {}
  BY DEF Init
<1>2. NumberInv
  <2>1. made \in Seq(Calls) /\ Len(made) = 0
    BY DEF Init
  <2> QED
    BY <1>1, <2>1 DEF Init, NumberInv
<1>3. WireInv /\ AnswerInv /\ SuccessInv /\ PerformedInv /\ ContainerInv
  BY <1>1 DEF Init, WireInv, AnswerInv, SuccessInv, PerformedInv, ContainerInv
<1> QED
  BY <1>2, <1>3 DEF IInv
-----------------------------------------------------------------------------
\* The threads.

\* A call gets a number nobody has.
LEMMA CallStep ==
    ASSUME IInv, NEW c \in Callers, NEW k \in Calls, Call(c, k)
    PROVE  IInv'
<1> DEFINE n == Len(made) + 1
<1>1. /\ made' \in Seq(Calls) /\ Len(made') = n /\ made'[n] = k
      /\ \A m \in Numbered : made'[m] = made[m]
  BY DEF Call, IInv, NumberInv, Numbered
<1>2. n \in Nat /\ n \notin Numbered /\ Numbered' = Numbered \cup {n}
  BY <1>1 DEF IInv, NumberInv, Numbered
<1>3. /\ id' = [id EXCEPT ![c] = n] /\ UNCHANGED <<answers, containers, performed>>
      /\ \/ Refuses(k) /\ pc' = [pc EXCEPT ![c] = "error"] /\ wire' = wire
         \/ /\ ~Refuses(k) /\ pc' = [pc EXCEPT ![c] = "waiting"]
            /\ wire' = [m \in DOMAIN wire \cup {n} |-> IF m = n THEN Request(k) ELSE wire[m]]
  <2>1. id' = [id EXCEPT ![c] = n] /\ id'[c] = n
    BY <1>1 DEF Call, IInv, NumberInv
  <2> QED
    BY <2>1 DEF Call
<1>4. /\ id'[c] = n /\ pc'[c] # "ok"
      /\ \A d \in Callers \ {c} : id'[d] = id[d] /\ pc'[d] = pc[d]
  BY <1>3 DEF IInv, NumberInv
<1>5. DOMAIN wire \subseteq Numbered /\ DOMAIN answers \subseteq Numbered
  BY DEF IInv, NumberInv
<1>6. \A m \in DOMAIN wire' : \/ m \in DOMAIN wire /\ wire'[m] = wire[m]
                              \/ m = n /\ ~Refuses(k) /\ wire'[m] = Request(k)
  BY <1>2, <1>3, <1>5
<1>7. NumberInv'
  <2>1. pc' \in [Callers -> {"idle", "waiting", "ok", "error"}] /\ id' \in [Callers -> Nat]
    BY <1>2, <1>3 DEF IInv, NumberInv
  <2>2. \A d \in Callers : id'[d] <= n
    BY <1>2, <1>4 DEF IInv, NumberInv
  <2>3. \A d \in Callers : id[d] # n
    BY DEF IInv, NumberInv
  <2>4. \A d, e \in Callers : id'[d] = id'[e] => d = e \/ id'[d] = 0
    BY <1>4, <2>3 DEF IInv, NumberInv
  <2>5. DOMAIN wire' \subseteq Numbered' /\ DOMAIN answers' \subseteq Numbered'
    BY <1>2, <1>3, <1>5, <1>6
  <2> QED
    BY <1>1, <2>1, <2>2, <2>4, <2>5 DEF NumberInv
<1>8. WireInv'
  BY <1>1, <1>5, <1>6 DEF IInv, WireInv
<1>9. AnswerInv' /\ ContainerInv'
  BY <1>3 DEF IInv, AnswerInv, ContainerInv, Performed
<1>10. SuccessInv'
  BY <1>3, <1>4 DEF IInv, SuccessInv, Performed
<1>11. PerformedInv'
  BY <1>1, <1>2, <1>3 DEF IInv, PerformedInv
<1> QED
  BY <1>7, <1>8, <1>9, <1>10, <1>11 DEF IInv

\* A call ends, with a success only if its request has been performed.
LEMMA EndStep ==
    ASSUME IInv, NEW c \in Callers,
           NEW outcome \in {"ok", "error"}, pc' = [pc EXCEPT ![c] = outcome],
           outcome = "ok" => Performed(id[c]),
           answers' = Without(answers, id[c]), wire' \in {wire, Without(wire, id[c])},
           UNCHANGED <<made, id, containers, performed>>
    PROVE  IInv'
<1>1. /\ DOMAIN answers' \subseteq DOMAIN answers /\ DOMAIN wire' \subseteq DOMAIN wire
      /\ \A n \in DOMAIN answers' : answers'[n] = answers[n]
      /\ \A n \in DOMAIN wire' : wire'[n] = wire[n]
  <2>1. Less(answers, answers') /\ Less(wire, wire')
    BY WithoutIs
  <2> QED
    BY <2>1 DEF Less
<1>2. pc'[c] = outcome /\ \A d \in Callers \ {c} : pc'[d] = pc[d]
  BY DEF IInv, NumberInv
<1>3. NumberInv'
  <2>1. pc' \in [Callers -> {"idle", "waiting", "ok", "error"}]
    BY DEF IInv, NumberInv
  <2> QED
    BY <1>1, <2>1 DEF IInv, NumberInv, Numbered
<1>4. WireInv' /\ AnswerInv'
  BY <1>1 DEF IInv, WireInv, AnswerInv, Performed
<1>5. SuccessInv'
  BY <1>2 DEF IInv, SuccessInv, Performed
<1>6. PerformedInv' /\ ContainerInv'
  BY DEF IInv, PerformedInv, ContainerInv, Numbered
<1> QED
  BY <1>3, <1>4, <1>5, <1>6 DEF IInv

LEMMA ReceiveStep ==
    ASSUME IInv, NEW c \in Callers, Receive(c)
    PROVE  IInv'
<1> DEFINE outcome == IF Success(answers[id[c]]) THEN "ok" ELSE "error"
<1>1. /\ pc' = [pc EXCEPT ![c] = outcome] /\ answers' = Without(answers, id[c])
      /\ id[c] \in DOMAIN answers /\ UNCHANGED <<made, id, wire, containers, performed>>
  BY DEF Receive
<1>2. outcome = "ok" => Performed(id[c])
  BY <1>1 DEF IInv, AnswerInv
<1>3. outcome \in {"ok", "error"}
  OBVIOUS
<1> HIDE DEF outcome
<1> QED
  BY <1>1, <1>2, <1>3, EndStep

LEMMA GiveUpStep ==
    ASSUME IInv, NEW c \in Callers, GiveUp(c)
    PROVE  IInv'
<1>1. /\ pc' = [pc EXCEPT ![c] = "error"] /\ answers' = Without(answers, id[c])
      /\ wire' \in {wire, Without(wire, id[c])} /\ UNCHANGED <<made, id, containers, performed>>
  BY DEF GiveUp
<1> QED
  BY <1>1, EndStep
-----------------------------------------------------------------------------
\* Podman.

\* What is served successfully is what its caller means.
LEMMA ServedAsMeant ==
    ASSUME NEW k \in Calls, ~Refuses(k), Success(Status(Understood(Request(k))))
    PROVE  Means(k, Understood(Request(k)))
<1> DEFINE r == Understood(Request(k))
<1>1. ASSUME Unread(k, r) PROVE ~Success(Status(r))
  <2> HIDE DEF r
  <2>1. CASE r.op = "list" /\ \E n \in DOMAIN r.filters : r.filters[n] = Undecodable
    <3>1. Status(r) = 400
      BY <2>1 DEF Status, OnContainer
    <3> QED
      BY <3>1 DEF Success
  <2>2. CASE r = Nowhere
    <3>1. r.op = "none"
      BY <2>2 DEF Nowhere
    <3>2. Status(r) = 404
      BY <3>1 DEF Status, OnContainer
    <3> QED
      BY <3>2 DEF Success
  <2> QED
    BY <1>1, <2>1, <2>2 DEF Unread
<1> QED
  BY <1>1, CodecsAgree

\* A container that is started, stopped or ends is the one it was.
LEMMA RunningKeeps ==
    ASSUME ContainerInv, performed \subseteq performed', NEW x, NEW b \in BOOLEAN,
           containers' = [containers EXCEPT ![x].running = b]
    PROVE  ContainerInv'
<1>1. ASSUME NEW name \in DOMAIN containers'
      PROVE  \E p \in performed', running \in BOOLEAN :
                 /\ p[2].op = "create" /\ p[2].spec.name = name
                 /\ containers'[name] = [spec |-> p[2].spec, running |-> running]
  <2>1. name \in DOMAIN containers
    OBVIOUS
  <2>2. PICK p \in performed, running \in BOOLEAN :
            /\ p[2].op = "create" /\ p[2].spec.name = name
            /\ containers[name] = [spec |-> p[2].spec, running |-> running]
    BY <2>1 DEF ContainerInv
  <2>3. containers'[name] = containers[name] \/ containers'[name] = [containers[name] EXCEPT !.running = b]
    BY <2>1
  <2>4. containers'[name] = [spec |-> p[2].spec, running |-> running]
        \/ containers'[name] = [spec |-> p[2].spec, running |-> b]
    BY <2>2, <2>3
  <2> QED
    BY <2>2, <2>4
<1> QED
  BY <1>1 DEF ContainerInv

\* Whatever is done, containers are as they were created.
LEMMA EffectKeeps ==
    ASSUME ContainerInv, performed \subseteq performed',
           NEW n, NEW r, r.op \in Operations, <<n, r>> \in performed', containers' = Effect(r)
    PROVE  ContainerInv'
<1>1. CASE r.op = "create"
  <2>1. containers' = [x \in DOMAIN containers \cup {r.spec.name} |->
                          IF x = r.spec.name THEN [spec |-> r.spec, running |-> FALSE] ELSE containers[x]]
    BY <1>1 DEF Effect
  <2>2. ASSUME NEW name \in DOMAIN containers'
        PROVE  \E p \in performed', running \in BOOLEAN :
                   /\ p[2].op = "create" /\ p[2].spec.name = name
                   /\ containers'[name] = [spec |-> p[2].spec, running |-> running]
    <3>1. CASE name = r.spec.name
      <4> DEFINE q == <<n, r>>
      <4>1. q \in performed' /\ q[2] = r
        OBVIOUS
      <4> HIDE DEF q
      <4>2. containers'[name] = [spec |-> r.spec, running |-> FALSE]
        BY <2>1, <3>1
      <4> QED
        BY <1>1, <3>1, <4>1, <4>2
    <3>2. CASE name # r.spec.name
      <4>1. name \in DOMAIN containers /\ containers'[name] = containers[name]
        BY <2>1, <2>2, <3>2
      <4> QED
        BY <4>1 DEF ContainerInv
    <3> QED
      BY <3>1, <3>2
  <2> QED
    BY <2>2 DEF ContainerInv
<1>2. CASE r.op \in {"start", "stop"}
  <2>1. PICK b \in BOOLEAN : containers' = [containers EXCEPT ![r.name].running = b]
    BY <1>2 DEF Effect
  <2> QED
    BY <2>1, RunningKeeps
<1>3. CASE r.op = "remove"
  <2>1. containers' = Without(containers, r.name)
    BY <1>3 DEF Effect
  <2>2. Less(containers, containers')
    BY <2>1, WithoutIs
  <2> QED
    BY <2>2 DEF ContainerInv, Less
<1>4. CASE r.op \in {"ping", "info", "list"}
  <2>1. containers' = containers
    BY <1>4 DEF Effect
  <2> QED
    BY <2>1 DEF ContainerInv
<1> QED
  BY <1>1, <1>2, <1>3, <1>4 DEF Operations, OnContainer

\* A request leaves the wire; what its caller may receive is true.
LEMMA ServedStep ==
    ASSUME IInv, NEW n \in DOMAIN wire, NEW status, AnswerTo(n, status), wire' = Without(wire, n),
           UNCHANGED clientVars, performed \subseteq performed',
           Success(status) => Performed(n)',
           PerformedInv', ContainerInv'
    PROVE  IInv'
<1> USE DEF clientVars
<1>1. /\ DOMAIN wire' \subseteq DOMAIN wire /\ \A m \in DOMAIN wire' : wire'[m] = wire[m]
  BY WithoutIs DEF Less
<1>2. /\ DOMAIN answers' \subseteq DOMAIN answers \cup {n}
      /\ \A m \in DOMAIN answers' : \/ m \in DOMAIN answers /\ answers'[m] = answers[m]
                                    \/ m = n /\ answers'[m] = status
  <2>1. CASE Awaited(n)
    BY <2>1 DEF AnswerTo
  <2>2. CASE ~Awaited(n)
    BY <2>2 DEF AnswerTo
  <2> QED
    BY <2>1, <2>2
<1>3. \A m : Performed(m) => Performed(m)'
  BY DEF Performed
<1>4. NumberInv'
  BY <1>1, <1>2 DEF IInv, NumberInv, Numbered
<1>5. WireInv'
  BY <1>1 DEF IInv, WireInv
<1>6. AnswerInv'
  BY <1>2, <1>3 DEF IInv, AnswerInv
<1>7. SuccessInv'
  BY <1>3 DEF IInv, SuccessInv
<1> QED
  BY <1>4, <1>5, <1>6, <1>7 DEF IInv

LEMMA ServeStep ==
    ASSUME IInv, NEW n, Serve(n)
    PROVE  IInv'
<1> DEFINE r == Understood(wire[n])
<1>1. /\ n \in DOMAIN wire /\ AnswerTo(n, Status(r)) /\ wire' = Without(wire, n) /\ UNCHANGED clientVars
      /\ containers' = IF Success(Status(r)) THEN Effect(r) ELSE containers
      /\ performed' = IF Success(Status(r)) THEN performed \cup {<<n, r>>} ELSE performed
  BY DEF Serve, Success
<1>2. n \in Numbered /\ made[n] \in Calls /\ ~Refuses(made[n]) /\ wire[n] = Request(made[n])
  BY <1>1 DEF IInv, WireInv, NumberInv, Numbered
<1>3. made' = made /\ Numbered' = Numbered /\ performed \subseteq performed'
  BY <1>1 DEF clientVars, Numbered
<1>4. CASE Success(Status(r))
  <2>1. Means(made[n], r)
    BY <1>2, <1>4, ServedAsMeant
  <2> HIDE DEF r
  <2> DEFINE p == <<n, r>>
  <2>2. p[1] = n /\ p[2] = r /\ performed' = performed \cup {p}
    BY <1>1, <1>4
  <2> HIDE DEF p
  <2>3. PerformedInv'
    BY <1>2, <1>3, <2>1, <2>2 DEF IInv, PerformedInv
  <2>4. r.op \in Operations
    BY <1>2, <2>1, ClientAssumption DEF Means, Operations
  <2>5. ContainerInv'
    BY <1>1, <1>3, <1>4, <2>2, <2>4, EffectKeeps DEF IInv, p
  <2>6. Performed(n)'
    BY <2>2 DEF Performed
  <2> QED
    BY <1>1, <1>3, <2>3, <2>5, <2>6, ServedStep
<1>5. CASE ~Success(Status(r))
  <2> HIDE DEF r
  <2>1. performed' = performed /\ containers' = containers
    BY <1>1, <1>5
  <2>2. PerformedInv' /\ ContainerInv'
    BY <1>3, <2>1 DEF IInv, PerformedInv, ContainerInv
  <2> QED
    BY <1>1, <1>3, <1>5, <2>2, ServedStep
<1> QED
  BY <1>4, <1>5

LEMMA ServeFailsStep ==
    ASSUME IInv, NEW n, ServeFails(n)
    PROVE  IInv'
<1>1. /\ n \in DOMAIN wire /\ AnswerTo(n, 500) /\ wire' = Without(wire, n)
      /\ UNCHANGED <<clientVars, containers, performed>>
  BY DEF ServeFails
<1>2. PerformedInv' /\ ContainerInv' /\ ~Success(500)
  BY <1>1 DEF IInv, PerformedInv, ContainerInv, Success, Numbered, clientVars
<1> QED
  BY <1>1, <1>2, ServedStep

LEMMA ContainerEndsStep ==
    ASSUME IInv, NEW ended \in DOMAIN containers, ContainerEnds(ended)
    PROVE  IInv'
<1>1. /\ containers' = [containers EXCEPT ![ended].running = FALSE]
      /\ UNCHANGED <<clientVars, wire, answers, performed>>
  BY DEF ContainerEnds
<1>2. ContainerInv'
  BY <1>1, RunningKeeps DEF IInv
<1>3. NumberInv' /\ WireInv' /\ AnswerInv' /\ SuccessInv' /\ PerformedInv'
  BY <1>1 DEF IInv, clientVars, NumberInv, WireInv, AnswerInv, SuccessInv, PerformedInv,
              Numbered, Performed
<1> QED
  BY <1>2, <1>3 DEF IInv

LEMMA NextInv == IInv /\ [Next]_vars => IInv'
<1> SUFFICES ASSUME IInv, [Next]_vars PROVE IInv'
  OBVIOUS
<1>1. ASSUME NEW c \in Callers, (\E k \in Calls : Call(c, k)) \/ Receive(c) \/ GiveUp(c)
      PROVE  IInv'
  BY <1>1, CallStep, ReceiveStep, GiveUpStep
<1>2. ASSUME NEW n \in 1..MaxCalls, Serve(n) \/ ServeFails(n) PROVE IInv'
  BY <1>2, ServeStep, ServeFailsStep
<1>3. ASSUME NEW name \in DOMAIN containers, ContainerEnds(name) PROVE IInv'
  BY <1>3, ContainerEndsStep
<1>4. ASSUME UNCHANGED vars PROVE IInv'
  BY <1>4 DEF vars, podmanVars, clientVars, IInv, NumberInv, WireInv, AnswerInv, SuccessInv,
              PerformedInv, ContainerInv, Numbered, Performed
<1> QED
  BY <1>1, <1>2, <1>3, <1>4 DEF Next, NoMoreCalls
-----------------------------------------------------------------------------
\* The invariant that the two properties follow from.
THEOREM Invariant == Spec => []IInv
<1>1. IInv /\ [Next]_vars => IInv'
  BY NextInv
<1> QED
  BY <1>1, InitInv, PTL DEF Spec

\* require_success: a call that returns success has been performed, by this very
\* request, whatever was lost, given up or served late.
THEOREM SuccessesWereDone == Spec => []SuccessWasDone
<1> QED
  BY Invariant, InvSuccess, PTL

\* validate_container_spec and to_podman_create_json: whatever container exists was
\* asked for by a call that was made, as it is and with a valid specification, but for
\* security_opt and for texts that are not UTF-8.
THEOREM CreationsAsAsked == Spec => []CreatedAsAsked
<1> QED
  BY Invariant, InvCreated, PTL
===============================================================================
