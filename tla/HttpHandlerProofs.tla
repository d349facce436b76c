-------------------------- MODULE HttpHandlerProofs --------------------------
(***************************************************************************)
(* Theorems about HttpHandler, for every set of loads, servers and forms,  *)
(* every buffer and whatever the servers and the user answer.              *)
(***************************************************************************)
EXTENDS HttpHandler, WellFoundedInduction, TLAPS

-----------------------------------------------------------------------------
(* Induction *)

LEMMA Least ==
  ASSUME NEW T \in SUBSET Nat, T # {}
  PROVE  \E n \in T : \A m \in T : n <= m
<1>1. PICK n \in T : \A m \in T : ~(<<m, n>> \in OpToRel(<, Nat))
  BY NatLessThanWellFounded, WFMin, Zenon
<1>2. \A m \in T : ~(m < n)
  BY <1>1 DEF OpToRel
<1>3. \A m \in T : n <= m
  BY <1>2
<1> QED BY <1>3

-----------------------------------------------------------------------------
(* The sizes of a form's elements *)

FormType == Seq([size : Nat \ {0}, file : BOOLEAN])

LEMMA FormElements ==
  ASSUME NEW form \in FormType
  PROVE  /\ Len(form) \in Nat
         /\ \A k \in 1..Len(form) : /\ form[k].size \in Nat /\ form[k].size > 0
                                     /\ form[k].file \in BOOLEAN
<1> DEFINE E == [size : Nat \ {0}, file : BOOLEAN]
<1>1. form \in Seq(E)
  BY DEF FormType
<1> HIDE DEF E
<1>2. Len(form) \in Nat /\ \A k \in 1..Len(form) : form[k] \in E
  BY <1>1
<1> QED BY <1>2 DEF E

\* s holds the sums of the sizes of the first elements.
Sums(s, form) ==
  s = [n \in 0..Len(form) |-> IF n = 0 THEN 0 ELSE s[n - 1] + form[n].size]

PartialSums(s, form, n) ==
  /\ s \in [0..n -> Nat]
  /\ \A k \in 0..n : s[k] = IF k = 0 THEN 0 ELSE s[k - 1] + form[k].size

LEMMA PartialSumsExist ==
  ASSUME NEW form \in FormType
  PROVE  \E s : PartialSums(s, form, Len(form))
<1> DEFINE T == {n \in 0..Len(form) : ~\E s : PartialSums(s, form, n)}
<1>0. Len(form) \in Nat /\ \A k \in 1..Len(form) : form[k].size \in Nat
  BY FormElements
<1>1. CASE T = {}
  <2>1. Len(form) \in 0..Len(form)
    BY <1>0
  <2> QED BY <1>1, <2>1
<1>2. CASE T # {}
  <2>1. T \in SUBSET Nat
    BY <1>0
  <2> HIDE DEF T
  <2>2. PICK n \in T : \A m \in T : n <= m
    BY <1>2, <2>1, Least
  <2>3. n \in 0..Len(form) /\ ~\E s : PartialSums(s, form, n)
    BY DEF T
  <2>4. CASE n = 0
    <3>1. PartialSums([k \in 0..0 |-> 0], form, 0)
      BY DEF PartialSums
    <3> QED BY <2>3, <2>4, <3>1
  <2>5. CASE n # 0
    <3>1. n - 1 \in 0..Len(form) /\ ~(n <= n - 1) /\ n \in 1..Len(form)
      BY <1>0, <2>3, <2>5
    <3>2. PICK s : PartialSums(s, form, n - 1)
      BY <2>2, <3>1, Zenon DEF T
    <3> DEFINE r == [k \in 0..n |-> IF k = n THEN s[n - 1] + form[n].size ELSE s[k]]
    <3>3. s \in [0..n - 1 -> Nat]
            /\ \A k \in 0..n - 1 : s[k] = IF k = 0 THEN 0 ELSE s[k - 1] + form[k].size
      BY <3>2 DEF PartialSums
    <3>4. r \in [0..n -> Nat]
      BY <1>0, <3>1, <3>3
    <3>5. ASSUME NEW k \in 0..n
          PROVE  r[k] = IF k = 0 THEN 0 ELSE r[k - 1] + form[k].size
      BY <1>0, <3>1, <3>3
    <3>6. PartialSums(r, form, n)
      BY <3>4, <3>5 DEF PartialSums
    <3> QED BY <2>3, <3>6
  <2> QED BY <2>4, <2>5
<1> QED BY <1>1, <1>2

\* What Total is, in terms of sums.
LEMMA TotalIsSum ==
  ASSUME NEW form \in FormType
  PROVE  \E s : PartialSums(s, form, Len(form)) /\ Total(form) = s[Len(form)]
<1> DEFINE sum == CHOOSE s : s = [n \in 0..Len(form) |->
                                    IF n = 0 THEN 0 ELSE s[n - 1] + form[n].size]
<1>1. Total(form) = sum[Len(form)]
  BY DEF Total
<1>2. PICK s : PartialSums(s, form, Len(form))
  BY PartialSumsExist
<1>3. s = [n \in 0..Len(form) |-> IF n = 0 THEN 0 ELSE s[n - 1] + form[n].size]
  BY <1>2 DEF PartialSums
<1>4. sum = [n \in 0..Len(form) |-> IF n = 0 THEN 0 ELSE sum[n - 1] + form[n].size]
  BY <1>3, Zenon
<1> HIDE DEF sum
<1>0. Len(form) \in Nat /\ \A k \in 1..Len(form) : form[k].size \in Nat
  BY FormElements
<1>5. \A n \in 0..Len(form) : sum[n] = IF n = 0 THEN 0 ELSE sum[n - 1] + form[n].size
  BY <1>4
<1> DEFINE T == {n \in 0..Len(form) : sum[n] \notin Nat}
<1>6. T = {}
  <2> SUFFICES ASSUME T # {} PROVE FALSE
    OBVIOUS
  <2>1. T \in SUBSET Nat
    BY <1>0
  <2> HIDE DEF T
  <2>2. PICK n \in T : \A m \in T : n <= m
    BY <2>1, Least
  <2>3. n \in 0..Len(form) /\ sum[n] \notin Nat
    BY DEF T
  <2>4. n # 0
    BY <1>5, <2>3
  <2>5. n - 1 \in 0..Len(form) /\ ~(n <= n - 1) /\ n \in 1..Len(form)
    BY <1>0, <2>3, <2>4
  <2>6. sum[n - 1] \in Nat
    BY <2>2, <2>5, Zenon DEF T
  <2> QED BY <1>0, <1>5, <2>3, <2>4, <2>5, <2>6
<1>7. sum \in [0..Len(form) -> Nat]
  <2>1. \A n \in 0..Len(form) : sum[n] \in Nat
    BY <1>6
  <2> QED BY <1>4, <2>1
<1>8. PartialSums(sum, form, Len(form))
  BY <1>5, <1>7 DEF PartialSums
<1> QED BY <1>1, <1>8

\* Sums grow.
LEMMA SumsGrow ==
  ASSUME NEW form \in FormType, NEW s, PartialSums(s, form, Len(form)),
         NEW d \in 0..Len(form)
  PROVE  s[d] \in Nat /\ s[Len(form)] \in Nat /\ s[d] <= s[Len(form)]
<1> DEFINE T == {n \in 0..Len(form) : ~(s[Len(form) - n] <= s[Len(form)])}
<1>0. /\ Len(form) \in Nat /\ s \in [0..Len(form) -> Nat]
      /\ \A k \in 1..Len(form) : form[k].size \in Nat
      /\ \A k \in 0..Len(form) : s[k] = IF k = 0 THEN 0 ELSE s[k - 1] + form[k].size
  BY FormElements DEF PartialSums
<1>1. T = {}
  <2> SUFFICES ASSUME T # {} PROVE FALSE
    OBVIOUS
  <2>1. T \in SUBSET Nat
    BY <1>0
  <2> HIDE DEF T
  <2>2. PICK n \in T : \A m \in T : n <= m
    BY <2>1, Least
  <2>3. n \in 0..Len(form) /\ ~(s[Len(form) - n] <= s[Len(form)])
    BY DEF T
  <2>4. n # 0
    BY <1>0, <2>3
  <2>5. n - 1 \in 0..Len(form) /\ ~(n <= n - 1)
    BY <1>0, <2>3, <2>4
  <2>6. s[Len(form) - (n - 1)] <= s[Len(form)]
    BY <2>2, <2>5, Zenon DEF T
  <2> DEFINE k == Len(form) - (n - 1)
  <2>7. k \in 1..Len(form) /\ k - 1 = Len(form) - n /\ k # 0
    BY <1>0, <2>3, <2>4
  <2> HIDE DEF k
  <2>8. s[k] = s[k - 1] + form[k].size
    <3>1. Len(form) \in Nat
      BY <1>0
    <3>2. \A m \in 1..Len(form) : m \in 0..Len(form) /\ m # 0
      BY <3>1
    <3>3. k \in 0..Len(form) /\ k # 0
      BY <2>7, <3>2, Zenon
    <3>4. s[k] = IF k = 0 THEN 0 ELSE s[k - 1] + form[k].size
      BY <1>0, <3>3, Zenon
    <3> QED BY <3>3, <3>4
  <2>9. s[k] <= s[Len(form)]
    BY <2>6 DEF k
  <2>10. s[k - 1] \in Nat /\ s[Len(form)] \in Nat /\ form[k].size \in Nat
    <3>1. Len(form) \in Nat
      BY <1>0
    <3>2. \A m \in 1..Len(form) : m - 1 \in 0..Len(form) /\ Len(form) \in 0..Len(form)
      BY <3>1
    <3> QED BY <1>0, <2>7, <3>2, Zenon
  <2>11. s[k - 1] <= s[Len(form)]
    BY <2>8, <2>9, <2>10
  <2> QED BY <2>3, <2>7, <2>11
<1>2. Len(form) - d \in 0..Len(form) /\ Len(form) - (Len(form) - d) = d
  BY <1>0
<1>3. ~(Len(form) - d \in T)
  BY <1>1
<1>4. s[d] <= s[Len(form)]
  BY <1>2, <1>3
<1> QED BY <1>0, <1>4

-----------------------------------------------------------------------------
(* Reading a form *)

\* The first element from d on that is a file, or the end
Stops(form, d) == {k \in d..Len(form) + 1 : k > Len(form) \/ form[k].file}

Stop(form, d) == CHOOSE k \in Stops(form, d) : \A m \in Stops(form, d) : k <= m

LEMMA StopIsFirst ==
  ASSUME NEW form \in FormType, NEW d \in 1..Len(form) + 1
  PROVE  /\ Stop(form, d) \in Stops(form, d)
         /\ \A m \in Stops(form, d) : Stop(form, d) <= m
<1>1. Len(form) \in Nat
  BY FormElements
<1>2. Len(form) + 1 \in Stops(form, d) /\ Stops(form, d) \in SUBSET Nat
  BY <1>1 DEF Stops
<1>3. \E k \in Stops(form, d) : \A m \in Stops(form, d) : k <= m
  BY <1>2, Least, Zenon
<1> QED BY <1>3, Zenon DEF Stop

LEMMA StopFound ==
  ASSUME NEW form \in FormType, NEW d \in 1..Len(form) + 1
  PROVE  /\ Stop(form, d) \in d..Len(form) + 1
         /\ (d > Len(form) \/ form[d].file) => Stop(form, d) = d
         /\ ~(d > Len(form) \/ form[d].file) =>
              /\ d \in 1..Len(form) /\ d + 1 \in 1..Len(form) + 1
              /\ Stop(form, d) = Stop(form, d + 1)
              /\ Stop(form, d) \in d + 1..Len(form) + 1
         /\ (\A k \in 1..Len(form) : ~form[k].file) => Stop(form, d) = Len(form) + 1
<1>1. Len(form) \in Nat
  BY FormElements
<1> DEFINE a == Stop(form, d)
<1>2. a \in Stops(form, d) /\ \A m \in Stops(form, d) : a <= m
  BY StopIsFirst
<1> HIDE DEF a
<1>3. a \in d..Len(form) + 1 /\ (a > Len(form) \/ form[a].file)
  BY <1>2 DEF Stops
<1>4. ASSUME d > Len(form) \/ form[d].file PROVE a = d
  <2>1. d \in Stops(form, d)
    BY <1>1, <1>4 DEF Stops
  <2> QED BY <1>1, <1>2, <1>3, <2>1
<1>5. ASSUME ~(d > Len(form) \/ form[d].file)
      PROVE  /\ d \in 1..Len(form) /\ d + 1 \in 1..Len(form) + 1
             /\ a = Stop(form, d + 1) /\ a \in d + 1..Len(form) + 1
  <2>1. d \in 1..Len(form) /\ d + 1 \in 1..Len(form) + 1
    BY <1>1, <1>5
  <2> DEFINE b == Stop(form, d + 1)
  <2>2. b \in Stops(form, d + 1) /\ \A m \in Stops(form, d + 1) : b <= m
    BY <2>1, StopIsFirst
  <2> HIDE DEF b
  <2>3. a # d
    BY <1>3, <1>5
  <2>4. a \in d + 1..Len(form) + 1
    BY <1>1, <1>3, <2>1, <2>3
  <2>5. a \in Stops(form, d + 1)
    BY <1>3, <2>4 DEF Stops
  <2>6. b \in Stops(form, d) /\ b \in Nat
    BY <1>1, <2>1, <2>2 DEF Stops
  <2>7. a <= b /\ b <= a
    BY <1>2, <2>2, <2>5, <2>6
  <2>8. a = b
    BY <2>4, <2>6, <2>7
  <2> QED BY <2>1, <2>4, <2>8 DEF b
<1>6. ASSUME \A k \in 1..Len(form) : ~form[k].file PROVE a = Len(form) + 1
  BY <1>1, <1>3, <1>6
<1> QED BY <1>3, <1>4, <1>5, <1>6 DEF a

\* What is left to read at a position
Left(form, s, d, p) == s[Len(form)] - s[d - 1] - p

LEMMA ReadMoves ==
  ASSUME NEW form \in FormType, NEW s, PartialSums(s, form, Len(form)),
         NEW d, NEW p, Position(form, d, p), NEW r, r = Read(form, d, p)
  PROVE  /\ d \in 1..Len(form) + 1 /\ p \in Nat /\ Left(form, s, d, p) \in Nat
         /\ r.sent \in Nat
         /\ r.sent = 0 <=> d > Len(form) \/ form[d].file
         /\ r.sent # 0 =>
              /\ Position(form, r.element, r.offset)
              /\ Left(form, s, r.element, r.offset) = Left(form, s, d, p) - r.sent
<1>1. /\ Len(form) \in Nat /\ Buffer \in Nat \ {0}
      /\ \A k \in 1..Len(form) : form[k].size \in Nat /\ form[k].size > 0
  BY FormElements, HttpAssumption
<1>2. \A k \in 1..Len(form) + 1 : /\ s[k - 1] \in Nat /\ s[Len(form)] \in Nat
                                   /\ s[k - 1] <= s[Len(form)]
  BY <1>1, SumsGrow
<1>3. \A k \in 1..Len(form) : s[k] = s[k - 1] + form[k].size
  <2>1. \A k \in 1..Len(form) : k \in 0..Len(form) /\ k # 0
    BY <1>1
  <2> QED BY <2>1, Zenon DEF PartialSums
<1>4. d \in 1..Len(form) + 1 /\ p \in Nat
  BY <1>1 DEF Position
<1>5. CASE d > Len(form)
  <2>1. p = 0
    BY <1>5 DEF Position
  <2>2. r.sent = 0
    BY <1>5 DEF Read
  <2>3. Left(form, s, d, p) \in Nat
    BY <1>1, <1>2, <1>4, <1>5, <2>1 DEF Left
  <2> QED BY <1>4, <1>5, <2>2, <2>3
<1>6. CASE ~(d > Len(form))
  <2>1. d \in 1..Len(form) /\ p < form[d].size
    BY <1>1, <1>4, <1>6 DEF Position
  <2>2. form[d].size \in Nat /\ s[d] = s[d - 1] + form[d].size
    BY <1>1, <1>3, <2>1
  <2>3. s[d] \in Nat /\ s[d - 1] \in Nat /\ s[Len(form)] \in Nat /\ s[d] <= s[Len(form)]
    <3>1. d + 1 \in 1..Len(form) + 1 /\ (d + 1) - 1 = d
      BY <1>1, <2>1
    <3>2. s[(d + 1) - 1] \in Nat /\ s[(d + 1) - 1] <= s[Len(form)]
      BY <1>2, <3>1, Zenon
    <3>3. s[d - 1] \in Nat /\ s[Len(form)] \in Nat
      BY <1>2, <1>4, Zenon
    <3> QED BY <3>1, <3>2, <3>3
  <2>4. Left(form, s, d, p) \in Nat
    BY <1>4, <2>1, <2>2, <2>3 DEF Left
  <2>5. CASE form[d].file
    BY <1>4, <2>4, <2>5 DEF Read
  <2>6. CASE ~form[d].file /\ form[d].size - p > Buffer
    <3>1. r.sent = Buffer /\ r.element = d /\ r.offset = p + Buffer
      BY <1>6, <2>6 DEF Read
    <3>2. Position(form, d, p + Buffer)
      BY <1>1, <1>4, <2>1, <2>2, <2>6 DEF Position
    <3>3. Left(form, s, d, p + Buffer) = Left(form, s, d, p) - Buffer
      BY <1>1, <1>4, <2>3 DEF Left
    <3> QED BY <1>1, <1>4, <1>6, <2>4, <2>6, <3>1, <3>2, <3>3
  <2>7. CASE ~form[d].file /\ ~(form[d].size - p > Buffer)
    <3>1. r.sent = form[d].size - p /\ r.element = d + 1 /\ r.offset = 0
      BY <1>6, <2>7 DEF Read
    <3>2. Position(form, d + 1, 0)
      <4>1. \A k \in 1..Len(form) : 0 \in 0..form[k].size - 1
        BY <1>1
      <4> QED BY <1>1, <2>1, <4>1 DEF Position
    <3>3. Left(form, s, d + 1, 0) = Left(form, s, d, p) - (form[d].size - p)
      <4>1. (d + 1) - 1 = d
        BY <2>1
      <4> QED BY <1>4, <2>2, <2>3, <4>1 DEF Left
    <3> QED BY <1>4, <1>6, <2>1, <2>2, <2>4, <2>7, <3>1, <3>2, <3>3
  <2> QED BY <2>5, <2>6, <2>7
<1> QED BY <1>5, <1>6

\* What ReadAll finds at d, p, in closed form
WholeRead(form, s, d, p) ==
  IF d > Len(form) \/ form[d].file THEN [sent |-> 0, element |-> d, offset |-> p]
  ELSE IF p = form[d].size THEN [sent |-> 0, element |-> d + 1, offset |-> 0]
  ELSE [sent |-> s[Stop(form, d) - 1] - s[d - 1] - p, element |-> Stop(form, d), offset |-> 0]

\* What a function has to satisfy to be the recursive one in ReadAll
ReadsOn(f, form) ==
  f = [at \in (1..Len(form) + 1) \X Nat |->
         LET r == Read(form, at[1], at[2]) IN
         IF r.sent = 0 THEN r
         ELSE LET more == f[<<r.element, r.offset>>] IN [more EXCEPT !.sent = @ + r.sent]]

LEMMA WholeReadGoesOn ==
  ASSUME NEW form \in FormType, NEW s, PartialSums(s, form, Len(form)),
         NEW d \in 1..Len(form) + 1, NEW p \in Nat, NEW r, r = Read(form, d, p)
  PROVE  /\ r.sent = 0 => WholeRead(form, s, d, p) = r
         /\ r.sent # 0 =>
              /\ <<r.element, r.offset>> \in (1..Len(form) + 1) \X Nat
              /\ WholeRead(form, s, d, p)
                   = LET more == WholeRead(form, s, r.element, r.offset)
                     IN  [more EXCEPT !.sent = @ + r.sent]
<1>1. /\ Len(form) \in Nat /\ Buffer \in Nat \ {0}
      /\ \A k \in 1..Len(form) : form[k].size \in Nat /\ form[k].size > 0
  BY FormElements, HttpAssumption
<1>2. \A k \in 1..Len(form) : s[k] = s[k - 1] + form[k].size /\ s[k] \in Nat /\ s[k - 1] \in Nat
  <2>1. \A k \in 1..Len(form) : k \in 0..Len(form) /\ k # 0 /\ k - 1 \in 0..Len(form)
    BY <1>1
  <2> QED BY <2>1, Zenon, SumsGrow DEF PartialSums
<1>3. CASE d > Len(form) \/ form[d].file
  BY <1>3 DEF Read, WholeRead
<1>4. CASE ~(d > Len(form) \/ form[d].file)
  <2>1. d \in 1..Len(form)
    BY <1>1, <1>4
  <2>2. /\ form[d].size \in Nat /\ form[d].size > 0 /\ s[d] = s[d - 1] + form[d].size
        /\ s[d] \in Nat /\ s[d - 1] \in Nat
    BY <1>1, <1>2, <2>1
  <2>3. /\ d + 1 \in 1..Len(form) + 1 /\ Stop(form, d) = Stop(form, d + 1)
        /\ Stop(form, d) \in d + 1..Len(form) + 1
    BY <1>4, StopFound
  <2>4. Stop(form, d) - 1 \in 0..Len(form)
    BY <1>1, <2>1, <2>3
  <2>5. s[Stop(form, d) - 1] \in Nat
    BY <2>4, SumsGrow
  <2>6. CASE form[d].size - p > Buffer
    <3>1. r = [sent |-> Buffer, element |-> d, offset |-> p + Buffer]
      BY <1>4, <2>6 DEF Read
    <3>2. p # form[d].size /\ p + Buffer # form[d].size /\ p + Buffer \in Nat
      BY <1>1, <2>2, <2>6
    <3>3. WholeRead(form, s, d, p)
            = [sent |-> s[Stop(form, d) - 1] - s[d - 1] - p, element |-> Stop(form, d),
               offset |-> 0]
      BY <1>4, <3>2 DEF WholeRead
    <3>4. WholeRead(form, s, d, p + Buffer)
            = [sent |-> s[Stop(form, d) - 1] - s[d - 1] - (p + Buffer),
               element |-> Stop(form, d), offset |-> 0]
      BY <1>4, <3>2 DEF WholeRead
    <3>5. s[Stop(form, d) - 1] - s[d - 1] - (p + Buffer) + Buffer
            = s[Stop(form, d) - 1] - s[d - 1] - p
      <4>1. \A a, b, n \in Nat : a - b - (p + n) + n = a - b - p
        OBVIOUS
      <4> QED BY <1>1, <2>2, <2>5, <4>1, Zenon
    <3> QED BY <1>1, <3>1, <3>2, <3>3, <3>4, <3>5
  <2>7. CASE ~(form[d].size - p > Buffer) /\ p = form[d].size
    <3>1. r = [sent |-> 0, element |-> d + 1, offset |-> 0]
      BY <1>4, <2>2, <2>7 DEF Read
    <3> QED BY <1>4, <2>7, <3>1 DEF WholeRead
  <2>8. CASE ~(form[d].size - p > Buffer) /\ p # form[d].size
    <3>1. r = [sent |-> form[d].size - p, element |-> d + 1, offset |-> 0]
      BY <1>4, <2>8 DEF Read
    <3>2. form[d].size - p # 0
      BY <2>2, <2>8
    <3>3. WholeRead(form, s, d, p)
            = [sent |-> s[Stop(form, d) - 1] - s[d - 1] - p, element |-> Stop(form, d),
               offset |-> 0]
      BY <1>4, <2>8 DEF WholeRead
    <3>4. WholeRead(form, s, d + 1, 0)
            = [sent |-> s[Stop(form, d) - 1] - s[d], element |-> Stop(form, d), offset |-> 0]
      <4>0. (d + 1) - 1 = d
        BY <2>1
      <4>1. CASE d + 1 > Len(form) \/ form[d + 1].file
        <5>1. Stop(form, d + 1) = d + 1
          BY <2>3, <4>1, StopFound
        <5>2. s[Stop(form, d) - 1] - s[d] = 0
          BY <2>2, <2>3, <4>0, <5>1
        <5> QED BY <2>3, <4>1, <5>1, <5>2 DEF WholeRead
      <4>2. CASE ~(d + 1 > Len(form) \/ form[d + 1].file)
        <5>1. 0 # form[d + 1].size
          BY <1>1, <2>3, <4>2
        <5>2. s[Stop(form, d) - 1] - s[d] - 0 = s[Stop(form, d) - 1] - s[d]
          BY <2>2, <2>5
        <5> QED BY <2>3, <4>0, <4>2, <5>1, <5>2 DEF WholeRead
      <4> QED BY <4>1, <4>2
    <3>5. s[Stop(form, d) - 1] - s[d] + (form[d].size - p) = s[Stop(form, d) - 1] - s[d - 1] - p
      <4> DEFINE a == s[Stop(form, d) - 1]
                 b == s[d]
                 c == s[d - 1]
                 n == form[d].size
      <4>1. a \in Nat /\ b \in Nat /\ c \in Nat /\ n \in Nat /\ b = c + n
        BY <2>2, <2>5
      <4> HIDE DEF a, b, c, n
      <4>2. a - b + (n - p) = a - c - p
        BY <4>1
      <4> QED BY <4>2 DEF a, b, c, n
    <3> QED BY <2>3, <3>1, <3>2, <3>3, <3>4, <3>5
  <2> QED BY <2>6, <2>7, <2>8
<1> QED BY <1>3, <1>4

LEMMA ReadsOnExists ==
  ASSUME NEW form \in FormType
  PROVE  \E f : ReadsOn(f, form)
<1>1. PICK s : PartialSums(s, form, Len(form))
  BY PartialSumsExist
<1> DEFINE D == (1..Len(form) + 1) \X Nat
           f == [at \in D |-> WholeRead(form, s, at[1], at[2])]
<1>2. ASSUME NEW at \in D
      PROVE  f[at] = LET r == Read(form, at[1], at[2]) IN
                     IF r.sent = 0 THEN r
                     ELSE LET more == f[<<r.element, r.offset>>] IN
                          [more EXCEPT !.sent = @ + r.sent]
  <2>1. PICK d \in 1..Len(form) + 1, p \in Nat : at = <<d, p>>
    OBVIOUS
  <2>2. at[1] = d /\ at[2] = p
    BY <2>1
  <2> DEFINE r == Read(form, d, p)
  <2>3. /\ r.sent = 0 => WholeRead(form, s, d, p) = r
        /\ r.sent # 0 =>
             /\ <<r.element, r.offset>> \in D
             /\ WholeRead(form, s, d, p)
                  = LET more == WholeRead(form, s, r.element, r.offset)
                    IN  [more EXCEPT !.sent = @ + r.sent]
    BY <1>1, WholeReadGoesOn
  <2>4. f[at] = WholeRead(form, s, d, p)
    BY <2>2
  <2>5. r.sent # 0 => f[<<r.element, r.offset>>] = WholeRead(form, s, r.element, r.offset)
    BY <2>3
  <2> HIDE DEF f, D, r
  <2>6. f[at] = IF r.sent = 0 THEN r
                ELSE LET more == f[<<r.element, r.offset>>] IN
                     [more EXCEPT !.sent = @ + r.sent]
    BY <2>3, <2>4, <2>5, Zenon
  <2> QED BY <2>2, <2>6, Zenon DEF r
<1>3. f = [at \in D |-> LET r == Read(form, at[1], at[2]) IN
                        IF r.sent = 0 THEN r
                        ELSE LET more == f[<<r.element, r.offset>>] IN
                             [more EXCEPT !.sent = @ + r.sent]]
  <2> DEFINE G(at) == LET r == Read(form, at[1], at[2]) IN
                      IF r.sent = 0 THEN r
                      ELSE LET more == f[<<r.element, r.offset>>] IN
                           [more EXCEPT !.sent = @ + r.sent]
  <2>1. \A at \in D : f[at] = G(at)
    BY <1>2
  <2>2. f = [at \in D |-> f[at]]
    OBVIOUS
  <2> HIDE DEF f, G, D
  <2>3. f = [at \in D |-> G(at)]
    BY <2>1, <2>2
  <2> QED BY <2>3 DEF G
<1> QED BY <1>3 DEF ReadsOn

LEMMA ReadAllReadsOn ==
  ASSUME NEW form \in FormType, NEW e, NEW o
  PROVE  \E f : ReadsOn(f, form) /\ ReadAll(form, e, o) = f[<<e, o>>]
<1> DEFINE f == CHOOSE f : f = [at \in (1..Len(form) + 1) \X Nat |->
                  LET r == Read(form, at[1], at[2]) IN
                  IF r.sent = 0 THEN r
                  ELSE LET more == f[<<r.element, r.offset>>]
                       IN  [more EXCEPT !.sent = @ + r.sent]]
<1>1. ReadAll(form, e, o) = f[<<e, o>>]
  BY DEF ReadAll
<1>2. ReadsOn(f, form)
  BY ReadsOnExists, Zenon DEF ReadsOn
<1> HIDE DEF f
<1> QED BY <1>1, <1>2

\* Any function that reads on as ReadAll does has the closed form, wherever
\* reading can have come to.
LEMMA ReadsOnValue ==
  ASSUME NEW form \in FormType, NEW s, PartialSums(s, form, Len(form)),
         NEW f, ReadsOn(f, form), NEW e, NEW o, Position(form, e, o)
  PROVE  f[<<e, o>>] = WholeRead(form, s, e, o) /\ f[<<e, o>>].sent \in Nat
<1>m. ASSUME NEW d, NEW p, Position(form, d, p), NEW r, r = Read(form, d, p)
      PROVE  /\ r.sent \in Nat
             /\ r.sent # 0 =>
                  /\ Position(form, r.element, r.offset)
                  /\ Left(form, s, r.element, r.offset) = Left(form, s, d, p) - r.sent
  BY <1>m, ReadMoves
<1>w. ASSUME NEW d \in 1..Len(form) + 1, NEW p \in Nat, NEW r, r = Read(form, d, p)
      PROVE  /\ r.sent = 0 => WholeRead(form, s, d, p) = r
             /\ r.sent # 0 =>
                  /\ <<r.element, r.offset>> \in (1..Len(form) + 1) \X Nat
                  /\ WholeRead(form, s, d, p)
                       = LET more == WholeRead(form, s, r.element, r.offset)
                         IN  [more EXCEPT !.sent = @ + r.sent]
  BY <1>w, WholeReadGoesOn
<1> DEFINE Good(d, p) == f[<<d, p>>] = WholeRead(form, s, d, p) /\ f[<<d, p>>].sent \in Nat
           T == {n \in Nat : \E d \in 1..Len(form) + 1, p \in Nat :
                   Position(form, d, p) /\ Left(form, s, d, p) = n /\ ~Good(d, p)}
<1>0. ASSUME NEW d \in 1..Len(form) + 1, NEW p \in Nat, NEW r, r = Read(form, d, p)
      PROVE  /\ r.sent = 0 => f[<<d, p>>] = r
             /\ r.sent # 0 =>
                  f[<<d, p>>] = LET more == f[<<r.element, r.offset>>]
                                IN  [more EXCEPT !.sent = @ + r.sent]
  <2>1. <<d, p>> \in (1..Len(form) + 1) \X Nat /\ <<d, p>>[1] = d /\ <<d, p>>[2] = p
    OBVIOUS
  <2> DEFINE D == (1..Len(form) + 1) \X Nat
             G(at) == LET q == Read(form, at[1], at[2]) IN
                      IF q.sent = 0 THEN q
                      ELSE LET more == f[<<q.element, q.offset>>] IN
                           [more EXCEPT !.sent = @ + q.sent]
  <2>2. f = [at \in D |-> G(at)]
    BY DEF ReadsOn
  <2> HIDE DEF G
  <2>3. f[<<d, p>>] = G(<<d, p>>)
    BY <2>1, <2>2
  <2>4. G(<<d, p>>) = IF r.sent = 0 THEN r
                      ELSE LET more == f[<<r.element, r.offset>>] IN
                           [more EXCEPT !.sent = @ + r.sent]
    BY <1>0, <2>1, Zenon DEF G
  <2> QED BY <2>3, <2>4
<1>1. T = {}
  <2> HIDE DEF Good
  <2> SUFFICES ASSUME T # {} PROVE FALSE
    OBVIOUS
  <2>1. T \in SUBSET Nat
    OBVIOUS
  <2> HIDE DEF T
  <2>2. PICK n \in T : \A m \in T : n <= m
    BY <2>1, Least
  <2>3. PICK d \in 1..Len(form) + 1, p \in Nat :
          n \in Nat /\ Position(form, d, p) /\ Left(form, s, d, p) = n /\ ~Good(d, p)
    BY DEF T
  <2> DEFINE r == Read(form, d, p)
  <2>5. /\ r.sent \in Nat
        /\ r.sent # 0 => /\ Position(form, r.element, r.offset)
                         /\ Left(form, s, r.element, r.offset) = n - r.sent
    BY <1>m, <2>3, Zenon
  <2>6. /\ r.sent = 0 => WholeRead(form, s, d, p) = r
        /\ r.sent # 0 => WholeRead(form, s, d, p)
                           = LET more == WholeRead(form, s, r.element, r.offset)
                             IN  [more EXCEPT !.sent = @ + r.sent]
    BY <1>w, Zenon
  <2>4. /\ r.sent = 0 => f[<<d, p>>] = r
        /\ r.sent # 0 => f[<<d, p>>] = LET more == f[<<r.element, r.offset>>]
                                       IN  [more EXCEPT !.sent = @ + r.sent]
    BY <1>0
  <2> HIDE DEF r
  <2>7. CASE r.sent = 0
    <3>1. f[<<d, p>>] = r
      BY <2>4, <2>7
    <3> QED BY <2>3, <2>5, <2>6, <2>7, <3>1, Zenon DEF Good
  <2>8. CASE r.sent # 0
    <3>1. /\ r.element \in 1..Len(form) + 1 /\ r.offset \in Nat
          /\ Left(form, s, r.element, r.offset) \in Nat
      BY <2>5, <2>8, ReadMoves
    <3>2. n - r.sent \in Nat /\ ~(n <= n - r.sent)
      BY <2>3, <2>5, <2>8, <3>1
    <3>3. Good(r.element, r.offset)
      BY <2>2, <2>5, <2>8, <3>1, <3>2, Zenon DEF T
    <3> DEFINE more == f[<<r.element, r.offset>>]
    <3>4. f[<<d, p>>] = [more EXCEPT !.sent = @ + r.sent]
      BY <2>4, <2>8
    <3>5. WholeRead(form, s, d, p) = [more EXCEPT !.sent = @ + r.sent]
      BY <2>6, <2>8, <3>3 DEF Good
    <3>6. more = WholeRead(form, s, r.element, r.offset) /\ more.sent \in Nat
      BY <3>3 DEF Good
    <3>7. [more EXCEPT !.sent = @ + r.sent].sent = more.sent + r.sent
      BY <3>6 DEF WholeRead
    <3>8. f[<<d, p>>].sent \in Nat
      BY <2>5, <3>4, <3>6, <3>7
    <3> QED BY <2>3, <3>4, <3>5, <3>8 DEF Good
  <2> QED BY <2>7, <2>8
<1>2. e \in 1..Len(form) + 1 /\ o \in Nat /\ Left(form, s, e, o) \in Nat
  BY ReadMoves
<1>3. Good(e, o)
  BY <1>1, <1>2
<1> QED BY <1>3

\* Connect's reading of a form ends at a place where it can go on; of a form
\* without files it reads all.
LEMMA ReadAllReads ==
  ASSUME NEW form \in FormType, NEW e, NEW o, Position(form, e, o),
         NEW r, r = ReadAll(form, e, o)
  PROVE  /\ r.sent \in Nat /\ r.element \in Nat /\ r.offset \in Nat
         /\ Position(form, r.element, r.offset)
         /\ e = 1 /\ o = 0 /\ (\A k \in 1..Len(form) : ~form[k].file) => r.sent = Total(form)
<1>1. PICK s : PartialSums(s, form, Len(form)) /\ Total(form) = s[Len(form)]
  BY TotalIsSum
<1>2. PICK f : ReadsOn(f, form) /\ r = f[<<e, o>>]
  BY ReadAllReadsOn
<1>3. r = WholeRead(form, s, e, o) /\ r.sent \in Nat
  BY <1>1, <1>2, ReadsOnValue
<1>4. /\ Len(form) \in Nat /\ \A k \in 1..Len(form) : form[k].size \in Nat /\ form[k].size > 0
  BY FormElements
<1>5. e \in 1..Len(form) + 1 /\ o \in Nat
  BY <1>4 DEF Position
<1>6. CASE e > Len(form) \/ form[e].file
  <2>1. r = [sent |-> 0, element |-> e, offset |-> o]
    BY <1>3, <1>6 DEF WholeRead
  <2>2. ASSUME e = 1, \A k \in 1..Len(form) : ~form[k].file PROVE Total(form) = 0
    <3>1. Len(form) = 0
      BY <1>4, <1>6, <2>2
    <3>2. 0 \in 0..0
      OBVIOUS
    <3> QED BY <1>1, <3>1, <3>2, Zenon DEF PartialSums
  <2> QED BY <1>3, <1>5, <2>1, <2>2
<1>7. CASE ~(e > Len(form) \/ form[e].file)
  <2>1. o # form[e].size
    BY <1>4, <1>5, <1>7 DEF Position
  <2>2. r = [sent |-> s[Stop(form, e) - 1] - s[e - 1] - o, element |-> Stop(form, e),
             offset |-> 0]
    BY <1>3, <1>7, <2>1 DEF WholeRead
  <2>3. /\ Stop(form, e) \in 1..Len(form) + 1
        /\ (\A k \in 1..Len(form) : ~form[k].file) => Stop(form, e) = Len(form) + 1
    BY <1>4, <1>5, StopFound
  <2>4. Position(form, Stop(form, e), 0)
    <3>1. \A k \in 1..Len(form) : 0 \in 0..form[k].size - 1
      BY <1>4
    <3>2. Stop(form, e) > Len(form) \/ Stop(form, e) \in 1..Len(form)
      BY <1>4, <2>3
    <3> QED BY <2>3, <3>1, <3>2 DEF Position
  <2>5. ASSUME e = 1, o = 0, \A k \in 1..Len(form) : ~form[k].file
        PROVE  r.sent = Total(form)
    <3>1. s[0] = 0
      <4>1. 0 \in 0..Len(form)
        BY <1>4
      <4> QED BY <1>1, <4>1, Zenon DEF PartialSums
    <3>2. s[Len(form)] \in Nat
      <4>1. 0 \in 0..Len(form)
        BY <1>4
      <4> QED BY <1>1, <4>1, SumsGrow
    <3>3. Stop(form, e) - 1 = Len(form) /\ e - 1 = 0
      BY <1>4, <2>3, <2>5
    <3>4. r.sent = s[Len(form)] - 0 - 0
      BY <2>2, <2>5, <3>1, <3>3
    <3> QED BY <1>1, <3>2, <3>4
  <2> QED BY <1>3, <2>2, <2>3, <2>4, <2>5
<1> QED BY <1>6, <1>7

-----------------------------------------------------------------------------
(* The inductive invariant.  RequestsMatch speaks of requests that were    *)
(* sent; the cookies and the server of one are settled before, when the    *)
(* job is made or a redirect is received.  PostWhole rests on what Connect *)
(* reads from the start of a form that nothing was read of yet.            *)

\* Where a handle and its job are, and what is known by then
Phases(load, job) ==
  /\ load.phase = "job" <=> job.state \in {"init", "connect", "transfer"}
  /\ load.phase = "asked" <=> job.state = "asked"
  /\ load.phase # "none" => load.url \in Url /\ load.method \in Method
  /\ job.state # "none" => /\ job.url \in Url /\ job.effective \in Url
                           /\ job.contact \in Server
  /\ job.challenged => job.realm \in Realm
  /\ job.state = "asked" => job.realm \in Realm
  /\ job.rx # "idle" => job.state \in {"transfer", "asked"}

\* What the next request, or the one under way, is
Requests(job) ==
  /\ job.rx \in {"idle", "queued"} => job.sends = 0
  /\ job.rx \in {"redirected", "sent"} => job.sends >= 1
  /\ job.rx = "redirected" => job.sends <= MaxRedirects
  /\ job.rx \in {"idle", "queued"} /\ job.state # "none" =>
       job.effective.server = job.contact /\ job.cookie.of = job.contact
  /\ job.rx \in {"redirected", "sent"} /\ job.regular => job.effective.server = job.contact
  /\ job.rx = "sent" /\ job.regular => job.cookie.of = job.contact

\* Nothing was read of a form that was not posted before the user was asked,
\* and all of one that was.
Posts(load, job) ==
  load.auth = << >> =>
    /\ load.phase \in {"queued", "job"} /\ job.rx = "idle" => load.element = 1 /\ load.offset = 0
    /\ /\ job.rx # "idle" /\ load.method = "POST"
       /\ \A i \in DOMAIN load.form : ~load.form[i].file
       => job.body = Total(load.form)

LoadInv(load, job) == Phases(load, job) /\ Requests(job) /\ Posts(load, job)

IInv == TypeOK /\ \A l \in Load : LoadInv(loads[l], jobs[l])

LEMMA InvImplies == IInv => RequestsMatch /\ PostWhole
BY DEF IInv, LoadInv, Requests, Posts, RequestsMatch, PostWhole

-----------------------------------------------------------------------------
(* Steps of one load *)

SavedType == [server : Server, dir : Dir, realm : Realm, answer : 1..answers]

\* Answers and cookies become more, and with them the types.
LEMMA TypesGrow ==
  ASSUME answers \in Nat, answers' \in Nat, answers <= answers',
         cookies \in Nat, cookies' \in Nat, cookies <= cookies'
  PROVE  /\ LoadType \subseteq LoadType' /\ JobType \subseteq JobType'
         /\ Seq(SavedType) \subseteq Seq(SavedType')
         /\ [Server -> 0..cookies] \subseteq [Server -> 0..cookies']
<1>1. 1..answers \subseteq 1..answers' /\ 0..cookies \subseteq 0..cookies'
  OBVIOUS
<1>2. Seq(1..answers) \subseteq Seq(1..answers')
  BY <1>1
<1>3. LoadType \subseteq LoadType'
  BY <1>2 DEF LoadType
<1>4. JobType \subseteq JobType'
  BY <1>1, <1>2 DEF JobType
<1>5. SavedType \subseteq SavedType'
  BY <1>1 DEF SavedType
<1>6. Seq(SavedType) \subseteq Seq(SavedType')
  BY <1>5
<1> QED BY <1>1, <1>3, <1>4, <1>6

LEMMA OneLoadChanges ==
  ASSUME IInv, NEW l \in Load,
         loads' = [loads EXCEPT ![l] = loads'[l]], jobs' = [jobs EXCEPT ![l] = jobs'[l]],
         loads'[l] \in LoadType', jobs'[l] \in JobType',
         Position(loads'[l].form, loads'[l].element, loads'[l].offset),
         LoadInv(loads'[l], jobs'[l]),
         saved' \in Seq(SavedType'), jar' \in [Server -> 0..cookies'],
         answers' \in answers..MaxAnswers, cookies' \in cookies..MaxCookies
  PROVE  IInv'
<1>1. /\ answers \in 0..MaxAnswers /\ cookies \in 0..MaxCookies
      /\ MaxAnswers \in Nat /\ MaxCookies \in Nat
  BY HttpAssumption DEF IInv, TypeOK
<1>2. answers' \in 0..MaxAnswers /\ cookies' \in 0..MaxCookies
  BY <1>1
<1>3. LoadType \subseteq LoadType' /\ JobType \subseteq JobType'
  BY <1>1, <1>2, TypesGrow
<1>4. loads \in [Load -> LoadType] /\ jobs \in [Load -> JobType]
  BY DEF IInv, TypeOK
<1>5. loads' \in [Load -> LoadType'] /\ jobs' \in [Load -> JobType']
  BY <1>3, <1>4
<1>6. ASSUME NEW k \in Load
      PROVE  /\ Position(loads'[k].form, loads'[k].element, loads'[k].offset)
             /\ (jobs'[k].state = "none") = (loads'[k].phase \notin {"job", "asked"})
             /\ LoadInv(loads'[k], jobs'[k])
  <2>1. CASE k = l
    BY <1>5, <2>1 DEF LoadInv, Phases, JobType
  <2>2. CASE k # l
    <3>1. loads'[k] = loads[k] /\ jobs'[k] = jobs[k]
      BY <1>4, <2>2
    <3> QED BY <3>1 DEF IInv, TypeOK
  <2> QED BY <2>1, <2>2
<1>7. saved' \in Seq([server : Server, dir : Dir, realm : Realm, answer : 1..answers'])
  BY DEF SavedType
<1>8. TypeOK'
  BY <1>2, <1>5, <1>6, <1>7 DEF TypeOK
<1> QED BY <1>6, <1>8 DEF IInv

LEMMA LoadFacts ==
  ASSUME IInv, NEW l \in Load
  PROVE  /\ loads \in [Load -> LoadType] /\ jobs \in [Load -> JobType]
         /\ loads[l] \in LoadType /\ jobs[l] \in JobType
         /\ loads[l].form \in FormType
         /\ Position(loads[l].form, loads[l].element, loads[l].offset)
         /\ LoadInv(loads[l], jobs[l])
         /\ saved \in Seq(SavedType) /\ jar \in [Server -> 0..cookies]
         /\ answers \in 0..MaxAnswers /\ cookies \in 0..MaxCookies
<1>1. loads \in [Load -> LoadType] /\ jobs \in [Load -> JobType]
  BY DEF IInv, TypeOK
<1>2. loads[l].form \in FormType
  <2>1. loads[l].form \in Form
    BY <1>1 DEF LoadType
  <2> QED BY <2>1, HttpAssumption DEF FormType
<1> QED BY <1>1, <1>2 DEF IInv, TypeOK, SavedType

\* A step that leaves the credentials and the counters alone
LEMMA OneLoadMoves ==
  ASSUME IInv, NEW l \in Load,
         loads' = [loads EXCEPT ![l] = loads'[l]], jobs' = [jobs EXCEPT ![l] = jobs'[l]],
         loads'[l] \in LoadType, jobs'[l] \in JobType,
         Position(loads'[l].form, loads'[l].element, loads'[l].offset),
         LoadInv(loads'[l], jobs'[l]),
         jar' \in [Server -> 0..cookies], UNCHANGED <<saved, answers, cookies>>
  PROVE  IInv'
<1>1. /\ answers \in 0..MaxAnswers /\ cookies \in 0..MaxCookies /\ saved \in Seq(SavedType)
      /\ MaxAnswers \in Nat /\ MaxCookies \in Nat
  BY LoadFacts, HttpAssumption
<1>2. answers' \in answers..MaxAnswers /\ cookies' \in cookies..MaxCookies
  BY <1>1
<1>3. LoadType' = LoadType /\ JobType' = JobType /\ SavedType' = SavedType
  BY DEF LoadType, JobType, SavedType
<1> QED BY <1>1, <1>2, <1>3, OneLoadChanges

\* What the steps make of a record is one of its type again.
LEMMA JobUpdates ==
  ASSUME NEW job \in JobType
  PROVE  /\ \A v \in {"connect", "transfer", "asked"} : [job EXCEPT !.state = v] \in JobType
         /\ \A v \in {"idle", "queued", "sent", "redirected", "answered"} :
              [job EXCEPT !.rx = v] \in JobType
         /\ \A v \in Nat : [job EXCEPT !.body = v] \in JobType
         /\ \A v \in 0..MaxRedirects + 1 : [job EXCEPT !.sends = v] \in JobType
         /\ \A v \in [of : Server \cup {"none"}, value : 0..cookies] :
              [job EXCEPT !.cookie = v] \in JobType
         /\ \A v \in Url : [job EXCEPT !.effective = v] \in JobType
         /\ \A v \in Server : [job EXCEPT !.contact = v] \in JobType
         /\ \A v \in BOOLEAN : [job EXCEPT !.regular = v] \in JobType
         /\ \A v \in 0..Interval : [job EXCEPT !.left = v] \in JobType
<1>1. \A v \in {"connect", "transfer", "asked"} : [job EXCEPT !.state = v] \in JobType
  BY DEF JobType
<1>2. \A v \in {"idle", "queued", "sent", "redirected", "answered"} :
        [job EXCEPT !.rx = v] \in JobType
  BY DEF JobType
<1>3. \A v \in Nat : [job EXCEPT !.body = v] \in JobType
  BY DEF JobType
<1>4. \A v \in 0..MaxRedirects + 1 : [job EXCEPT !.sends = v] \in JobType
  BY DEF JobType
<1>5. \A v \in [of : Server \cup {"none"}, value : 0..cookies] :
        [job EXCEPT !.cookie = v] \in JobType
  BY DEF JobType
<1>6. \A v \in Url : [job EXCEPT !.effective = v] \in JobType
  BY DEF JobType
<1>7. \A v \in Server : [job EXCEPT !.contact = v] \in JobType
  BY DEF JobType
<1>8. \A v \in BOOLEAN : [job EXCEPT !.regular = v] \in JobType
  BY DEF JobType
<1>9. \A v \in 0..Interval : [job EXCEPT !.left = v] \in JobType
  BY DEF JobType
<1> QED BY <1>1, <1>2, <1>3, <1>4, <1>5, <1>6, <1>7, <1>8, <1>9, Zenon

\* Values that a received header sets
LEMMA HeaderUpdates ==
  ASSUME NEW job \in JobType',
         NEW v \in 0..cookies', NEW realm \in Realm \cup {"none"}, NEW b \in BOOLEAN
  PROVE  /\ [job EXCEPT !.setCookie = v] \in JobType'
         /\ [job EXCEPT !.realm = realm] \in JobType'
         /\ [job EXCEPT !.challenged = b] \in JobType'
<1>1. [job EXCEPT !.setCookie = v] \in JobType'
  BY DEF JobType
<1>2. [job EXCEPT !.realm = realm] \in JobType'
  BY DEF JobType
<1>3. [job EXCEPT !.challenged = b] \in JobType'
  BY DEF JobType
<1> QED BY <1>1, <1>2, <1>3

LEMMA LoadUpdates ==
  ASSUME NEW load \in LoadType
  PROVE  /\ \A v \in {"queued", "job", "asked", "ended"} : [load EXCEPT !.phase = v] \in LoadType
         /\ \A v \in Url : [load EXCEPT !.url = v] \in LoadType
         /\ \A v \in Nat : [load EXCEPT !.element = v] \in LoadType
         /\ \A v \in Nat : [load EXCEPT !.offset = v] \in LoadType
         /\ \A v \in {Interval, Forever} : [load EXCEPT !.interval = v] \in LoadType
<1>1. \A v \in {"queued", "job", "asked", "ended"} : [load EXCEPT !.phase = v] \in LoadType
  BY DEF LoadType
<1>2. \A v \in Url : [load EXCEPT !.url = v] \in LoadType
  BY DEF LoadType
<1>3. \A v \in Nat : [load EXCEPT !.element = v] \in LoadType
  BY DEF LoadType
<1>4. \A v \in Nat : [load EXCEPT !.offset = v] \in LoadType
  BY DEF LoadType
<1>5. \A v \in {Interval, Forever} : [load EXCEPT !.interval = v] \in LoadType
  BY DEF LoadType
<1> QED BY <1>1, <1>2, <1>3, <1>4, <1>5, Zenon

LEMMA NoLoadTyped ==
  ASSUME cookies \in Nat
  PROVE  NoLoad \in LoadType /\ NoJob \in JobType
<1>1. << >> \in Seq(1..answers) /\ << >> \in Form
  BY HttpAssumption
<1>2. NoLoad \in LoadType
  BY <1>1 DEF NoLoad, LoadType
<1>3. 0 \in 0..cookies /\ 0 \in 0..MaxRedirects + 1 /\ Interval \in 0..Interval
  BY HttpAssumption
<1>4. NoJob \in JobType
  BY <1>1, <1>3 DEF NoJob, JobType
<1> QED BY <1>2, <1>4

-----------------------------------------------------------------------------
(* The actions *)

LEMMA StartStep ==
  ASSUME IInv, NEW l \in Load, Start(l)
  PROVE  IInv'
<1>1. PICK url \in Url, method \in Method, form \in Form :
        loads' = [loads EXCEPT ![l] = [NoLoad EXCEPT !.phase = "queued", !.url = url,
                                         !.method = method, !.form = form]]
  BY DEF Start
<1>2. /\ loads[l].phase = "none" /\ jobs' = jobs /\ UNCHANGED <<saved, jar, answers, cookies>>
  BY DEF Start
<1>3. /\ loads \in [Load -> LoadType] /\ jobs[l] \in JobType /\ LoadInv(loads[l], jobs[l])
      /\ jobs \in [Load -> JobType] /\ jar \in [Server -> 0..cookies] /\ cookies \in Nat
  BY LoadFacts
<1>4. PICK load : load = [NoLoad EXCEPT !.phase = "queued", !.url = url,
                                         !.method = method, !.form = form]
  OBVIOUS
<1>5. /\ loads'[l] = load /\ jobs'[l] = jobs[l]
      /\ loads' = [loads EXCEPT ![l] = loads'[l]] /\ jobs' = [jobs EXCEPT ![l] = jobs'[l]]
  BY <1>1, <1>2, <1>3, <1>4
<1>6. /\ load.phase = "queued" /\ load.url = url /\ load.method = method /\ load.form = form
      /\ load.element = 1 /\ load.offset = 0 /\ load.auth = << >>
  BY <1>4 DEF NoLoad
<1>7. load \in LoadType
  <2>1. << >> \in Seq(1..answers)
    OBVIOUS
  <2> QED BY <1>4, <2>1 DEF NoLoad, LoadType
<1>8. Position(load.form, load.element, load.offset)
  <2>1. form \in FormType
    BY HttpAssumption DEF FormType
  <2>2. Len(form) \in Nat /\ \A k \in 1..Len(form) : form[k].size \in Nat /\ form[k].size > 0
    BY <2>1, FormElements
  <2> QED BY <1>6, <2>2 DEF Position
<1>9. LoadInv(load, jobs[l])
  <2>1. jobs[l].state \in {"none", "init", "connect", "transfer", "asked"}
    BY <1>3 DEF JobType
  <2>2. jobs[l].state = "none" /\ jobs[l].rx = "idle"
    BY <1>2, <1>3, <2>1 DEF LoadInv, Phases
  <2> QED BY <1>3, <1>6, <2>2 DEF LoadInv, Phases, Requests, Posts
<1> QED BY <1>2, <1>3, <1>5, <1>7, <1>8, <1>9, OneLoadMoves

LEMMA EndStep ==
  ASSUME IInv, NEW l \in Load, End(l), jobs[l].state # "none",
         jar' \in [Server -> 0..cookies], UNCHANGED <<saved, answers, cookies>>
  PROVE  IInv'
<1>1. /\ loads \in [Load -> LoadType] /\ jobs \in [Load -> JobType] /\ cookies \in Nat
      /\ loads[l] \in LoadType /\ jobs[l] \in JobType /\ LoadInv(loads[l], jobs[l])
      /\ Position(loads[l].form, loads[l].element, loads[l].offset)
  BY LoadFacts
<1>2. /\ jobs'[l] = NoJob /\ loads'[l] = [loads[l] EXCEPT !.phase = "ended"]
      /\ jobs' = [jobs EXCEPT ![l] = jobs'[l]] /\ loads' = [loads EXCEPT ![l] = loads'[l]]
  BY <1>1 DEF End
<1>3. jobs'[l] \in JobType /\ loads'[l] \in LoadType
  BY <1>1, <1>2, NoLoadTyped, LoadUpdates
<1>4. /\ loads'[l].form = loads[l].form /\ loads'[l].element = loads[l].element
      /\ loads'[l].offset = loads[l].offset /\ loads'[l].phase = "ended"
      /\ loads'[l].url = loads[l].url /\ loads'[l].method = loads[l].method
  BY <1>1, <1>2 DEF LoadType
<1>5. /\ jobs'[l].state = "none" /\ jobs'[l].rx = "idle" /\ jobs'[l].sends = 0
      /\ ~jobs'[l].challenged
  BY <1>2 DEF NoJob
<1>6. loads[l].phase # "none"
  BY <1>1 DEF LoadInv, Phases, JobType
<1>7. LoadInv(loads'[l], jobs'[l])
  BY <1>1, <1>4, <1>5, <1>6 DEF LoadInv, Phases, Requests, Posts
<1> QED BY <1>1, <1>2, <1>3, <1>4, <1>7, OneLoadMoves

\* BeginAuthorization and End, for a step that sets the jar at most
LEMMA RemoveJobStep ==
  ASSUME IInv, NEW l \in Load, RemoveJob(l), jobs[l].state \in {"init", "connect", "transfer"},
         jar' \in [Server -> 0..cookies], UNCHANGED <<saved, answers, cookies>>
  PROVE  IInv'
<1>1. /\ loads \in [Load -> LoadType] /\ jobs \in [Load -> JobType]
      /\ loads[l] \in LoadType /\ jobs[l] \in JobType /\ LoadInv(loads[l], jobs[l])
      /\ Position(loads[l].form, loads[l].element, loads[l].offset)
  BY LoadFacts
<1>2. CASE jobs[l].challenged
  <2>1. /\ jobs' = [jobs EXCEPT ![l].state = "asked"]
        /\ loads' = [loads EXCEPT ![l].phase = "asked", ![l].interval = Forever]
    BY <1>2 DEF RemoveJob, BeginAuthorization
  <2>2. /\ jobs'[l] = [jobs[l] EXCEPT !.state = "asked"]
        /\ loads'[l] = [loads[l] EXCEPT !.phase = "asked", !.interval = Forever]
        /\ jobs' = [jobs EXCEPT ![l] = jobs'[l]] /\ loads' = [loads EXCEPT ![l] = loads'[l]]
    BY <1>1, <2>1
  <2>3. jobs'[l] \in JobType
    <3>1. \A v \in {"connect", "transfer", "asked"} : [jobs[l] EXCEPT !.state = v] \in JobType
      BY <1>1, JobUpdates, Zenon
    <3> QED BY <2>2, <3>1
  <2>4. loads'[l] \in LoadType
    <3>1. [loads[l] EXCEPT !.phase = "asked"] \in LoadType
      BY <1>1, LoadUpdates
    <3>2. [[loads[l] EXCEPT !.phase = "asked"] EXCEPT !.interval = Forever] \in LoadType
      BY <3>1, LoadUpdates
    <3> QED BY <2>2, <3>2
  <2>5. /\ loads'[l].form = loads[l].form /\ loads'[l].element = loads[l].element
        /\ loads'[l].offset = loads[l].offset /\ loads'[l].phase = "asked"
        /\ loads'[l].url = loads[l].url /\ loads'[l].method = loads[l].method
        /\ loads'[l].auth = loads[l].auth
    BY <1>1, <2>2 DEF LoadType
  <2>6. /\ jobs'[l].state = "asked" /\ jobs'[l].rx = jobs[l].rx
        /\ jobs'[l].sends = jobs[l].sends /\ jobs'[l].challenged = jobs[l].challenged
        /\ jobs'[l].realm = jobs[l].realm /\ jobs'[l].url = jobs[l].url
        /\ jobs'[l].effective = jobs[l].effective /\ jobs'[l].contact = jobs[l].contact
        /\ jobs'[l].cookie = jobs[l].cookie /\ jobs'[l].regular = jobs[l].regular
        /\ jobs'[l].body = jobs[l].body
    BY <1>1, <2>2 DEF JobType
  <2>7. loads[l].phase # "none"
    BY <1>1 DEF LoadInv, Phases
  <2>8. Phases(loads'[l], jobs'[l])
    BY <1>1, <1>2, <2>5, <2>6, <2>7 DEF LoadInv, Phases
  <2>9. Requests(jobs'[l])
    BY <1>1, <2>6 DEF LoadInv, Requests
  <2>10. Posts(loads'[l], jobs'[l])
    BY <1>1, <2>5, <2>6 DEF LoadInv, Posts
  <2> QED BY <1>1, <2>2, <2>3, <2>4, <2>5, <2>8, <2>9, <2>10, OneLoadMoves DEF LoadInv
<1>3. CASE ~jobs[l].challenged
  <2>1. End(l)
    BY <1>3 DEF RemoveJob
  <2> QED BY <2>1, EndStep
<1> QED BY <1>2, <1>3

LEMMA AddTHJobStep ==
  ASSUME IInv, NEW l \in Load, AddTHJob(l)
  PROVE  IInv'
<1>1. /\ loads \in [Load -> LoadType] /\ jobs \in [Load -> JobType] /\ cookies \in Nat
      /\ loads[l] \in LoadType /\ jobs[l] \in JobType /\ LoadInv(loads[l], jobs[l])
      /\ Position(loads[l].form, loads[l].element, loads[l].offset)
      /\ saved \in Seq(SavedType) /\ jar \in [Server -> 0..cookies]
  BY LoadFacts
<1> DEFINE url  == loads[l].url
           auth == ProvideCredentialsHeader(url, loads[l].auth)
<1>2. PICK job : job = [NoJob EXCEPT !.state = "init", !.url = url, !.effective = url,
          !.contact = url.server, !.auth = auth,
          !.cookie = [of |-> url.server, value |-> jar[url.server]],
          !.interval = loads[l].interval, !.left = loads[l].interval]
  OBVIOUS
<1>3. /\ loads[l].phase = "queued" /\ loads' = [loads EXCEPT ![l].phase = "job"]
      /\ jobs' = [jobs EXCEPT ![l] = job] /\ UNCHANGED <<saved, jar, answers, cookies>>
  BY <1>2 DEF AddTHJob
<1>4. /\ jobs'[l] = job /\ loads'[l] = [loads[l] EXCEPT !.phase = "job"]
      /\ jobs' = [jobs EXCEPT ![l] = jobs'[l]] /\ loads' = [loads EXCEPT ![l] = loads'[l]]
  BY <1>1, <1>3
<1>5. url \in Url /\ loads[l].method \in Method /\ url.server \in Server
  BY <1>1, <1>3 DEF LoadInv, Phases, Url
<1>6. auth \in Seq(1..answers)
  <2>1. CASE Matching(url) = {}
    BY <1>1, <2>1 DEF ProvideCredentialsHeader, LoadType
  <2>2. CASE Matching(url) # {}
    <3>1. Matching(url) \in SUBSET Nat /\ Matching(url) \subseteq DOMAIN saved
      BY <1>1 DEF Matching
    <3>2. \E n \in Matching(url) : \A m \in Matching(url) : n <= m
      BY <2>2, <3>1, Least
    <3>3. Min(Matching(url)) \in Matching(url)
      BY <3>2, Zenon DEF Min
    <3>4. saved[Min(Matching(url))] \in SavedType
      BY <1>1, <3>1, <3>3
    <3>5. saved[Min(Matching(url))].answer \in 1..answers
      BY <3>4 DEF SavedType
    <3>6. auth = <<saved[Min(Matching(url))].answer>>
      BY <2>2 DEF ProvideCredentialsHeader
    <3>7. \A x \in 1..answers : <<x>> \in Seq(1..answers)
      OBVIOUS
    <3> QED BY <3>5, <3>6, <3>7, Zenon
  <2> QED BY <2>1, <2>2
<1>7. [of |-> url.server, value |-> jar[url.server]] \in [of : Server \cup {"none"}, value : 0..cookies]
  BY <1>1, <1>5
<1>8. loads[l].interval \in {Interval, Forever}
  BY <1>1 DEF LoadType
<1> HIDE DEF url, auth
<1>9. job \in JobType
  <2>1. 0 \in 0..cookies /\ 0 \in 0..MaxRedirects + 1 /\ Interval \in 0..Interval
    BY <1>1, HttpAssumption
  <2> QED BY <1>2, <1>5, <1>6, <1>7, <1>8, <2>1 DEF NoJob, JobType
<1>10. /\ job.state = "init" /\ job.url = url /\ job.effective = url /\ job.contact = url.server
       /\ job.rx = "idle" /\ job.sends = 0 /\ ~job.challenged /\ job.cookie.of = url.server
  BY <1>2 DEF NoJob
<1>11. loads'[l] \in LoadType
  BY <1>1, <1>4, LoadUpdates
<1>12. /\ loads'[l].form = loads[l].form /\ loads'[l].element = loads[l].element
       /\ loads'[l].offset = loads[l].offset /\ loads'[l].phase = "job"
       /\ loads'[l].url = loads[l].url /\ loads'[l].method = loads[l].method
       /\ loads'[l].auth = loads[l].auth
  BY <1>1, <1>4 DEF LoadType
<1>13. jobs[l].rx = "idle"
  BY <1>1, <1>3 DEF LoadInv, Phases
<1>14. LoadInv(loads'[l], jobs'[l])
  <2>1. Phases(loads'[l], job)
    BY <1>5, <1>10, <1>12 DEF Phases, url
  <2>2. Requests(job)
    BY <1>10 DEF Requests
  <2>3. Posts(loads'[l], job)
    BY <1>1, <1>3, <1>10, <1>12, <1>13 DEF Posts, LoadInv
  <2> QED BY <1>4, <2>1, <2>2, <2>3 DEF LoadInv
<1> QED BY <1>1, <1>3, <1>4, <1>9, <1>11, <1>12, <1>14, OneLoadMoves

LEMMA InitJobStep ==
  ASSUME IInv, NEW l \in Load, InitJob(l)
  PROVE  IInv'
<1>1. /\ loads \in [Load -> LoadType] /\ jobs \in [Load -> JobType]
      /\ loads[l] \in LoadType /\ jobs[l] \in JobType /\ LoadInv(loads[l], jobs[l])
      /\ Position(loads[l].form, loads[l].element, loads[l].offset)
      /\ jar \in [Server -> 0..cookies]
  BY LoadFacts
<1>2. CASE jobs' = [jobs EXCEPT ![l].state = "connect"] /\ loads' = loads
  <2>1. /\ jobs'[l] = [jobs[l] EXCEPT !.state = "connect"] /\ loads'[l] = loads[l]
        /\ jobs' = [jobs EXCEPT ![l] = jobs'[l]] /\ loads' = [loads EXCEPT ![l] = loads'[l]]
    BY <1>1, <1>2
  <2>2. jobs'[l] \in JobType
    <3>1. \A v \in {"connect", "transfer", "asked"} : [jobs[l] EXCEPT !.state = v] \in JobType
      BY <1>1, JobUpdates, Zenon
    <3> QED BY <2>1, <3>1
  <2>3. /\ jobs'[l].state = "connect" /\ jobs'[l].rx = jobs[l].rx
        /\ jobs'[l].sends = jobs[l].sends /\ jobs'[l].challenged = jobs[l].challenged
        /\ jobs'[l].realm = jobs[l].realm /\ jobs'[l].url = jobs[l].url
        /\ jobs'[l].effective = jobs[l].effective /\ jobs'[l].contact = jobs[l].contact
        /\ jobs'[l].cookie = jobs[l].cookie /\ jobs'[l].regular = jobs[l].regular
        /\ jobs'[l].body = jobs[l].body
    BY <1>1, <2>1 DEF JobType
  <2>4. jobs[l].state = "init" /\ UNCHANGED <<saved, jar, answers, cookies>>
    BY DEF InitJob
  <2>5. Phases(loads[l], jobs'[l])
    BY <1>1, <2>3, <2>4 DEF LoadInv, Phases
  <2>6. Requests(jobs'[l])
    BY <1>1, <2>3, <2>4 DEF LoadInv, Requests
  <2>7. Posts(loads[l], jobs'[l])
    BY <1>1, <2>3 DEF LoadInv, Posts
  <2> QED BY <1>1, <2>1, <2>2, <2>4, <2>5, <2>6, <2>7, OneLoadMoves DEF LoadInv
<1>3. CASE RemoveJob(l)
  BY <1>1, <1>3, RemoveJobStep DEF InitJob
<1> QED BY <1>2, <1>3 DEF InitJob

\* A request is handed over; body is what was read for it.
LEMMA ConnectGoes ==
  ASSUME IInv, NEW l \in Load, jobs[l].state = "connect",
         NEW rx \in {"idle", "queued"}, NEW body \in Nat,
         jobs' = [jobs EXCEPT ![l].state = "transfer", ![l].rx = rx, ![l].body = body],
         loads' = [loads EXCEPT ![l] = loads'[l]], loads'[l] \in LoadType,
         Position(loads'[l].form, loads'[l].element, loads'[l].offset),
         loads'[l].phase = loads[l].phase, loads'[l].url = loads[l].url,
         loads'[l].method = loads[l].method, loads'[l].auth = loads[l].auth,
         rx = "idle" => loads'[l].element = loads[l].element /\ loads'[l].offset = loads[l].offset,
         /\ rx = "queued" /\ loads[l].auth = << >> /\ loads[l].method = "POST"
         /\ \A i \in DOMAIN loads'[l].form : ~loads'[l].form[i].file
         => body = Total(loads'[l].form),
         UNCHANGED <<saved, jar, answers, cookies>>
  PROVE  IInv'
<1>1. /\ loads \in [Load -> LoadType] /\ jobs \in [Load -> JobType]
      /\ loads[l] \in LoadType /\ jobs[l] \in JobType /\ LoadInv(loads[l], jobs[l])
      /\ jar \in [Server -> 0..cookies]
  BY LoadFacts
<1>2. /\ jobs'[l] = [jobs[l] EXCEPT !.state = "transfer", !.rx = rx, !.body = body]
      /\ jobs' = [jobs EXCEPT ![l] = jobs'[l]]
  BY <1>1
<1>3. jobs'[l] \in JobType
  <2>1. [jobs[l] EXCEPT !.state = "transfer"] \in JobType
    <3>1. \A v \in {"connect", "transfer", "asked"} : [jobs[l] EXCEPT !.state = v] \in JobType
      BY <1>1, JobUpdates, Zenon
    <3> QED BY <3>1
  <2>2. PICK j1 : j1 = [jobs[l] EXCEPT !.state = "transfer"]
    OBVIOUS
  <2>3. [j1 EXCEPT !.rx = rx] \in JobType
    <3>1. \A v \in {"idle", "queued", "sent", "redirected", "answered"} :
            [j1 EXCEPT !.rx = v] \in JobType
      BY <2>1, <2>2, JobUpdates, Zenon
    <3> QED BY <3>1
  <2>4. PICK j2 : j2 = [j1 EXCEPT !.rx = rx]
    OBVIOUS
  <2>5. [j2 EXCEPT !.body = body] \in JobType
    BY <2>3, <2>4, JobUpdates, Zenon
  <2> QED BY <1>2, <2>2, <2>4, <2>5
<1>4. /\ jobs'[l].state = "transfer" /\ jobs'[l].rx = rx
      /\ jobs'[l].sends = jobs[l].sends /\ jobs'[l].challenged = jobs[l].challenged
      /\ jobs'[l].realm = jobs[l].realm /\ jobs'[l].url = jobs[l].url
      /\ jobs'[l].effective = jobs[l].effective /\ jobs'[l].contact = jobs[l].contact
      /\ jobs'[l].cookie = jobs[l].cookie /\ jobs'[l].regular = jobs[l].regular
      /\ jobs'[l].body = body
  BY <1>1, <1>2 DEF JobType
<1>5. jobs[l].rx = "idle" /\ loads[l].phase = "job"
  BY <1>1 DEF LoadInv, Phases
<1>6. Phases(loads'[l], jobs'[l])
  BY <1>1, <1>4 DEF LoadInv, Phases
<1>7. Requests(jobs'[l])
  BY <1>1, <1>4, <1>5 DEF LoadInv, Requests
<1>8. Posts(loads'[l], jobs'[l])
  BY <1>1, <1>4, <1>5 DEF LoadInv, Posts
<1> QED BY <1>1, <1>2, <1>3, <1>6, <1>7, <1>8, OneLoadMoves DEF LoadInv

LEMMA ConnectStep ==
  ASSUME IInv, NEW l \in Load, Connect(l)
  PROVE  IInv'
<1>1. /\ loads \in [Load -> LoadType] /\ jobs \in [Load -> JobType]
      /\ loads[l] \in LoadType /\ jobs[l] \in JobType /\ LoadInv(loads[l], jobs[l])
      /\ Position(loads[l].form, loads[l].element, loads[l].offset)
      /\ jar \in [Server -> 0..cookies] /\ loads[l].form \in FormType
  BY LoadFacts
<1>2. jobs[l].state = "connect" /\ UNCHANGED <<saved, jar, answers, cookies>>
  BY DEF Connect
<1> DEFINE Go(rx, body) ==
      jobs' = [jobs EXCEPT ![l].state = "transfer", ![l].rx = rx, ![l].body = body]
<1>3. CASE loads' = loads /\ (Go("idle", 0) \/ (loads[l].method = "GET" /\ Go("queued", 0)))
  <2>1. /\ loads'[l] = loads[l] /\ loads' = [loads EXCEPT ![l] = loads'[l]]
        /\ loads'[l] \in LoadType
        /\ Position(loads'[l].form, loads'[l].element, loads'[l].offset)
    BY <1>1, <1>3
  <2>2. CASE Go("idle", 0)
    BY <1>2, <2>1, <2>2, ConnectGoes
  <2>3. CASE loads[l].method = "GET" /\ Go("queued", 0)
    BY <1>2, <2>1, <2>3, ConnectGoes
  <2> QED BY <1>3, <2>2, <2>3
<1> DEFINE read == ReadAll(loads[l].form, loads[l].element, loads[l].offset)
<1>4. CASE /\ loads[l].method = "POST" /\ Go("queued", read.sent)
           /\ loads' = [loads EXCEPT ![l].element = read.element, ![l].offset = read.offset]
  <2>1. /\ read.sent \in Nat /\ read.element \in Nat /\ read.offset \in Nat
        /\ Position(loads[l].form, read.element, read.offset)
        /\ loads[l].element = 1 /\ loads[l].offset = 0
             /\ (\A k \in 1..Len(loads[l].form) : ~loads[l].form[k].file)
             => read.sent = Total(loads[l].form)
    BY <1>1, ReadAllReads
  <2> HIDE DEF read
  <2>2. /\ loads'[l] = [loads[l] EXCEPT !.element = read.element, !.offset = read.offset]
        /\ loads' = [loads EXCEPT ![l] = loads'[l]]
    BY <1>1, <1>4
  <2>3. loads'[l] \in LoadType
    <3>1. [loads[l] EXCEPT !.element = read.element] \in LoadType
      BY <1>1, <2>1, LoadUpdates
    <3>2. [[loads[l] EXCEPT !.element = read.element] EXCEPT !.offset = read.offset] \in LoadType
      BY <2>1, <3>1, LoadUpdates
    <3> QED BY <2>2, <3>2
  <2>4. /\ loads'[l].form = loads[l].form /\ loads'[l].element = read.element
        /\ loads'[l].offset = read.offset /\ loads'[l].phase = loads[l].phase
        /\ loads'[l].url = loads[l].url /\ loads'[l].method = loads[l].method
        /\ loads'[l].auth = loads[l].auth
    BY <1>1, <2>2 DEF LoadType
  <2>5. loads[l].auth = << >> => loads[l].element = 1 /\ loads[l].offset = 0
    BY <1>1, <1>2 DEF LoadInv, Phases, Posts
  <2>6. DOMAIN loads[l].form = 1..Len(loads[l].form)
    BY <1>1 DEF FormType
  <2>7. loads[l].auth = << >> /\ (\A i \in DOMAIN loads'[l].form : ~loads'[l].form[i].file)
        => read.sent = Total(loads'[l].form)
    BY <2>1, <2>4, <2>5, <2>6
  <2> QED BY <1>2, <1>4, <2>1, <2>2, <2>3, <2>4, <2>7, ConnectGoes
<1>5. CASE RemoveJob(l)
  BY <1>1, <1>2, <1>5, RemoveJobStep
<1>6. \/ loads[l].method = "GET" /\ Go("queued", 0) /\ loads' = loads
      \/ /\ loads[l].method = "POST" /\ Go("queued", read.sent)
         /\ loads' = [loads EXCEPT ![l].element = read.element, ![l].offset = read.offset]
      \/ RemoveJob(l)
      \/ Go("idle", 0) /\ loads' = loads
  BY Zenon DEF Connect
<1> HIDE DEF Go, read
<1> QED BY <1>3, <1>4, <1>5, <1>6, Zenon

LEMMA SendHeaderStep ==
  ASSUME IInv, NEW l \in Load, SendHeader(l)
  PROVE  IInv'
<1>1. /\ loads \in [Load -> LoadType] /\ jobs \in [Load -> JobType]
      /\ loads[l] \in LoadType /\ jobs[l] \in JobType /\ LoadInv(loads[l], jobs[l])
      /\ Position(loads[l].form, loads[l].element, loads[l].offset)
      /\ jar \in [Server -> 0..cookies] /\ cookies \in Nat
  BY LoadFacts
<1>2. /\ jobs[l].state = "transfer" /\ jobs[l].rx \in {"queued", "redirected"}
      /\ UNCHANGED <<loads, saved, jar, answers, cookies>>
      /\ jobs' = [jobs EXCEPT ![l].rx = "sent", ![l].sends = @ + 1,
                              ![l].cookie = CookieSent(jobs[l])]
  BY DEF SendHeader
<1> DEFINE cookie == CookieSent(jobs[l])
<1>3. jobs[l].effective \in Url /\ jobs[l].effective.server \in Server
  BY <1>1, <1>2 DEF LoadInv, Phases, Url
<1>4. cookie \in [of : Server \cup {"none"}, value : 0..cookies]
  BY <1>1, <1>3 DEF CookieSent, JobType
<1>5. /\ jobs[l].sends \in Nat /\ MaxRedirects \in Nat
      /\ jobs[l].sends <= MaxRedirects /\ jobs[l].sends + 1 \in 0..MaxRedirects + 1
  <2>1. jobs[l].sends \in Nat /\ MaxRedirects \in Nat
    BY <1>1, HttpAssumption DEF JobType
  <2>2. jobs[l].sends <= MaxRedirects
    BY <1>1, <1>2, <2>1 DEF LoadInv, Requests
  <2> QED BY <2>1, <2>2
<1>6. jobs[l].regular => cookie.of = jobs[l].contact /\ jobs[l].effective.server = jobs[l].contact
  <2>1. CASE jobs[l].sends = 0
    <3>1. cookie = jobs[l].cookie
      BY <2>1 DEF CookieSent
    <3>2. jobs[l].rx = "queued"
      BY <1>1, <1>2, <2>1 DEF LoadInv, Requests
    <3> QED BY <1>1, <1>2, <3>1, <3>2 DEF LoadInv, Requests
  <2>2. CASE jobs[l].sends # 0
    <3>1. cookie.of = jobs[l].effective.server
      BY <2>2 DEF CookieSent
    <3>2. jobs[l].rx = "redirected"
      BY <1>1, <1>2, <2>2 DEF LoadInv, Requests
    <3> QED BY <1>1, <1>2, <3>1, <3>2 DEF LoadInv, Requests
  <2> QED BY <2>1, <2>2
<1> HIDE DEF cookie
<1>7. /\ jobs'[l] = [jobs[l] EXCEPT !.rx = "sent", !.sends = jobs[l].sends + 1, !.cookie = cookie]
      /\ jobs' = [jobs EXCEPT ![l] = jobs'[l]] /\ loads'[l] = loads[l]
      /\ loads' = [loads EXCEPT ![l] = loads'[l]]
  BY <1>1, <1>2 DEF cookie
<1>8. jobs'[l] \in JobType
  <2>1. PICK j1 : j1 = [jobs[l] EXCEPT !.rx = "sent"]
    OBVIOUS
  <2>2. j1 \in JobType
    <3>1. \A v \in {"idle", "queued", "sent", "redirected", "answered"} :
            [jobs[l] EXCEPT !.rx = v] \in JobType
      BY <1>1, JobUpdates, Zenon
    <3> QED BY <2>1, <3>1
  <2>3. PICK j2 : j2 = [j1 EXCEPT !.sends = jobs[l].sends + 1]
    OBVIOUS
  <2>4. j2 \in JobType
    BY <1>5, <2>2, <2>3, JobUpdates, Zenon
  <2>5. [j2 EXCEPT !.cookie = cookie] \in JobType
    BY <1>4, <2>4, JobUpdates, Zenon
  <2> QED BY <1>7, <2>1, <2>3, <2>5
<1>9. /\ jobs'[l].state = jobs[l].state /\ jobs'[l].rx = "sent"
      /\ jobs'[l].sends = jobs[l].sends + 1 /\ jobs'[l].challenged = jobs[l].challenged
      /\ jobs'[l].realm = jobs[l].realm /\ jobs'[l].url = jobs[l].url
      /\ jobs'[l].effective = jobs[l].effective /\ jobs'[l].contact = jobs[l].contact
      /\ jobs'[l].cookie = cookie /\ jobs'[l].regular = jobs[l].regular
      /\ jobs'[l].body = jobs[l].body
  BY <1>1, <1>7 DEF JobType
<1>10. Phases(loads[l], jobs'[l])
  BY <1>1, <1>2, <1>9 DEF LoadInv, Phases
<1>11. Requests(jobs'[l])
  BY <1>5, <1>6, <1>9 DEF Requests
<1>12. Posts(loads[l], jobs'[l])
  BY <1>1, <1>2, <1>9 DEF LoadInv, Posts
<1> QED BY <1>1, <1>2, <1>7, <1>8, <1>10, <1>11, <1>12, OneLoadMoves DEF LoadInv

\* A cookie that a server may set is known to the jar under its number.
LEMMA CookieSet ==
  ASSUME IInv, NEW value \in 0..cookies + 1, MaySetCookie(value),
         NEW url \in Url, CookiesReceived(url, value)
  PROVE  /\ cookies' \in cookies..MaxCookies /\ value \in 0..cookies' /\ cookies \in Nat
         /\ jar' \in [Server -> 0..cookies']
<1>1. /\ cookies \in 0..MaxCookies /\ MaxCookies \in Nat /\ jar \in [Server -> 0..cookies]
  BY HttpAssumption DEF IInv, TypeOK
<1>2. cookies' \in cookies..MaxCookies /\ value \in 0..cookies'
  BY <1>1 DEF MaySetCookie
<1>3. \A s \in Server : jar[s] \in 0..cookies'
  BY <1>1, <1>2
<1>4. jar' \in [Server -> 0..cookies']
  BY <1>1, <1>2, <1>3 DEF CookiesReceived
<1> QED BY <1>1, <1>2, <1>4

LEMMA RecvRedirectStep ==
  ASSUME IInv, NEW l \in Load, RecvRedirect(l)
  PROVE  IInv'
<1>1. /\ loads \in [Load -> LoadType] /\ jobs \in [Load -> JobType]
      /\ loads[l] \in LoadType /\ jobs[l] \in JobType /\ LoadInv(loads[l], jobs[l])
      /\ Position(loads[l].form, loads[l].element, loads[l].offset)
      /\ saved \in Seq(SavedType) /\ answers \in 0..MaxAnswers /\ MaxAnswers \in Nat
  BY LoadFacts, HttpAssumption
<1>2. PICK url \in Url, relative \in BOOLEAN, value \in 0..cookies + 1 :
        LET effective == Location(jobs[l], url, relative) IN
        /\ relative => url.server = jobs[l].contact
        /\ MaySetCookie(value)
        /\ CookiesReceived(effective, value)
        /\ loads' = [loads EXCEPT ![l].url = effective]
        /\ jobs' = [jobs EXCEPT ![l].rx = "redirected", ![l].effective = effective,
                                ![l].contact = url.server, ![l].setCookie = value,
                                ![l].regular = @ /\ (relative => jobs[l].contact = jobs[l].url.server)]
  BY DEF RecvRedirect
<1>3. /\ jobs[l].state = "transfer" /\ jobs[l].rx = "sent" /\ jobs[l].sends <= MaxRedirects
      /\ UNCHANGED <<saved, answers>>
  BY DEF RecvRedirect
<1>4. /\ jobs[l].url \in Url /\ jobs[l].url.server \in Server /\ url.server \in Server
  BY <1>1, <1>3 DEF LoadInv, Phases, Url
<1>5. PICK effective : effective = Location(jobs[l], url, relative)
  OBVIOUS
<1>6. /\ effective \in Url
      /\ relative => effective.server = jobs[l].url.server
      /\ ~relative => effective.server = url.server
  BY <1>4, <1>5 DEF Location, Url
<1>7. PICK regular \in BOOLEAN :
        regular = (jobs[l].regular /\ (relative => jobs[l].contact = jobs[l].url.server))
  OBVIOUS
<1>8. regular => effective.server = url.server
  BY <1>2, <1>6, <1>7
<1>9. /\ cookies' \in cookies..MaxCookies /\ value \in 0..cookies' /\ cookies \in Nat
      /\ jar' \in [Server -> 0..cookies']
  BY <1>2, <1>5, <1>6, CookieSet
<1>10. LoadType \subseteq LoadType' /\ JobType \subseteq JobType' /\ SavedType' = SavedType
  BY <1>1, <1>3, <1>9, TypesGrow DEF SavedType
<1>11. /\ loads' = [loads EXCEPT ![l].url = effective]
       /\ jobs' = [jobs EXCEPT ![l].rx = "redirected", ![l].effective = effective,
                               ![l].contact = url.server, ![l].setCookie = value,
                               ![l].regular = regular]
  BY <1>2, <1>5, <1>7
<1>12. /\ jobs'[l] = [jobs[l] EXCEPT !.rx = "redirected", !.effective = effective,
                         !.contact = url.server, !.setCookie = value, !.regular = regular]
       /\ loads'[l] = [loads[l] EXCEPT !.url = effective]
       /\ jobs' = [jobs EXCEPT ![l] = jobs'[l]] /\ loads' = [loads EXCEPT ![l] = loads'[l]]
  BY <1>1, <1>11
<1>13. loads'[l] \in LoadType'
  BY <1>1, <1>6, <1>10, <1>12, LoadUpdates
<1>14. jobs'[l] \in JobType'
  <2>1. PICK j1 : j1 = [jobs[l] EXCEPT !.rx = "redirected"]
    OBVIOUS
  <2>2. j1 \in JobType
    <3>1. \A v \in {"idle", "queued", "sent", "redirected", "answered"} :
            [jobs[l] EXCEPT !.rx = v] \in JobType
      BY <1>1, JobUpdates, Zenon
    <3> QED BY <2>1, <3>1
  <2>3. PICK j2 : j2 = [j1 EXCEPT !.effective = effective]
    OBVIOUS
  <2>4. j2 \in JobType
    BY <1>6, <2>2, <2>3, JobUpdates, Zenon
  <2>5. PICK j3 : j3 = [j2 EXCEPT !.contact = url.server]
    OBVIOUS
  <2>6. j3 \in JobType
    BY <1>4, <2>4, <2>5, JobUpdates, Zenon
  <2>7. PICK j4 : j4 = [j3 EXCEPT !.regular = regular]
    OBVIOUS
  <2>8. j4 \in JobType
    BY <2>6, <2>7, JobUpdates, Zenon
  <2>9. [j4 EXCEPT !.setCookie = value] \in JobType'
    BY <1>9, <1>10, <2>8, HeaderUpdates
  <2>10. jobs'[l] = [j4 EXCEPT !.setCookie = value]
    BY <1>1, <1>12, <2>1, <2>3, <2>5, <2>7 DEF JobType
  <2> QED BY <2>9, <2>10
<1>15. /\ jobs'[l].state = jobs[l].state /\ jobs'[l].rx = "redirected"
       /\ jobs'[l].sends = jobs[l].sends /\ jobs'[l].challenged = jobs[l].challenged
       /\ jobs'[l].realm = jobs[l].realm /\ jobs'[l].url = jobs[l].url
       /\ jobs'[l].effective = effective /\ jobs'[l].contact = url.server
       /\ jobs'[l].regular = regular /\ jobs'[l].body = jobs[l].body
  BY <1>1, <1>12 DEF JobType
<1>16. /\ loads'[l].form = loads[l].form /\ loads'[l].element = loads[l].element
       /\ loads'[l].offset = loads[l].offset /\ loads'[l].phase = loads[l].phase
       /\ loads'[l].url = effective /\ loads'[l].method = loads[l].method
       /\ loads'[l].auth = loads[l].auth
  BY <1>1, <1>12 DEF LoadType
<1>17. Phases(loads'[l], jobs'[l])
  BY <1>1, <1>3, <1>4, <1>6, <1>15, <1>16 DEF LoadInv, Phases
<1>18. Requests(jobs'[l])
  BY <1>1, <1>3, <1>8, <1>15 DEF LoadInv, Requests
<1>19. Posts(loads'[l], jobs'[l])
  BY <1>1, <1>3, <1>15, <1>16 DEF LoadInv, Posts
<1>20. saved' \in Seq(SavedType') /\ answers' \in answers..MaxAnswers
  BY <1>1, <1>3, <1>10
<1>21. Position(loads'[l].form, loads'[l].element, loads'[l].offset)
  BY <1>1, <1>16
<1> QED BY <1>9, <1>12, <1>13, <1>14, <1>17, <1>18, <1>19, <1>20, <1>21, OneLoadChanges DEF LoadInv

LEMMA RecvAnswerStep ==
  ASSUME IInv, NEW l \in Load, RecvAnswer(l)
  PROVE  IInv'
<1>1. /\ loads \in [Load -> LoadType] /\ jobs \in [Load -> JobType]
      /\ loads[l] \in LoadType /\ jobs[l] \in JobType /\ LoadInv(loads[l], jobs[l])
      /\ Position(loads[l].form, loads[l].element, loads[l].offset)
      /\ saved \in Seq(SavedType) /\ answers \in 0..MaxAnswers /\ MaxAnswers \in Nat
  BY LoadFacts, HttpAssumption
<1>2. PICK location \in Url \cup {jobs[l].effective}, value \in 0..cookies + 1,
           realm \in Realm \cup {"none"} :
       /\ MaySetCookie(value)
       /\ CookiesReceived(location, value)
       /\ jobs' = [jobs EXCEPT ![l].rx = "answered", ![l].effective = location,
                               ![l].setCookie = value, ![l].realm = realm,
                               ![l].challenged = realm # "none",
                               ![l].regular = @ /\ location = jobs[l].effective]
  BY DEF RecvAnswer
<1>3. /\ jobs[l].state = "transfer" /\ jobs[l].rx = "sent" /\ UNCHANGED <<loads, saved, answers>>
  BY DEF RecvAnswer
<1>4. location \in Url
  BY <1>1, <1>3 DEF LoadInv, Phases
<1>5. PICK regular \in BOOLEAN : regular = (jobs[l].regular /\ location = jobs[l].effective)
  OBVIOUS
<1>6. PICK challenged \in BOOLEAN : challenged = (realm # "none")
  OBVIOUS
<1>7. /\ cookies' \in cookies..MaxCookies /\ value \in 0..cookies' /\ cookies \in Nat
      /\ jar' \in [Server -> 0..cookies']
  BY <1>2, <1>4, CookieSet
<1>8. LoadType \subseteq LoadType' /\ JobType \subseteq JobType' /\ SavedType' = SavedType
  BY <1>1, <1>3, <1>7, TypesGrow DEF SavedType
<1>9. jobs' = [jobs EXCEPT ![l].rx = "answered", ![l].effective = location,
                           ![l].setCookie = value, ![l].realm = realm,
                           ![l].challenged = challenged, ![l].regular = regular]
  BY <1>2, <1>5, <1>6
<1>10. /\ jobs'[l] = [jobs[l] EXCEPT !.rx = "answered", !.effective = location,
                         !.setCookie = value, !.realm = realm, !.challenged = challenged,
                         !.regular = regular]
       /\ jobs' = [jobs EXCEPT ![l] = jobs'[l]] /\ loads'[l] = loads[l]
       /\ loads' = [loads EXCEPT ![l] = loads'[l]]
  BY <1>1, <1>3, <1>9
<1>11. jobs'[l] \in JobType'
  <2>1. PICK j1 : j1 = [jobs[l] EXCEPT !.rx = "answered"]
    OBVIOUS
  <2>2. j1 \in JobType
    <3>1. \A v \in {"idle", "queued", "sent", "redirected", "answered"} :
            [jobs[l] EXCEPT !.rx = v] \in JobType
      BY <1>1, JobUpdates, Zenon
    <3> QED BY <2>1, <3>1
  <2>3. PICK j2 : j2 = [j1 EXCEPT !.effective = location]
    OBVIOUS
  <2>4. j2 \in JobType
    BY <1>4, <2>2, <2>3, JobUpdates, Zenon
  <2>5. PICK j3 : j3 = [j2 EXCEPT !.regular = regular]
    OBVIOUS
  <2>6. j3 \in JobType
    BY <2>4, <2>5, JobUpdates, Zenon
  <2>7. PICK j4 : j4 = [j3 EXCEPT !.setCookie = value]
    OBVIOUS
  <2>8. j4 \in JobType'
    BY <1>7, <1>8, <2>6, <2>7, HeaderUpdates
  <2>9. PICK j5 : j5 = [j4 EXCEPT !.realm = realm]
    OBVIOUS
  <2>10. j5 \in JobType'
    BY <1>7, <2>8, <2>9, HeaderUpdates
  <2>11. [j5 EXCEPT !.challenged = challenged] \in JobType'
    BY <1>7, <2>10, HeaderUpdates
  <2>12. jobs'[l] = [j5 EXCEPT !.challenged = challenged]
    BY <1>1, <1>10, <2>1, <2>3, <2>5, <2>7, <2>9 DEF JobType
  <2> QED BY <2>11, <2>12
<1>12. /\ jobs'[l].state = jobs[l].state /\ jobs'[l].rx = "answered"
       /\ jobs'[l].challenged = challenged /\ jobs'[l].realm = realm
       /\ jobs'[l].url = jobs[l].url /\ jobs'[l].effective = location
       /\ jobs'[l].contact = jobs[l].contact /\ jobs'[l].body = jobs[l].body
  BY <1>1, <1>10 DEF JobType
<1>13. Phases(loads[l], jobs'[l])
  BY <1>1, <1>3, <1>4, <1>6, <1>12 DEF LoadInv, Phases
<1>14. Requests(jobs'[l])
  BY <1>12 DEF Requests
<1>15. Posts(loads[l], jobs'[l])
  BY <1>1, <1>3, <1>12 DEF LoadInv, Posts
<1>16. saved' \in Seq(SavedType') /\ answers' \in answers..MaxAnswers /\ loads'[l] \in LoadType'
  BY <1>1, <1>3, <1>8, <1>10
<1> QED BY <1>1, <1>7, <1>10, <1>11, <1>13, <1>14, <1>15, <1>16, OneLoadChanges DEF LoadInv

LEMMA TransferSteps ==
  ASSUME IInv, NEW l \in Load, TransferDone(l) \/ TransferFail(l) \/ TransferTimeOut(l)
  PROVE  IInv'
<1>1. /\ jobs[l].state = "transfer" /\ RemoveJob(l) /\ UNCHANGED <<saved, answers, cookies>>
      /\ jar' = jar \/ CookiesReceived(jobs[l].effective, jobs[l].setCookie)
  BY DEF TransferDone, TransferFail, TransferTimeOut
<1>2. /\ jobs[l] \in JobType /\ jar \in [Server -> 0..cookies]
  BY LoadFacts
<1>3. jobs[l].setCookie \in 0..cookies
  BY <1>2 DEF JobType
<1>4. jar' \in [Server -> 0..cookies]
  BY <1>1, <1>2, <1>3 DEF CookiesReceived
<1> QED BY <1>1, <1>4, RemoveJobStep

LEMMA CancelStep ==
  ASSUME IInv, NEW l \in Load, CancelAuthorization(l)
  PROVE  IInv'
<1>1. /\ loads[l].phase = "asked" /\ End(l) /\ UNCHANGED <<saved, jar, answers, cookies>>
  BY DEF CancelAuthorization
<1>2. LoadInv(loads[l], jobs[l]) /\ jar \in [Server -> 0..cookies]
  BY LoadFacts
<1>3. jobs[l].state # "none"
  BY <1>1, <1>2 DEF LoadInv, Phases
<1> QED BY <1>1, <1>2, <1>3, EndStep

\* The first saved credentials that are for the same place are overwritten.
LEMMA CredentialsSaved ==
  ASSUME saved \in Seq(SavedType), NEW url \in Url, NEW realm \in Realm,
         answers \in Nat, answers' = answers + 1
  PROVE  AddSavedCredentials(url, realm, answers + 1) \in Seq(SavedType')
<1> DEFINE new == [server |-> url.server, dir |-> url.dir, realm |-> realm, answer |-> answers + 1]
           old == {i \in DOMAIN saved : /\ saved[i].server = url.server
                                        /\ saved[i].realm = realm
                                        /\ IsPrefix(url.dir, saved[i].dir)}
<1>1. SavedType \subseteq SavedType'
  <2>1. 1..answers \subseteq 1..answers'
    OBVIOUS
  <2> QED BY <2>1 DEF SavedType
<1>2. saved \in Seq(SavedType')
  BY <1>1
<1>3. new \in SavedType'
  <2>1. url.server \in Server /\ url.dir \in Dir /\ answers + 1 \in 1..answers'
    BY DEF Url
  <2> QED BY <2>1 DEF SavedType
<1>4. AddSavedCredentials(url, realm, answers + 1)
        = IF old = {} THEN Append(saved, new) ELSE [saved EXCEPT ![Min(old)] = new]
  BY DEF AddSavedCredentials
<1>5. old \in SUBSET Nat /\ old \subseteq DOMAIN saved
  OBVIOUS
<1> HIDE DEF new, old
<1>6. Append(saved, new) \in Seq(SavedType')
  BY <1>2, <1>3
<1>7. ASSUME old # {} PROVE [saved EXCEPT ![Min(old)] = new] \in Seq(SavedType')
  <2> DEFINE S == SavedType'
  <2>1. saved \in Seq(S) /\ new \in S
    BY <1>2, <1>3
  <2> HIDE DEF S
  <2>2. Len(saved) \in Nat /\ saved \in [1..Len(saved) -> S]
    BY <2>1
  <2>3. [saved EXCEPT ![Min(old)] = new] \in [1..Len(saved) -> S]
    BY <2>1, <2>2
  <2>4. [saved EXCEPT ![Min(old)] = new] \in Seq(S)
    BY <2>2, <2>3
  <2> QED BY <2>4 DEF S
<1> QED BY <1>4, <1>6, <1>7

LEMMA ProceedStep ==
  ASSUME IInv, NEW l \in Load, Proceed(l)
  PROVE  IInv'
<1>1. /\ loads \in [Load -> LoadType] /\ jobs \in [Load -> JobType]
      /\ loads[l] \in LoadType /\ jobs[l] \in JobType /\ LoadInv(loads[l], jobs[l])
      /\ Position(loads[l].form, loads[l].element, loads[l].offset)
      /\ saved \in Seq(SavedType) /\ jar \in [Server -> 0..cookies]
      /\ answers \in 0..MaxAnswers /\ cookies \in 0..MaxCookies
      /\ MaxAnswers \in Nat /\ MaxCookies \in Nat
  BY LoadFacts, HttpAssumption
<1>2. /\ loads[l].phase = "asked" /\ answers < MaxAnswers
      /\ loads' = [loads EXCEPT ![l] = Resubmitted(loads[l], jobs[l])]
      /\ saved' = AddSavedCredentials(jobs[l].url, jobs[l].realm, answers + 1)
      /\ jobs' = [jobs EXCEPT ![l] = NoJob]
      /\ answers' = answers + 1
      /\ UNCHANGED <<jar, cookies>>
  BY DEF Proceed
<1>3. jobs[l].url \in Url /\ jobs[l].realm \in Realm /\ jobs[l].interval \in {Interval, Forever}
  BY <1>1, <1>2 DEF LoadInv, Phases, JobType
<1>4. answers' \in answers..MaxAnswers /\ cookies' \in cookies..MaxCookies
  BY <1>1, <1>2
<1>5. LoadType \subseteq LoadType' /\ JobType \subseteq JobType'
  BY <1>1, <1>2, <1>4, TypesGrow
<1>6. /\ jobs'[l] = NoJob
      /\ loads'[l] = [loads[l] EXCEPT !.phase = "queued", !.auth = Append(@, answers + 1),
                                      !.interval = jobs[l].interval]
      /\ jobs' = [jobs EXCEPT ![l] = jobs'[l]] /\ loads' = [loads EXCEPT ![l] = loads'[l]]
  BY <1>1, <1>2 DEF Resubmitted
<1>7. jobs'[l] \in JobType'
  BY <1>1, <1>5, <1>6, NoLoadTyped
<1>8. /\ Append(loads[l].auth, answers + 1) \in Seq(1..answers')
      /\ Append(loads[l].auth, answers + 1) # << >>
  <2>1. loads[l].auth \in Seq(1..answers) /\ 1..answers \subseteq 1..answers'
    BY <1>1, <1>2 DEF LoadType
  <2>2. loads[l].auth \in Seq(1..answers') /\ answers + 1 \in 1..answers'
    BY <1>1, <1>2, <2>1
  <2> QED BY <2>2
<1>9. loads'[l] \in LoadType'
  <2>1. PICK auth : auth = Append(loads[l].auth, answers + 1)
    OBVIOUS
  <2>2. loads'[l] = [loads[l] EXCEPT !.phase = "queued", !.auth = auth,
                                     !.interval = jobs[l].interval]
    BY <1>6, <2>1
  <2>3. loads[l] \in LoadType' /\ auth \in Seq(1..answers')
    BY <1>1, <1>5, <1>8, <2>1
  <2>4. [loads[l] EXCEPT !.phase = "queued", !.auth = auth, !.interval = jobs[l].interval]
          \in LoadType'
    BY <1>3, <2>3 DEF LoadType
  <2> QED BY <2>2, <2>4
<1>10. /\ loads'[l].form = loads[l].form /\ loads'[l].element = loads[l].element
       /\ loads'[l].offset = loads[l].offset /\ loads'[l].phase = "queued"
       /\ loads'[l].url = loads[l].url /\ loads'[l].method = loads[l].method
       /\ loads'[l].auth # << >>
  BY <1>1, <1>6, <1>8 DEF LoadType
<1>11. /\ jobs'[l].state = "none" /\ jobs'[l].rx = "idle" /\ jobs'[l].sends = 0
       /\ ~jobs'[l].challenged
  BY <1>6 DEF NoJob
<1>12. LoadInv(loads'[l], jobs'[l])
  BY <1>1, <1>2, <1>10, <1>11 DEF LoadInv, Phases, Requests, Posts
<1>13. saved' \in Seq(SavedType')
  BY <1>1, <1>2, <1>3, CredentialsSaved
<1>14. jar' \in [Server -> 0..cookies']
  BY <1>1, <1>2
<1> QED BY <1>1, <1>4, <1>6, <1>7, <1>9, <1>10, <1>12, <1>13, <1>14, OneLoadChanges

LEMMA ClockStep ==
  ASSUME IInv, Clock
  PROVE  IInv'
<1>1. /\ loads \in [Load -> LoadType] /\ jobs \in [Load -> JobType]
  BY DEF IInv, TypeOK
<1>2. /\ jobs' = [l \in Load |-> IF jobs[l].state = "none" \/ jobs[l].left \in {0, Forever}
                                 THEN jobs[l] ELSE [jobs[l] EXCEPT !.left = @ - 1]]
      /\ UNCHANGED <<loads, saved, jar, answers, cookies>>
  BY DEF Clock
<1>3. ASSUME NEW l \in Load
      PROVE  /\ jobs'[l] \in JobType
             /\ jobs'[l].state = jobs[l].state /\ LoadInv(loads[l], jobs'[l])
  <2>0. jobs[l] \in JobType /\ LoadInv(loads[l], jobs[l])
    BY <1>1 DEF IInv
  <2>1. CASE jobs[l].state = "none" \/ jobs[l].left \in {0, Forever}
    <3>1. jobs'[l] = jobs[l]
      BY <1>2, <2>1
    <3> QED BY <2>0, <3>1
  <2>2. CASE ~(jobs[l].state = "none" \/ jobs[l].left \in {0, Forever})
    <3>1. jobs'[l] = [jobs[l] EXCEPT !.left = jobs[l].left - 1]
      BY <1>2, <2>2
    <3>2. jobs[l].left - 1 \in 0..Interval
      <4>1. jobs[l].left \in 0..Interval \cup {Forever} /\ Interval \in Nat
        BY <2>0, HttpAssumption DEF JobType
      <4> QED BY <2>2, <4>1
    <3>3. jobs'[l] \in JobType
      <4>1. \A v \in 0..Interval : [jobs[l] EXCEPT !.left = v] \in JobType
        BY <2>0, JobUpdates, Zenon
      <4> QED BY <3>1, <3>2, <4>1
    <3>4. /\ jobs'[l].state = jobs[l].state /\ jobs'[l].rx = jobs[l].rx
          /\ jobs'[l].sends = jobs[l].sends /\ jobs'[l].challenged = jobs[l].challenged
          /\ jobs'[l].realm = jobs[l].realm /\ jobs'[l].url = jobs[l].url
          /\ jobs'[l].effective = jobs[l].effective /\ jobs'[l].contact = jobs[l].contact
          /\ jobs'[l].cookie = jobs[l].cookie /\ jobs'[l].regular = jobs[l].regular
          /\ jobs'[l].body = jobs[l].body
      BY <2>0, <3>1 DEF JobType
    <3>5. LoadInv(loads[l], jobs'[l])
      BY <2>0, <3>4 DEF LoadInv, Phases, Requests, Posts
    <3> QED BY <3>3, <3>4, <3>5
  <2> QED BY <2>1, <2>2
<1>4. JobType' = JobType /\ LoadType' = LoadType
  BY <1>2 DEF JobType, LoadType
<1>5. jobs' \in [Load -> JobType]
  BY <1>2, <1>3
<1>6. TypeOK'
  <2>1. /\ loads' \in [Load -> LoadType'] /\ jobs' \in [Load -> JobType']
    BY <1>1, <1>2, <1>4, <1>5
  <2>2. \A l \in Load :
          /\ Position(loads'[l].form, loads'[l].element, loads'[l].offset)
          /\ (jobs'[l].state = "none") = (loads'[l].phase \notin {"job", "asked"})
    BY <1>2, <1>3 DEF IInv, TypeOK
  <2> QED BY <1>2, <2>1, <2>2 DEF IInv, TypeOK
<1> QED BY <1>2, <1>3, <1>6 DEF IInv

LEMMA InvStep ==
  ASSUME IInv, [Next]_vars
  PROVE  IInv'
<1>1. CASE UNCHANGED vars
  BY <1>1 DEF vars, IInv, TypeOK, LoadType, JobType
<1>2. CASE Clock
  BY <1>2, ClockStep
<1>3. ASSUME NEW l \in Load, Start(l) \/ Process(l)
      PROVE  IInv'
  BY <1>3, StartStep, AddTHJobStep, InitJobStep, ConnectStep DEF Process
<1>4. ASSUME NEW l \in Load, Transfer(l) \/ TransferFail(l)
      PROVE  IInv'
  BY <1>4, TransferSteps DEF Transfer
<1>5. ASSUME NEW l \in Load, SendHeader(l) \/ RecvRedirect(l) \/ RecvAnswer(l)
      PROVE  IInv'
  BY <1>5, SendHeaderStep, RecvRedirectStep, RecvAnswerStep
<1>6. ASSUME NEW l \in Load, Proceed(l) \/ CancelAuthorization(l)
      PROVE  IInv'
  BY <1>6, ProceedStep, CancelStep
<1> QED BY <1>1, <1>2, <1>3, <1>4, <1>5, <1>6, Zenon DEF Next

LEMMA InvInit == Init => IInv
<1> SUFFICES ASSUME Init PROVE IInv
  OBVIOUS
<1>1. /\ loads = [l \in Load |-> NoLoad] /\ jobs = [l \in Load |-> NoJob]
      /\ saved = << >> /\ jar = [s \in Server |-> 0] /\ answers = 0 /\ cookies = 0
  BY DEF Init
<1>2. loads \in [Load -> LoadType] /\ jobs \in [Load -> JobType]
  BY <1>1, NoLoadTyped
<1>3. \A l \in Load : loads[l] = NoLoad /\ jobs[l] = NoJob
  BY <1>1
<1>4. Position(NoLoad.form, NoLoad.element, NoLoad.offset)
  <2>1. << >> \in FormType /\ Len(<< >>) = 0
    BY DEF FormType
  <2> QED BY <2>1 DEF NoLoad, Position
<1>5. /\ NoLoad.phase = "none" /\ NoJob.state = "none" /\ NoJob.rx = "idle"
      /\ NoJob.sends = 0 /\ ~NoJob.challenged
  BY DEF NoLoad, NoJob
<1>6. LoadInv(NoLoad, NoJob)
  BY <1>5 DEF LoadInv, Phases, Requests, Posts
<1>7. TypeOK
  <2>1. answers \in 0..MaxAnswers /\ cookies \in 0..MaxCookies
    BY <1>1, HttpAssumption
  <2>2. saved \in Seq([server : Server, dir : Dir, realm : Realm, answer : 1..answers])
    BY <1>1
  <2>3. jar \in [Server -> 0..cookies]
    BY <1>1
  <2>4. \A l \in Load : /\ Position(loads[l].form, loads[l].element, loads[l].offset)
                        /\ (jobs[l].state = "none") = (loads[l].phase \notin {"job", "asked"})
    BY <1>3, <1>4, <1>5
  <2> QED BY <1>2, <2>1, <2>2, <2>3, <2>4 DEF TypeOK
<1> QED BY <1>3, <1>6, <1>7 DEF IInv

LEMMA Invariant == Spec => []IInv
BY InvInit, InvStep, PTL DEF Spec

-----------------------------------------------------------------------------
(* The theorems *)

\* Through queueing, redirects, challenges, new attempts and failures, every
\* handle and job, what was read of its form, what was saved of the user's
\* answers and what the servers set stay what they are declared as.
THEOREM TypeCorrect == Spec => []TypeOK
<1>1. IInv => TypeOK
  BY DEF IInv
<1> QED BY <1>1, Invariant, PTL

\* DirtySDKSendHeaderCallback, SetEffectiveURI: over any chain of redirects and
\* any number of attempts, a request under way goes to the server of its
\* effective URI with that server's cookies.
THEOREM RequestsAlwaysMatch == Spec => []RequestsMatch
BY InvImplies, Invariant, PTL

\* FormDataStream::read, Connect: for every form and every buffer, what the
\* first POST sends is all of the form.
THEOREM FirstPostWhole == Spec => []PostWhole
BY InvImplies, Invariant, PTL
=============================================================================
