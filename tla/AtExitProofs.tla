---------------------------- MODULE AtExitProofs ----------------------------
(***************************************************************************)
(* Proofs about the handlers called at exit: that each is called once, in  *)
(* the reverse order, and none is left out, for pages of any size and any  *)
(* number of handlers, shared objects and nested calls.                    *)
(***************************************************************************)
EXTENDS AtExit, WellFoundedInduction, TLAPS

\* Entry i of page p holds a function that has not been called.
Live(pages, p, i) ==
  /\ p \in 1 .. Len(pages) /\ i \in 1 .. Len(pages[p])
  /\ pages[p][i] # Empty

\* The entries in the order of registration, older pages first.
Older(p, i, q, j) == p < q \/ (p = q /\ i < j)

\* Numbers are given in the order of registration and entries are only appended, but
\* for the very first one, which the cleanup function has, whose number is lower than
\* all others: what is left in the pages ascends.
Ascending ==
  \A p, q, i, j \in Nat :
    Live(__atexit, p, i) /\ Live(__atexit, q, j) /\ Older(p, i, q, j) => __atexit[p][i] < __atexit[q][j]

\* No number is used before __cxa_atexit has given it.
Registered ==
  /\ Len(fn_dso) <= MaxHandlers
  /\ \A p, i \in Nat : Live(__atexit, p, i) => __atexit[p][i] <= Len(fn_dso)
  /\ \A k \in 1 .. Len(called) : called[k] <= Len(fn_dso)
  /\ \A k \in 1 .. Len(stack) : stack[k].born <= Len(fn_dso)

\* A function is taken out of its entry when it is called: none that is left has been.
NotYetCalled == \A p, i \in Nat : Live(__atexit, p, i) => ~Called(__atexit[p][i])

\* Until __atexit_register_cleanup has been called the cleanup function is nowhere, and
\* the entry kept for it is free.
CleanupOnce ==
  cleanup = "none" =>
    /\ \A p, i \in Nat : Live(__atexit, p, i) => __atexit[p][i] # Cleanup
    /\ ~Called(Cleanup)
    /\ __atexit # <<>> => __atexit[1][1] = Empty

\* A handler that has not been called is still in some entry.
NoneLost ==
  status = "running" =>
    \A h \in 1 .. Len(fn_dso) : Called(h) \/ \E p, i \in Nat : Live(__atexit, p, i) /\ __atexit[p][i] = h

\* The loop of call f has gone past entry i of page p.
PassedOver(f, p, i) == p > f.page \/ (p = f.page /\ i >= f.n)

\* What a call of __cxa_finalize has gone past and left there is not for it: not even
\* if handlers have registered others, or made calls of their own, in between.  (What
\* was registered after it began may be behind it.)
NoneSkipped ==
  status = "running" =>
    \A k \in 1 .. Len(stack) : \A p, i \in Nat :
      /\ Live(__atexit, p, i)
      /\ PassedOver(stack[k], p, i)
      /\ __atexit[p][i] \in 1 .. stack[k].born
      => stack[k].dso \notin {NULL, fn_dso[__atexit[p][i]]}

\* The inductive invariant of the exit handlers.
AtExitIInv ==
  /\ AtExitTypeOK
  /\ Len(stack) <= call_depth
  /\ Registered
  /\ Ascending
  /\ NotYetCalled
  /\ CleanupOnce
  /\ NoneLost
  /\ NoneSkipped
  /\ CalledOnce

-----------------------------------------------------------------------------
\* A nonempty set of numbers up to N has a largest one.
LEMMA LargestOf ==
  ASSUME NEW N \in Nat, NEW S, S \subseteq 1 .. N, S # {}
  PROVE  \E x \in S : \A y \in S : y <= x
<1> DEFINE T == {N - x : x \in S}
<1>1. T \subseteq Nat /\ T # {}
  <2>1. \A x \in S : N - x \in Nat
    OBVIOUS
  <2>2. PICK x \in S : TRUE
    BY Zenon
  <2> QED
    BY <2>1, <2>2, Zenon
<1> HIDE DEF T
<1>2. \E m \in T : \A k \in T : ~(<<k, m>> \in OpToRel(<, Nat))
  BY <1>1, NatLessThanWellFounded, WFMin, Zenon
<1>3. PICK m \in T : \A k \in T : ~(<<k, m>> \in OpToRel(<, Nat))
  BY <1>2, Zenon
<1>4. \A k \in T : ~(k < m)
  BY <1>1, <1>3, Zenon DEF OpToRel
<1>5. PICK x \in S : m = N - x
  BY DEF T
<1>6. \A y \in S : N - y \in T
  BY DEF T
<1> QED
  BY <1>1, <1>4, <1>5, <1>6

\* The entry that the loop of __cxa_finalize reaches first.
LEMMA FirstIsLast ==
  ASSUME NEW M \in Nat, NEW N \in Nat, NEW S \in SUBSET ((1 .. M) \X (1 .. N)), S # {}
  PROVE  /\ First(S) \in S
         /\ \A o \in S : o[1] < First(S)[1] \/ (o[1] = First(S)[1] /\ o[2] <= First(S)[2])
<1> DEFINE Pages == {o[1] : o \in S}
<1>1. Pages \subseteq 1 .. M /\ Pages # {}
  OBVIOUS
<1>2. PICK p \in Pages : \A q \in Pages : q <= p
  BY <1>1, LargestOf, Zenon
<1> DEFINE Fns == {o[2] : o \in {r \in S : r[1] = p}}
<1>3. Fns \subseteq 1 .. N /\ Fns # {}
  OBVIOUS
<1> HIDE DEF Pages
<1>4. PICK i \in Fns : \A j \in Fns : j <= i
  BY <1>3, LargestOf, Zenon
<1>5. PICK e \in S : e[1] = p /\ e[2] = i
  OBVIOUS
<1>6. \A o \in S : o[1] \in Pages /\ (o[1] = p => o[2] \in Fns)
  BY DEF Pages
<1>7. \A o \in S : o[1] < e[1] \/ (o[1] = e[1] /\ o[2] <= e[2])
  <2> TAKE o \in S
  <2>1. o[1] \in 1 .. M /\ p \in 1 .. M /\ o[1] <= p
    BY <1>1, <1>2, <1>6
  <2>2. o[1] = p => o[2] <= i
    BY <1>4, <1>6
  <2> QED
    BY <1>5, <2>1, <2>2
<1>8. \E r \in S : \A o \in S : o[1] < r[1] \/ (o[1] = r[1] /\ o[2] <= r[2])
  BY <1>7
<1> QED
  BY <1>8, Zenon DEF First

-----------------------------------------------------------------------------
\* The empty list is the one of length 0.
LEMMA EmptyList ==
  ASSUME NEW S, NEW s \in Seq(S)
  PROVE  s = <<>> <=> Len(s) = 0
OBVIOUS

\* A list with one element replaced.
LEMMA ReplacedElement ==
  ASSUME NEW S, NEW s \in Seq(S), NEW b \in 1 .. Len(s), NEW x \in S,
         NEW t, t = [s EXCEPT ![b] = x]
  PROVE  /\ t \in Seq(S) /\ Len(t) = Len(s) /\ t[b] = x
         /\ \A i \in 1 .. Len(s) : i # b => t[i] = s[i]
OBVIOUS

\* Nothing is registered when the process starts.
LEMMA AtExitInitIInv == AtExitInit => AtExitIInv
BY AtExitAssumption
   DEF AtExitInit, AtExitIInv, AtExitTypeOK, Registered, Ascending, NotYetCalled, CleanupOnce,
       NoneLost, NoneSkipped, CalledOnce, Live, Called

\* __cxa_atexit puts the new function behind all entries that are there.
LEMMA WithHandlerEntries ==
  ASSUME AtExitTypeOK, NEW h \in 1 .. MaxHandlers, __atexit' = WithHandler(h)
  PROVE  /\ __atexit' \in Seq(Seq((Cleanup .. MaxHandlers) \cup {Empty}))
         /\ \A p \in 1 .. Len(__atexit') : Len(__atexit'[p]) \in 1 .. PageMax
         /\ Len(__atexit) <= Len(__atexit')
         /\ __atexit # <<>> => __atexit'[1][1] = __atexit[1][1]
         /\ __atexit = <<>> => __atexit'[1][1] = Empty
         /\ \A p, i \in Nat : Live(__atexit, p, i) => Live(__atexit', p, i) /\ __atexit'[p][i] = __atexit[p][i]
         /\ \E q, j \in Nat :
              /\ Live(__atexit', q, j) /\ __atexit'[q][j] = h
              /\ \A p, i \in Nat : Live(__atexit, p, i) => Older(p, i, q, j)
              /\ \A p, i \in Nat : Live(__atexit', p, i) => Live(__atexit, p, i) \/ (p = q /\ i = j)
<1> USE AtExitAssumption
<1> DEFINE Functions == (Cleanup .. MaxHandlers) \cup {Empty}
<1>0. /\ __atexit \in Seq(Seq(Functions))
      /\ \A p \in 1 .. Len(__atexit) : Len(__atexit[p]) \in 1 .. PageMax
      /\ h \in Functions /\ h # Empty /\ Empty \in Functions /\ Empty \in Int
  BY DEF AtExitTypeOK, Empty, Cleanup
<1> HIDE DEF Functions
<1>h. PICK head \in Nat : head = Len(__atexit)
  BY <1>0
<1> USE <1>h
<1>1. CASE head = 0
  <2>0. __atexit = <<>>
    BY <1>0, <1>1, EmptyList, Zenon
  <2>1. __atexit' = <<<<Empty, h>>>>
    BY <1>1 DEF WithHandler
  <2>2. \A p, i \in Nat : ~Live(__atexit, p, i)
    BY <2>0 DEF Live
  <2>3. /\ __atexit' \in Seq(Seq(Functions)) /\ Len(__atexit') = 1 /\ Len(__atexit'[1]) = 2
        /\ __atexit'[1][1] = Empty /\ __atexit'[1][2] = h
    BY <1>0, <2>1
  <2>4. Live(__atexit', 1, 2) /\ \A p, i \in Nat : Live(__atexit', p, i) => p = 1 /\ i = 2
    <3>1. Live(__atexit', 1, 2)
      BY ONLY <1>0, <2>3 DEF Live
    <3>2. ASSUME NEW p \in Nat, NEW i \in Nat, Live(__atexit', p, i)
          PROVE  p = 1 /\ i = 2
      <4>1. p = 1 /\ i \in 1 .. 2
        BY ONLY <2>3, <3>2, p \in Nat, i \in Nat DEF Live
      <4>2. i # 1
        BY <2>3, <3>2, <4>1, Zenon DEF Live
      <4> QED
        BY ONLY <4>1, <4>2
    <3> QED
      BY <3>1, <3>2, Zenon
  <2> QED
    <3>1. Len(__atexit) <= Len(__atexit')
      BY <1>1, <2>3
    <3>2. ASSUME NEW p \in 1 .. Len(__atexit')
          PROVE  Len(__atexit'[p]) \in 1 .. PageMax
      <4>1. p = 1
        BY <2>3
      <4>2. Len(__atexit'[p]) = 2
        BY <2>3, <4>1, Zenon
      <4> QED
        BY <4>2
    <3>3. \E q, j \in Nat :
            /\ Live(__atexit', q, j) /\ __atexit'[q][j] = h
            /\ \A p, i \in Nat : Live(__atexit, p, i) => Older(p, i, q, j)
            /\ \A p, i \in Nat : Live(__atexit', p, i) => Live(__atexit, p, i) \/ (p = q /\ i = j)
      BY ONLY <2>2, <2>3, <2>4
    <3> HIDE <1>h
    <3> QED
      BY <2>0, <2>2, <2>3, <3>1, <3>2, <3>3, Zenon DEF Functions
<1>2. CASE head # 0 /\ Len(__atexit[head]) + 1 >= PageMax
  <2>1. __atexit' = Append(__atexit, <<h>>)
    BY <1>2 DEF WithHandler
  <2>2. /\ __atexit' \in Seq(Seq(Functions)) /\ Len(__atexit') = head + 1
        /\ \A p \in 1 .. head : __atexit'[p] = __atexit[p]
        /\ __atexit'[head + 1] = <<h>>
    BY <1>0, <2>1
  <2>3. Live(__atexit', head + 1, 1) /\ __atexit'[head + 1][1] = h
    BY <1>0, <2>2 DEF Live
  <2>4. \A p, i \in Nat : Live(__atexit, p, i) => Live(__atexit', p, i) /\ __atexit'[p][i] = __atexit[p][i] /\ p <= head
    BY <2>2 DEF Live
  <2>5. \A p \in 1 .. Len(__atexit') : p \in 1 .. head \/ p = head + 1
    BY <2>2
  <2>6. Len(__atexit'[head + 1]) = 1
    BY <2>2
  <2>7. ASSUME NEW p \in Nat, NEW i \in Nat, Live(__atexit', p, i)
        PROVE  Live(__atexit, p, i) \/ (p = head + 1 /\ i = 1)
    <3>1. CASE p \in 1 .. head
      BY <2>2, <2>7, <3>1 DEF Live
    <3>2. CASE p = head + 1
      BY <2>6, <2>7, <3>2 DEF Live
    <3> QED
      BY <2>5, <2>7, <3>1, <3>2 DEF Live
  <2>8. ASSUME NEW p \in 1 .. Len(__atexit')
        PROVE  Len(__atexit'[p]) \in 1 .. PageMax
    <3>1. CASE p \in 1 .. head
      BY <1>0, <2>2, <3>1
    <3>2. CASE p = head + 1
      <4>1. Len(__atexit'[p]) = 1
        BY <2>6, <3>2, Zenon
      <4> QED
        BY <4>1
    <3> QED
      BY <2>5, <3>1, <3>2
  <2>9. \A p, i \in Nat : Live(__atexit, p, i) => Older(p, i, head + 1, 1)
    BY <2>2, <2>4 DEF Older
  <2>10. __atexit # <<>> /\ Len(__atexit) <= Len(__atexit') /\ __atexit'[1][1] = __atexit[1][1]
    BY <1>2, <2>2
  <2>11. PICK q \in Nat, j \in Nat : q = head + 1 /\ j = 1
    OBVIOUS
  <2>12. /\ Live(__atexit', q, j) /\ __atexit'[q][j] = h
         /\ \A p, i \in Nat : Live(__atexit, p, i) => Older(p, i, q, j)
         /\ \A p, i \in Nat : Live(__atexit', p, i) => Live(__atexit, p, i) \/ (p = q /\ i = j)
    BY ONLY <2>3, <2>4, <2>7, <2>9, <2>11, Zenon
  <2>13. \E r, k \in Nat :
           /\ Live(__atexit', r, k) /\ __atexit'[r][k] = h
           /\ \A p, i \in Nat : Live(__atexit, p, i) => Older(p, i, r, k)
           /\ \A p, i \in Nat : Live(__atexit', p, i) => Live(__atexit, p, i) \/ (p = r /\ i = k)
    BY ONLY <2>12, q \in Nat, j \in Nat
  <2> HIDE <1>h
  <2> QED
    BY ONLY <2>2, <2>4, <2>8, <2>10, <2>13, Zenon DEF Functions
<1>3. CASE head # 0 /\ ~(Len(__atexit[head]) + 1 >= PageMax)
  <2>0. head \in 1 .. Len(__atexit) /\ __atexit[head] \in Seq(Functions)
    BY <1>0, <1>3
  <2>n. PICK n \in Nat : n = Len(__atexit[head])
    BY <2>0
  <2>1. __atexit' = [__atexit EXCEPT ![head] = Append(__atexit[head], h)]
    BY <1>3 DEF WithHandler
  <2>2. /\ __atexit' \in Seq(Seq(Functions)) /\ Len(__atexit') = head
        /\ \A p \in 1 .. head : p # head => __atexit'[p] = __atexit[p]
        /\ __atexit'[head] = Append(__atexit[head], h)
    BY <1>0, <2>0, <2>1
  <2>3. /\ Len(__atexit'[head]) = n + 1 /\ __atexit'[head][n + 1] = h
        /\ \A i \in 1 .. n : __atexit'[head][i] = __atexit[head][i]
    BY <1>0, <2>0, <2>n, <2>2
  <2>4. Live(__atexit', head, n + 1) /\ __atexit'[head][n + 1] = h
    BY <1>0, <2>0, <2>2, <2>3 DEF Live
  <2>5. ASSUME NEW p \in Nat, NEW i \in Nat, Live(__atexit, p, i)
        PROVE  Live(__atexit', p, i) /\ __atexit'[p][i] = __atexit[p][i]
    <3>1. CASE p # head
      BY <2>2, <2>5, <3>1 DEF Live
    <3>2. CASE p = head
      <4>1. i \in 1 .. n /\ __atexit[head][i] # Empty
        BY <2>5, <2>n, <3>2 DEF Live
      <4>2. __atexit'[head][i] = __atexit[head][i] /\ i \in 1 .. Len(__atexit'[head])
        BY <2>3, <4>1
      <4> QED
        BY <2>0, <2>2, <3>2, <4>1, <4>2, Zenon DEF Live
    <3> QED
      BY <3>1, <3>2
  <2>6. ASSUME NEW p \in Nat, NEW i \in Nat, Live(__atexit', p, i)
        PROVE  Live(__atexit, p, i) \/ (p = head /\ i = n + 1)
    <3>0. p \in 1 .. head
      BY <2>2, <2>6 DEF Live
    <3>1. CASE p # head
      BY <2>2, <2>6, <3>0, <3>1 DEF Live
    <3>2. CASE p = head
      <4>1. i \in 1 .. n + 1 /\ __atexit'[head][i] # Empty
        BY <2>3, <2>6, <3>2 DEF Live
      <4>2. i \in 1 .. n => Live(__atexit, p, i)
        BY <2>0, <2>3, <2>n, <3>2, <4>1 DEF Live
      <4> QED
        BY <3>2, <4>1, <4>2
    <3> QED
      BY <3>1, <3>2
  <2>7. ASSUME NEW p \in 1 .. Len(__atexit')
        PROVE  Len(__atexit'[p]) \in 1 .. PageMax
    <3>1. CASE p # head
      BY <1>0, <2>2, <3>1
    <3>2. CASE p = head
      BY <1>3, <2>3, <2>n, <3>2
    <3> QED
      BY <3>1, <3>2
  <2>8. \A p, i \in Nat : Live(__atexit, p, i) => Older(p, i, head, n + 1)
    BY <2>0, <2>n DEF Live, Older
  <2>9. __atexit # <<>> /\ Len(__atexit) <= Len(__atexit')
    BY <1>3, <2>2
  <2>10. __atexit'[1][1] = __atexit[1][1]
    <3>1. CASE head # 1
      BY <2>0, <2>2, <3>1
    <3>2. CASE head = 1
      BY <1>0, <2>0, <2>3, <2>n, <3>2
    <3> QED
      BY <3>1, <3>2
  <2>11. \E q, j \in Nat :
           /\ Live(__atexit', q, j) /\ __atexit'[q][j] = h
           /\ \A p, i \in Nat : Live(__atexit, p, i) => Older(p, i, q, j)
           /\ \A p, i \in Nat : Live(__atexit', p, i) => Live(__atexit, p, i) \/ (p = q /\ i = j)
    <3>1. PICK j \in Nat : j = n + 1
      BY <2>n
    <3>2. /\ Live(__atexit', head, j) /\ __atexit'[head][j] = h
          /\ \A p, i \in Nat : Live(__atexit, p, i) => Older(p, i, head, j)
          /\ \A p, i \in Nat : Live(__atexit', p, i) => Live(__atexit, p, i) \/ (p = head /\ i = j)
      BY <2>4, <2>6, <2>8, <3>1, Zenon
    <3> QED
      BY <3>2, Zenon
  <2> HIDE <1>h
  <2> QED
    BY <2>2, <2>5, <2>7, <2>9, <2>10, <2>11, Zenon DEF Functions
<1> QED
  BY <1>1, <1>2, <1>3, Zenon

\* The functions called, after one more call.
LEMMA CalledMore ==
  ASSUME NEW S, called \in Seq(S), NEW x \in S, called' = Append(called, x)
  PROVE  {called'[k] : k \in 1 .. Len(called')} = {called[k] : k \in 1 .. Len(called)} \cup {x}
OBVIOUS

\* What an entry holds is the number of a function.
LEMMA LiveNumber ==
  ASSUME AtExitTypeOK, NEW p \in Nat, NEW i \in Nat, Live(__atexit, p, i)
  PROVE  __atexit[p][i] \in Cleanup .. MaxHandlers /\ __atexit[p][i] \in Nat
BY AtExitAssumption DEF AtExitTypeOK, Live, Cleanup, Empty

\* A list over a set is one over any larger set.
LEMMA WiderList ==
  ASSUME NEW S, NEW T, S \subseteq T, NEW s \in Seq(S)
  PROVE  s \in Seq(T)
OBVIOUS

\* The calls of __cxa_finalize under way, when there are n pages.
Frames(n) ==
  [dso : Dsos \cup {NULL}, page : 1 .. n, n : 1 .. PageMax + 1,
   born : 0 .. MaxHandlers, pc : {"scan", "handler"}]

\* What is known of a call on the stack.
LEMMA FrameOf ==
  ASSUME AtExitTypeOK
  PROVE  /\ stack \in Seq(Frames(Len(__atexit)))
         /\ \A k \in 1 .. Len(stack) :
              /\ stack[k] \in Frames(Len(__atexit))
              /\ stack[k].born \in Nat
<1>1. stack \in Seq(Frames(Len(__atexit)))
  BY Zenon DEF AtExitTypeOK, Frames
<1>2. ASSUME NEW k \in 1 .. Len(stack)
      PROVE  stack[k] \in Frames(Len(__atexit))
  BY <1>1
<1>3. ASSUME NEW k \in 1 .. Len(stack)
      PROVE  stack[k].born \in Nat
  BY <1>2, AtExitAssumption DEF Frames
<1> QED
  BY <1>1, <1>2, <1>3

\* The last one is the one that runs.
LEMMA TopFrame ==
  ASSUME AtExitTypeOK, stack # <<>>
  PROVE  /\ Len(stack) \in 1 .. Len(stack)
         /\ Top = stack[Len(stack)]
<1>1. stack \in Seq(Frames(Len(__atexit)))
  BY FrameOf, Zenon
<1>2. Len(stack) # 0 /\ Len(stack) \in Nat
  BY ONLY <1>1, stack # <<>>, EmptyList
<1> QED
  BY <1>2 DEF Top

\* A call stays one when pages are added.
LEMMA MoreFrames ==
  ASSUME NEW m \in Nat, NEW n \in Nat, m <= n
  PROVE  Frames(m) \subseteq Frames(n)
BY DEF Frames

\* __cxa_atexit: the new function has the highest number and comes last.
LEMMA RegisterStep ==
  ASSUME AtExitIInv, NEW d \in Dsos \cup {NULL}, __cxa_atexit(d)
  PROVE  AtExitIInv'
<1> USE AtExitAssumption
<1>h. PICK h \in Nat : h = Len(fn_dso) + 1
  BY DEF AtExitIInv, AtExitTypeOK
<1>0. /\ h \in 1 .. MaxHandlers /\ __atexit' = WithHandler(h)
      /\ fn_dso' = Append(fn_dso, d) /\ fn_dso \in Seq(Dsos \cup {NULL})
      /\ UNCHANGED <<cleanup, called, stack, call_depth, status>>
      /\ status = "running"
  BY <1>h DEF AtExitIInv, AtExitTypeOK, __cxa_atexit, InProgram
<1>1. /\ __atexit' \in Seq(Seq((Cleanup .. MaxHandlers) \cup {Empty}))
      /\ \A p \in 1 .. Len(__atexit') : Len(__atexit'[p]) \in 1 .. PageMax
      /\ Len(__atexit) <= Len(__atexit')
      /\ __atexit # <<>> => __atexit'[1][1] = __atexit[1][1]
      /\ __atexit = <<>> => __atexit'[1][1] = Empty
      /\ \A p, i \in Nat : Live(__atexit, p, i) => Live(__atexit', p, i) /\ __atexit'[p][i] = __atexit[p][i]
      /\ \E q, j \in Nat :
           /\ Live(__atexit', q, j) /\ __atexit'[q][j] = h
           /\ \A p, i \in Nat : Live(__atexit, p, i) => Older(p, i, q, j)
           /\ \A p, i \in Nat : Live(__atexit', p, i) => Live(__atexit, p, i) \/ (p = q /\ i = j)
  BY <1>0, WithHandlerEntries, Zenon DEF AtExitIInv
<1>2. PICK q \in Nat, j \in Nat :
        /\ Live(__atexit', q, j) /\ __atexit'[q][j] = h
        /\ \A p, i \in Nat : Live(__atexit, p, i) => Older(p, i, q, j)
        /\ \A p, i \in Nat : Live(__atexit', p, i) => Live(__atexit, p, i) \/ (p = q /\ i = j)
  BY <1>1, Zenon
<1>3. /\ fn_dso' \in Seq(Dsos \cup {NULL}) /\ Len(fn_dso') = h
      /\ \A g \in 1 .. Len(fn_dso) : fn_dso'[g] = fn_dso[g]
  BY <1>0, <1>h
<1>4. AtExitTypeOK'
  <2>1. stack' \in Seq([dso : Dsos \cup {NULL}, page : 1 .. Len(__atexit'), n : 1 .. PageMax + 1,
                        born : 0 .. MaxHandlers, pc : {"scan", "handler"}])
    <3>1. Frames(Len(__atexit)) \subseteq Frames(Len(__atexit'))
      <4>1. Len(__atexit) \in Nat /\ Len(__atexit') \in Nat
        BY <1>0, <1>1
      <4> QED
        BY <1>1, <4>1, MoreFrames, Zenon
    <3>2. stack \in Seq(Frames(Len(__atexit')))
      BY <3>1, FrameOf, WiderList DEF AtExitIInv
    <3> QED
      BY <1>0, <3>2, Zenon DEF Frames
  <2> QED
    BY <1>0, <1>1, <1>3, <2>1 DEF AtExitIInv, AtExitTypeOK
<1>5. Registered'
  <2>1. ASSUME NEW p \in Nat, NEW i \in Nat, Live(__atexit', p, i)
        PROVE  __atexit'[p][i] <= Len(fn_dso')
    <3>1. CASE p = q /\ i = j
      BY <1>2, <1>3, <3>1
    <3>2. CASE Live(__atexit, p, i)
      <4>1. __atexit'[p][i] = __atexit[p][i] /\ __atexit[p][i] <= Len(fn_dso)
        BY <1>1, <3>2, Zenon DEF AtExitIInv, Registered
      <4>2. __atexit[p][i] \in Int
        BY <3>2, LiveNumber DEF AtExitIInv
      <4> QED
        BY <1>h, <1>3, <4>1, <4>2
    <3> QED
      BY <1>2, <2>1, <3>1, <3>2
  <2>2. \A k \in 1 .. Len(called) : called[k] <= Len(fn_dso')
    BY <1>h, <1>3 DEF AtExitIInv, Registered, AtExitTypeOK, Cleanup
  <2>3. \A k \in 1 .. Len(stack) : stack[k].born <= Len(fn_dso')
    BY <1>h, <1>3, FrameOf DEF AtExitIInv, Registered
  <2> QED
    <3>1. Len(fn_dso') <= MaxHandlers
      BY <1>0, <1>3
    <3> QED
      BY <1>0, <2>1, <2>2, <2>3, <3>1, Zenon DEF Registered
<1>6. Ascending'
  <2>1. ASSUME NEW p \in Nat, NEW r \in Nat, NEW i \in Nat, NEW k \in Nat,
               Live(__atexit', p, i), Live(__atexit', r, k), Older(p, i, r, k)
        PROVE  __atexit'[p][i] < __atexit'[r][k]
    <3>1. CASE r = q /\ k = j
      <4>1. Live(__atexit, p, i)
        BY <1>2, <2>1, <3>1 DEF Older
      <4>2. __atexit[p][i] \in Nat /\ __atexit[p][i] <= Len(fn_dso)
        BY <4>1, LiveNumber DEF AtExitIInv, Registered
      <4> QED
        <5>1. __atexit'[p][i] = __atexit[p][i] /\ __atexit'[r][k] = h
          BY <1>1, <1>2, <3>1, <4>1
        <5> QED
          BY <1>h, <4>2, <5>1
    <3>2. CASE Live(__atexit, r, k)
      <4>1. Older(r, k, q, j)
        BY <1>2, <3>2
      <4>2. Live(__atexit, p, i)
        BY <1>2, <2>1, <4>1 DEF Older
      <4>3. __atexit[p][i] < __atexit[r][k]
        BY <2>1, <3>2, <4>2, Zenon DEF AtExitIInv, Ascending
      <4> QED
        BY <1>1, <3>2, <4>2, <4>3
    <3> QED
      BY <1>2, <2>1, <3>1, <3>2
  <2> QED
    BY <2>1, Zenon DEF Ascending
<1>7. NotYetCalled'
  <2>1. ASSUME NEW p \in Nat, NEW i \in Nat, Live(__atexit', p, i)
        PROVE  __atexit'[p][i] \notin {called[k] : k \in 1 .. Len(called)}
    <3>1. CASE p = q /\ i = j
      <4>1. \A k \in 1 .. Len(called) : called[k] # h
        BY <1>h DEF AtExitIInv, Registered, AtExitTypeOK, Cleanup
      <4> QED
        BY <1>2, <3>1, <4>1
    <3>2. CASE Live(__atexit, p, i)
      BY <1>1, <3>2, Zenon DEF AtExitIInv, NotYetCalled, Called
    <3> QED
      BY <1>2, <2>1, <3>1, <3>2
  <2> QED
    BY <1>0, <2>1, Zenon DEF NotYetCalled, Called
<1>8. CleanupOnce'
  <2> SUFFICES ASSUME cleanup = "none"
               PROVE  /\ \A p, i \in Nat : Live(__atexit', p, i) => __atexit'[p][i] # Cleanup
                      /\ Cleanup \notin {called[k] : k \in 1 .. Len(called)}
                      /\ __atexit'[1][1] = Empty
    BY <1>0, Zenon DEF CleanupOnce, Called
  <2>1. \A p, i \in Nat : Live(__atexit, p, i) => __atexit[p][i] # Cleanup
    BY Zenon DEF AtExitIInv, CleanupOnce
  <2>2. h # Cleanup
    BY <1>0 DEF Cleanup
  <2>3. ASSUME NEW p \in Nat, NEW i \in Nat, Live(__atexit', p, i)
        PROVE  __atexit'[p][i] # Cleanup
    <3>1. CASE p = q /\ i = j
      BY <1>2, <2>2, <3>1
    <3>2. CASE Live(__atexit, p, i)
      <4>1. __atexit'[p][i] = __atexit[p][i] /\ __atexit[p][i] # Cleanup
        BY <1>1, <2>1, <3>2
      <4> QED
        BY <4>1, Zenon
    <3> QED
      BY <1>2, <2>3, <3>1, <3>2
  <2> QED
    BY <1>1, <2>3, Zenon DEF AtExitIInv, CleanupOnce, Called
<1>9. NoneLost'
  <2>1. ASSUME NEW g \in 1 .. Len(fn_dso')
        PROVE  Called(g) \/ \E p, i \in Nat : Live(__atexit', p, i) /\ __atexit'[p][i] = g
    <3>1. CASE g = h
      BY <1>2, <3>1, Zenon
    <3>2. CASE g \in 1 .. Len(fn_dso)
      <4>1. Called(g) \/ \E p, i \in Nat : Live(__atexit, p, i) /\ __atexit[p][i] = g
        BY <1>0, <3>2, Zenon DEF AtExitIInv, NoneLost
      <4> QED
        <5>1. CASE Called(g)
          BY <5>1
        <5>2. ASSUME NEW p \in Nat, NEW i \in Nat, Live(__atexit, p, i), __atexit[p][i] = g
              PROVE  Live(__atexit', p, i) /\ __atexit'[p][i] = g
          BY <1>1, <5>2, Zenon
        <5> QED
          BY <4>1, <5>1, <5>2, Zenon
    <3> QED
      BY <1>h, <1>3, <3>1, <3>2
  <2> QED
    BY <1>0, <2>1, Zenon DEF NoneLost, Called
<1>10. NoneSkipped'
  <2>1. ASSUME NEW k \in 1 .. Len(stack), NEW p \in Nat, NEW i \in Nat, Live(__atexit', p, i),
               PassedOver(stack[k], p, i), __atexit'[p][i] \in 1 .. stack[k].born
        PROVE  stack[k].dso \notin {NULL, fn_dso'[__atexit'[p][i]]}
    <3>1. stack[k].born <= Len(fn_dso) /\ stack[k].born \in Nat
      BY FrameOf DEF AtExitIInv, Registered
    <3>2. ~(p = q /\ i = j)
      BY <1>h, <1>2, <2>1, <3>1
    <3>3. Live(__atexit, p, i) /\ __atexit'[p][i] = __atexit[p][i]
      BY <1>1, <1>2, <2>1, <3>2
    <3>4. stack[k].dso \notin {NULL, fn_dso[__atexit[p][i]]}
      BY <1>0, <2>1, <3>3, Zenon DEF AtExitIInv, NoneSkipped
    <3>5. fn_dso'[__atexit[p][i]] = fn_dso[__atexit[p][i]]
      <4>1. __atexit[p][i] \in 1 .. Len(fn_dso)
        BY <1>h, <2>1, <3>1, <3>3
      <4> QED
        BY <1>3, <4>1
    <3> QED
      BY <3>3, <3>4, <3>5, Zenon
  <2> QED
    BY <1>0, <2>1, Zenon DEF NoneSkipped, PassedOver
<1>11. CalledOnce' /\ Len(stack') <= call_depth'
  BY <1>0 DEF AtExitIInv, CalledOnce
<1> QED
  BY <1>4, <1>5, <1>6, <1>7, <1>8, <1>9, <1>10, <1>11 DEF AtExitIInv

\* __atexit_register_cleanup uses the first entry, which was kept free.
LEMMA CleanupEntries ==
  ASSUME AtExitTypeOK, __atexit # <<>> => __atexit[1][1] = Empty,
         __atexit' = IF __atexit = <<>> THEN <<<<Cleanup>>>> ELSE [__atexit EXCEPT ![1][1] = Cleanup]
  PROVE  /\ __atexit' \in Seq(Seq((Cleanup .. MaxHandlers) \cup {Empty}))
         /\ \A p \in 1 .. Len(__atexit') : Len(__atexit'[p]) \in 1 .. PageMax
         /\ Len(__atexit) <= Len(__atexit')
         /\ Live(__atexit', 1, 1) /\ __atexit'[1][1] = Cleanup
         /\ \A p, i \in Nat :
              /\ Live(__atexit, p, i) => Live(__atexit', p, i) /\ __atexit'[p][i] = __atexit[p][i]
              /\ Live(__atexit', p, i) => Live(__atexit, p, i) \/ (p = 1 /\ i = 1)
<1> USE AtExitAssumption
<1> DEFINE Functions == (Cleanup .. MaxHandlers) \cup {Empty}
<1>0. /\ __atexit \in Seq(Seq(Functions))
      /\ \A p \in 1 .. Len(__atexit) : Len(__atexit[p]) \in 1 .. PageMax
      /\ Cleanup \in Functions /\ Cleanup # Empty
  BY DEF AtExitTypeOK, Empty, Cleanup
<1> HIDE DEF Functions
<1>1. CASE __atexit = <<>>
  <2>1. /\ __atexit' \in Seq(Seq(Functions)) /\ Len(__atexit') = 1 /\ Len(__atexit'[1]) = 1
        /\ __atexit'[1][1] = Cleanup
    BY <1>0, <1>1
  <2>2. \A p, i \in Nat : ~Live(__atexit, p, i)
    BY <1>1 DEF Live
  <2>3. Len(__atexit) <= Len(__atexit')
    BY <1>1, <2>1
  <2>4. Live(__atexit', 1, 1)
    BY <1>0, <2>1 DEF Live
  <2>5. ASSUME NEW p \in Nat, NEW i \in Nat, Live(__atexit', p, i)
        PROVE  p = 1 /\ i = 1
    <3>1. p = 1
      BY <2>1, <2>5 DEF Live
    <3> QED
      BY <2>1, <2>5, <3>1 DEF Live
  <2>6. ASSUME NEW p \in 1 .. Len(__atexit')
        PROVE  Len(__atexit'[p]) \in 1 .. PageMax
    <3>1. p = 1
      BY <2>1
    <3>2. Len(__atexit'[p]) = 1
      BY <2>1, <3>1, Zenon
    <3> QED
      BY ONLY <3>2, AtExitAssumption
  <2> QED
    BY <2>1, <2>2, <2>3, <2>4, <2>5, <2>6, Zenon DEF Functions
<1>2. CASE __atexit # <<>>
  <2>0. 1 \in 1 .. Len(__atexit) /\ Len(__atexit) \in Nat
    BY <1>0, <1>2, EmptyList
  <2>1. 1 \in 1 .. Len(__atexit[1]) /\ __atexit[1] \in Seq(Functions)
    BY ONLY <1>0, <2>0
  <2>2. __atexit' = [__atexit EXCEPT ![1] = [__atexit[1] EXCEPT ![1] = Cleanup]]
    BY <1>2
  <2>3. [__atexit[1] EXCEPT ![1] = Cleanup] \in Seq(Functions)
    BY <1>0, <2>1
  <2>4. /\ __atexit' \in Seq(Seq(Functions)) /\ Len(__atexit') = Len(__atexit)
        /\ __atexit'[1] = [__atexit[1] EXCEPT ![1] = Cleanup]
        /\ \A p \in 1 .. Len(__atexit) : p # 1 => __atexit'[p] = __atexit[p]
    <3>1. PICK old, new, page :
            old = __atexit /\ new = __atexit' /\ page = [__atexit[1] EXCEPT ![1] = Cleanup]
      BY Zenon
    <3>2. old \in Seq(Seq(Functions)) /\ 1 \in 1 .. Len(old) /\ new = [old EXCEPT ![1] = page]
      BY ONLY <1>0, <2>0, <2>2, <3>1, Zenon
    <3>3. /\ new \in Seq(Seq(Functions)) /\ Len(new) = Len(old) /\ new[1] = page
          /\ \A p \in 1 .. Len(old) : p # 1 => new[p] = old[p]
      BY ONLY <2>3, <3>1, <3>2
    <3> QED
      BY ONLY <3>1, <3>3, Zenon
  <2>5. /\ Len(__atexit'[1]) = Len(__atexit[1]) /\ __atexit'[1][1] = Cleanup
        /\ \A i \in 1 .. Len(__atexit[1]) : i # 1 => __atexit'[1][i] = __atexit[1][i]
    BY <1>0, <2>1, <2>4
  <2>6. ~Live(__atexit, 1, 1) /\ Live(__atexit', 1, 1)
    BY <1>0, <1>2, <2>0, <2>1, <2>4, <2>5 DEF Live
  <2>7. \A p \in 1 .. Len(__atexit') : Len(__atexit'[p]) \in 1 .. PageMax
    <3> TAKE p \in 1 .. Len(__atexit')
    <3>1. CASE p = 1
      BY <1>0, <2>0, <2>5, <3>1, Zenon
    <3>2. CASE p # 1
      BY <1>0, <2>4, <3>2
    <3> QED
      BY <3>1, <3>2
  <2>8. ASSUME NEW p \in Nat, NEW i \in Nat
        PROVE  /\ Live(__atexit, p, i) => Live(__atexit', p, i) /\ __atexit'[p][i] = __atexit[p][i]
               /\ Live(__atexit', p, i) => Live(__atexit, p, i) \/ (p = 1 /\ i = 1)
    <3>1. CASE p = 1 /\ i = 1
      BY <2>6, <3>1
    <3>2. CASE p = 1 /\ i # 1
      BY <2>0, <2>4, <2>5, <3>2 DEF Live
    <3>3. CASE p # 1
      BY <2>4, <3>3 DEF Live
    <3> QED
      BY <3>1, <3>2, <3>3
  <2>9. Len(__atexit) <= Len(__atexit')
    BY <2>0, <2>4
  <2> QED
    BY <2>4, <2>5, <2>6, <2>7, <2>8, <2>9, Zenon DEF Functions
<1> QED
  BY <1>1, <1>2, Zenon

\* __atexit_register_cleanup: the cleanup function has the lowest number and comes first.
LEMMA CleanupStep ==
  ASSUME AtExitIInv, __atexit_register_cleanup
  PROVE  AtExitIInv'
<1> USE AtExitAssumption
<1>0. /\ UNCHANGED <<fn_dso, called, stack, call_depth, status>>
      /\ status = "running" /\ cleanup = "none" /\ cleanup' = "registered"
      /\ __atexit' = IF __atexit = <<>> THEN <<<<Cleanup>>>> ELSE [__atexit EXCEPT ![1][1] = Cleanup]
      /\ __atexit # <<>> => __atexit[1][1] = Empty
      /\ \A p, i \in Nat : Live(__atexit, p, i) => __atexit[p][i] # Cleanup
      /\ ~Called(Cleanup)
  BY Zenon DEF AtExitIInv, __atexit_register_cleanup, InProgram, CleanupOnce
<1>1. /\ __atexit' \in Seq(Seq((Cleanup .. MaxHandlers) \cup {Empty}))
      /\ \A p \in 1 .. Len(__atexit') : Len(__atexit'[p]) \in 1 .. PageMax
      /\ Len(__atexit) <= Len(__atexit')
      /\ Live(__atexit', 1, 1) /\ __atexit'[1][1] = Cleanup
      /\ \A p, i \in Nat :
           /\ Live(__atexit, p, i) => Live(__atexit', p, i) /\ __atexit'[p][i] = __atexit[p][i]
           /\ Live(__atexit', p, i) => Live(__atexit, p, i) \/ (p = 1 /\ i = 1)
  BY <1>0, CleanupEntries, Zenon DEF AtExitIInv
<1>4. AtExitTypeOK'
  <2>1. Frames(Len(__atexit)) \subseteq Frames(Len(__atexit'))
    BY <1>1, MoreFrames DEF AtExitIInv, AtExitTypeOK
  <2>2. stack \in Seq(Frames(Len(__atexit')))
    BY <2>1, FrameOf, WiderList DEF AtExitIInv
  <2> QED
    BY <1>0, <1>1, <2>2, Zenon DEF AtExitIInv, AtExitTypeOK, Frames
<1>5. Registered'
  <2>1. ASSUME NEW p \in Nat, NEW i \in Nat, Live(__atexit', p, i)
        PROVE  __atexit'[p][i] <= Len(fn_dso)
    <3>1. CASE p = 1 /\ i = 1
      BY <1>1, <3>1 DEF Cleanup, AtExitIInv, AtExitTypeOK
    <3>2. CASE Live(__atexit, p, i)
      BY <1>1, <3>2, Zenon DEF AtExitIInv, Registered
    <3> QED
      BY <1>1, <2>1, <3>1, <3>2
  <2> QED
    BY <1>0, <2>1, Zenon DEF AtExitIInv, Registered
<1>6. Ascending'
  <2>1. ASSUME NEW p \in Nat, NEW q \in Nat, NEW i \in Nat, NEW j \in Nat,
               Live(__atexit', p, i), Live(__atexit', q, j), Older(p, i, q, j)
        PROVE  __atexit'[p][i] < __atexit'[q][j]
    <3>1. Live(__atexit, q, j)
      <4>1. p >= 1 /\ i >= 1
        BY ONLY <2>1 DEF Live
      <4>2. ~(q = 1 /\ j = 1)
        BY ONLY <2>1, <4>1 DEF Older
      <4> QED
        BY <1>1, <2>1, <4>2, Zenon
    <3>2. CASE p = 1 /\ i = 1
      <4>0. __atexit'[q][j] = __atexit[q][j] /\ __atexit[q][j] # Cleanup
        BY <1>0, <1>1, <3>1, Zenon
      <4>1. __atexit'[q][j] \in Nat /\ __atexit'[q][j] # Cleanup
        BY <3>1, <4>0, LiveNumber, Zenon DEF AtExitIInv
      <4> QED
        BY ONLY <1>1, <3>2, <4>1 DEF Cleanup
    <3>3. CASE Live(__atexit, p, i)
      <4>1. __atexit[p][i] < __atexit[q][j]
        BY <2>1, <3>1, <3>3, Zenon DEF AtExitIInv, Ascending
      <4> QED
        BY <1>1, <3>1, <3>3, <4>1, Zenon
    <3> QED
      BY <1>1, <2>1, <3>2, <3>3
  <2> QED
    BY <2>1, Zenon DEF Ascending
<1>7. NotYetCalled'
  <2>1. ASSUME NEW p \in Nat, NEW i \in Nat, Live(__atexit', p, i)
        PROVE  __atexit'[p][i] \notin {called[k] : k \in 1 .. Len(called)}
    <3>1. CASE p = 1 /\ i = 1
      <4>1. __atexit'[p][i] = Cleanup
        BY <1>1, <3>1
      <4> QED
        BY <1>0, <4>1, Zenon DEF Called
    <3>2. CASE Live(__atexit, p, i)
      BY <1>1, <3>2, Zenon DEF AtExitIInv, NotYetCalled, Called
    <3> QED
      BY <1>1, <2>1, <3>1, <3>2
  <2> QED
    BY <1>0, <2>1, Zenon DEF NotYetCalled, Called
<1>8. CleanupOnce'
  BY <1>0 DEF CleanupOnce
<1>9. NoneLost'
  <2>1. ASSUME NEW g \in 1 .. Len(fn_dso)
        PROVE  Called(g) \/ \E p, i \in Nat : Live(__atexit', p, i) /\ __atexit'[p][i] = g
    <3>1. Called(g) \/ \E p, i \in Nat : Live(__atexit, p, i) /\ __atexit[p][i] = g
      BY <1>0, Zenon DEF AtExitIInv, NoneLost
    <3>2. ASSUME NEW p \in Nat, NEW i \in Nat, Live(__atexit, p, i), __atexit[p][i] = g
          PROVE  Live(__atexit', p, i) /\ __atexit'[p][i] = g
      BY <1>1, <3>2, Zenon
    <3> QED
      BY <3>1, <3>2, Zenon
  <2>2. fn_dso' = fn_dso /\ called' = called
    BY <1>0
  <2> QED
    BY <2>1, <2>2, Zenon DEF NoneLost, Called
<1>10. NoneSkipped'
  <2>1. ASSUME NEW k \in 1 .. Len(stack), NEW p \in Nat, NEW i \in Nat, Live(__atexit', p, i),
               PassedOver(stack[k], p, i), __atexit'[p][i] \in 1 .. stack[k].born
        PROVE  stack[k].dso \notin {NULL, fn_dso[__atexit'[p][i]]}
    <3>1. __atexit'[p][i] # Cleanup
      BY <2>1, FrameOf DEF Cleanup, AtExitIInv
    <3>2. Live(__atexit, p, i) /\ __atexit'[p][i] = __atexit[p][i]
      BY <1>1, <2>1, <3>1, Zenon
    <3>3. stack[k].dso \notin {NULL, fn_dso[__atexit[p][i]]}
      BY <1>0, <2>1, <3>2, Zenon DEF AtExitIInv, NoneSkipped
    <3> QED
      BY <3>2, <3>3, Zenon
  <2> QED
    BY <1>0, <2>1, Zenon DEF NoneSkipped, PassedOver
<1>11. CalledOnce' /\ Len(stack') <= call_depth'
  BY <1>0 DEF AtExitIInv, CalledOnce
<1> QED
  BY <1>4, <1>5, <1>6, <1>7, <1>8, <1>9, <1>10, <1>11 DEF AtExitIInv

\* A call of __cxa_finalize that begins has passed nothing over.
LEMMA BeginStep ==
  ASSUME AtExitIInv, NEW d \in Dsos \cup {NULL}, FinalizeBegin(d)
  PROVE  AtExitIInv'
<1> USE AtExitAssumption
<1> DEFINE head == Len(__atexit)
           f == [dso |-> d, page |-> head, n |-> Len(__atexit[head]) + 1,
                 born |-> Len(fn_dso), pc |-> "scan"]
<1>0. /\ UNCHANGED <<__atexit, fn_dso, cleanup, called, status>>
      /\ stack' = Append(stack, f)
      /\ __atexit # <<>> /\ call_depth < MaxCalls /\ call_depth' = call_depth + 1
  BY DEF FinalizeBegin
<1>1. head \in 1 .. Len(__atexit) /\ Len(__atexit[head]) \in 1 .. PageMax
  BY <1>0, EmptyList DEF AtExitIInv, AtExitTypeOK
<1>2. f \in Frames(head) /\ Len(fn_dso) \in Nat /\ call_depth \in Nat
  BY <1>1 DEF AtExitIInv, AtExitTypeOK, Registered, Frames
<1>f. f.born = Len(fn_dso) /\ f.page = head /\ f.n = Len(__atexit[head]) + 1
  OBVIOUS
<1> HIDE DEF f
<1>3. /\ stack \in Seq(Frames(head)) /\ stack' \in Seq(Frames(head))
      /\ Len(stack') = Len(stack) + 1 /\ Len(stack) \in Nat
      /\ \A k \in 1 .. Len(stack) : stack'[k] = stack[k]
      /\ stack'[Len(stack) + 1] = f
  BY <1>0, <1>2, FrameOf DEF AtExitIInv
<1>4. AtExitTypeOK'
  <2>1. call_depth' \in 0 .. MaxCalls
    BY <1>0, <1>2
  <2> QED
    BY <1>0, <1>3, <2>1, Zenon DEF AtExitIInv, AtExitTypeOK, Frames
<1>5. ASSUME NEW k \in 1 .. Len(stack') PROVE k \in 1 .. Len(stack) \/ k = Len(stack) + 1
  BY <1>3
<1>6. Registered'
  <2>1. ASSUME NEW k \in 1 .. Len(stack')
        PROVE  stack'[k].born <= Len(fn_dso)
    <3>1. CASE k \in 1 .. Len(stack)
      BY <1>3, <3>1, Zenon DEF AtExitIInv, Registered
    <3>2. CASE k = Len(stack) + 1
      BY <1>2, <1>3, <1>f, <3>2
    <3> QED
      BY <1>5, <3>1, <3>2
  <2> QED
    BY <1>0, <2>1, Zenon DEF AtExitIInv, Registered
<1>7. NoneSkipped'
  <2>1. ASSUME status = "running", NEW k \in 1 .. Len(stack'), NEW p \in Nat, NEW i \in Nat,
               Live(__atexit, p, i), PassedOver(stack'[k], p, i), __atexit[p][i] \in 1 .. stack'[k].born
        PROVE  stack'[k].dso \notin {NULL, fn_dso[__atexit[p][i]]}
    <3>1. CASE k \in 1 .. Len(stack)
      <4>1. stack'[k] = stack[k]
        BY <1>3, <3>1
      <4> QED
        BY <2>1, <3>1, <4>1, Zenon DEF AtExitIInv, NoneSkipped
    <3>2. CASE k = Len(stack) + 1
      <4>1. stack'[k] = f
        BY <1>3, <3>2
      <4>2. p > head \/ (p = head /\ i > Len(__atexit[head]))
        BY <1>1, <1>f, <2>1, <4>1 DEF PassedOver
      <4> QED
        BY <1>1, <2>1, <4>2 DEF Live
    <3> QED
      BY <1>5, <3>1, <3>2
  <2> QED
    BY <1>0, <2>1, Zenon DEF NoneSkipped, PassedOver
<1>8. Ascending' /\ NotYetCalled' /\ CleanupOnce' /\ NoneLost' /\ CalledOnce'
  <2>1. /\ __atexit' = __atexit /\ fn_dso' = fn_dso /\ cleanup' = cleanup
        /\ called' = called /\ status' = status
    BY <1>0
  <2>2. Ascending' /\ NotYetCalled' /\ CleanupOnce'
    BY <2>1, Zenon DEF AtExitIInv, Ascending, NotYetCalled, CleanupOnce, Called
  <2>3. NoneLost'
    BY <2>1 DEF AtExitIInv, NoneLost, Called
  <2>4. CalledOnce'
    BY <2>1 DEF AtExitIInv, CalledOnce
  <2> QED
    BY <2>2, <2>3, <2>4
<1>9. Len(stack') <= call_depth'
  BY <1>0, <1>2, <1>3 DEF AtExitIInv
<1> QED
  BY <1>4, <1>6, <1>7, <1>8, <1>9 DEF AtExitIInv

\* Function x is one that call f of __cxa_finalize is about.
Wanted(f, x) == f.dso = NULL \/ (x # Cleanup /\ fn_dso[x] = f.dso)

\* What is ahead of a call are the entries it is about and has not gone past.
LEMMA AheadEntries ==
  ASSUME AtExitTypeOK, NEW k \in 1 .. Len(stack)
  PROVE  /\ Ahead(stack[k]) \in SUBSET ((1 .. stack[k].page) \X (1 .. PageMax))
         /\ stack[k].page \in Nat
         /\ \A a, b \in Nat :
              <<a, b>> \in Ahead(stack[k]) <=>
                /\ Live(__atexit, a, b) /\ ~PassedOver(stack[k], a, b)
                /\ Wanted(stack[k], __atexit[a][b])
<1> USE AtExitAssumption
<1>1. PICK f \in Frames(Len(__atexit)) : f = stack[k]
  BY FrameOf
<1>2. /\ f.page \in Nat /\ f.n \in Nat /\ f.page <= Len(__atexit) /\ Len(__atexit) \in Nat
      /\ \A p \in 1 .. Len(__atexit) : Len(__atexit[p]) \in Nat /\ Len(__atexit[p]) <= PageMax
  <2>1. f.page \in 1 .. Len(__atexit) /\ f.n \in 1 .. PageMax + 1
    BY DEF Frames
  <2>2. /\ Len(__atexit) \in Nat
        /\ \A p \in 1 .. Len(__atexit) : Len(__atexit[p]) \in 1 .. PageMax
    BY DEF AtExitTypeOK
  <2> QED
    BY <2>1, <2>2
<1>3. Ahead(f) \in SUBSET ((1 .. f.page) \X (1 .. PageMax))
  BY DEF Ahead
<1>4. ASSUME NEW a \in Nat, NEW b \in Nat
      PROVE  <<a, b>> \in Ahead(f) <=>
                /\ a \in 1 .. f.page /\ b \in 1 .. PageMax
                /\ b <= Len(__atexit[a]) /\ (a = f.page => b < f.n)
                /\ __atexit[a][b] # Empty
                /\ Wanted(f, __atexit[a][b])
  BY DEF Ahead, Wanted
<1>5. ASSUME NEW a \in Nat, NEW b \in Nat
      PROVE  /\ a \in 1 .. f.page /\ b \in 1 .. PageMax
             /\ b <= Len(__atexit[a]) /\ (a = f.page => b < f.n)
             /\ __atexit[a][b] # Empty
             <=> Live(__atexit, a, b) /\ ~PassedOver(f, a, b)
  BY <1>2 DEF Live, PassedOver
<1> QED
  BY <1>1, <1>2, <1>3, <1>4, <1>5, Zenon

\* The entry called next is the latest one ahead that the call is about.
LEMMA NextEntry ==
  ASSUME AtExitTypeOK, stack # <<>>, Ahead(Top) # {}
  PROVE  \E a, b \in Nat :
           /\ First(Ahead(Top)) = <<a, b>>
           /\ Live(__atexit, a, b) /\ ~PassedOver(Top, a, b) /\ Wanted(Top, __atexit[a][b])
           /\ \A p, i \in Nat :
                Live(__atexit, p, i) /\ ~PassedOver(Top, p, i) /\ Wanted(Top, __atexit[p][i])
                  => Older(p, i, a, b) \/ (p = a /\ i = b)
<1> USE AtExitAssumption
<1>1. Len(stack) \in 1 .. Len(stack) /\ Top = stack[Len(stack)]
  BY EmptyList DEF AtExitTypeOK, Top
<1>2. PICK k \in 1 .. Len(stack) : Top = stack[k]
  BY <1>1
<1>3. /\ Ahead(Top) \in SUBSET ((1 .. Top.page) \X (1 .. PageMax))
      /\ Top.page \in Nat
      /\ \A a, b \in Nat :
           <<a, b>> \in Ahead(Top) <=>
             /\ Live(__atexit, a, b) /\ ~PassedOver(Top, a, b)
             /\ Wanted(Top, __atexit[a][b])
  BY <1>2, AheadEntries
<1>4. PICK e \in (1 .. Top.page) \X (1 .. PageMax) :
        /\ e = First(Ahead(Top)) /\ e \in Ahead(Top)
        /\ \A o \in Ahead(Top) : o[1] < e[1] \/ (o[1] = e[1] /\ o[2] <= e[2])
  BY <1>3, FirstIsLast, Zenon
<1>5. PICK a \in Nat, b \in Nat : e = <<a, b>>
  BY <1>3
<1>6. ASSUME NEW p \in Nat, NEW i \in Nat, <<p, i>> \in Ahead(Top)
      PROVE  Older(p, i, a, b) \/ (p = a /\ i = b)
  <2>1. p < a \/ (p = a /\ i <= b)
    BY <1>4, <1>5, <1>6
  <2> QED
    BY <2>1 DEF Older
<1>7. <<a, b>> \in Ahead(Top) /\ First(Ahead(Top)) = <<a, b>>
  BY <1>4, <1>5, Zenon
<1>8. Live(__atexit, a, b) /\ ~PassedOver(Top, a, b) /\ Wanted(Top, __atexit[a][b])
  BY <1>3, <1>7, Zenon
<1>9. ASSUME NEW p \in Nat, NEW i \in Nat, Live(__atexit, p, i), ~PassedOver(Top, p, i),
             Wanted(Top, __atexit[p][i])
      PROVE  Older(p, i, a, b) \/ (p = a /\ i = b)
  BY <1>3, <1>6, <1>9, Zenon
<1> QED
  BY <1>7, <1>8, <1>9, Zenon

\* A call empties the entry of the function.
LEMMA EmptiedEntry ==
  ASSUME AtExitTypeOK, NEW a \in Nat, NEW b \in Nat, Live(__atexit, a, b),
         __atexit' = [__atexit EXCEPT ![a][b] = Empty]
  PROVE  /\ __atexit' \in Seq(Seq((Cleanup .. MaxHandlers) \cup {Empty}))
         /\ Len(__atexit') = Len(__atexit)
         /\ \A p \in 1 .. Len(__atexit') : Len(__atexit'[p]) \in 1 .. PageMax
         /\ __atexit[1][1] = Empty => __atexit'[1][1] = Empty
         /\ \A p, i \in Nat :
              /\ Live(__atexit', p, i) <=> Live(__atexit, p, i) /\ ~(p = a /\ i = b)
              /\ Live(__atexit', p, i) => __atexit'[p][i] = __atexit[p][i]
<1> DEFINE Functions == (Cleanup .. MaxHandlers) \cup {Empty}
<1>0. /\ __atexit \in Seq(Seq(Functions))
      /\ \A p \in 1 .. Len(__atexit) : Len(__atexit[p]) \in 1 .. PageMax
      /\ Empty \in Functions
  BY DEF AtExitTypeOK
<1> HIDE DEF Functions
<1>1. a \in 1 .. Len(__atexit) /\ b \in 1 .. Len(__atexit[a]) /\ __atexit[a] \in Seq(Functions)
  BY <1>0 DEF Live
<1>2. __atexit' = [__atexit EXCEPT ![a] = [__atexit[a] EXCEPT ![b] = Empty]]
  OBVIOUS
<1>page. PICK page : page = [__atexit[a] EXCEPT ![b] = Empty]
  BY Zenon
<1>3. /\ page \in Seq(Functions)
      /\ Len(page) = Len(__atexit[a])
      /\ page[b] = Empty
      /\ \A i \in 1 .. Len(__atexit[a]) : i # b => page[i] = __atexit[a][i]
  <2>1. PICK s : s = __atexit[a]
    OBVIOUS
  <2>2. s \in Seq(Functions) /\ b \in 1 .. Len(s) /\ page = [s EXCEPT ![b] = Empty]
    BY ONLY <1>1, <1>page, <2>1, Zenon
  <2>3. /\ page \in Seq(Functions) /\ Len(page) = Len(s) /\ page[b] = Empty
        /\ \A i \in 1 .. Len(s) : i # b => page[i] = s[i]
    BY ONLY <1>0, <2>2
  <2> QED
    BY ONLY <2>1, <2>3, Zenon
<1>4. __atexit' = [__atexit EXCEPT ![a] = page]
  BY ONLY <1>2, <1>page, Zenon
<1>5. /\ __atexit' \in Seq(Seq(Functions)) /\ Len(__atexit') = Len(__atexit)
      /\ __atexit'[a] = page
      /\ \A p \in 1 .. Len(__atexit) : p # a => __atexit'[p] = __atexit[p]
  <2>1. PICK old, new : old = __atexit /\ new = __atexit'
    OBVIOUS
  <2>2. old \in Seq(Seq(Functions)) /\ a \in 1 .. Len(old) /\ new = [old EXCEPT ![a] = page]
    BY ONLY <1>0, <1>1, <1>4, <2>1, Zenon
  <2>3. /\ new \in Seq(Seq(Functions)) /\ Len(new) = Len(old) /\ new[a] = page
        /\ \A p \in 1 .. Len(old) : p # a => new[p] = old[p]
    BY ONLY <1>3, <2>2
  <2> QED
    BY ONLY <2>1, <2>3, Zenon
<1>6. ASSUME NEW p \in 1 .. Len(__atexit')
      PROVE  Len(__atexit'[p]) \in 1 .. PageMax
  <2>1. CASE p = a
    BY ONLY <1>0, <1>1, <1>3, <1>5, <2>1
  <2>2. CASE p # a
    BY ONLY <1>0, <1>5, <1>6, <2>2, Zenon
  <2> QED
    BY <2>1, <2>2, Zenon
<1>7. ASSUME NEW p \in Nat, NEW i \in Nat
      PROVE  /\ Live(__atexit', p, i) <=> Live(__atexit, p, i) /\ ~(p = a /\ i = b)
             /\ Live(__atexit', p, i) => __atexit'[p][i] = __atexit[p][i]
  <2>1. CASE p = a /\ i = b
    BY ONLY <1>3, <1>5, <2>1 DEF Live
  <2>2. CASE p = a /\ i # b
    BY ONLY <1>1, <1>3, <1>5, <1>7, <2>2 DEF Live
  <2>3. CASE p # a
    BY ONLY <1>5, <1>7, <2>3 DEF Live
  <2> QED
    BY <2>1, <2>2, <2>3, Zenon
<1>8. ASSUME __atexit[1][1] = Empty
      PROVE  __atexit'[1][1] = Empty
  <2>1. 1 \in 1 .. Len(__atexit) /\ 1 \in 1 .. Len(__atexit[a])
    BY ONLY <1>0, <1>1
  <2>2. CASE a = 1
    BY ONLY <1>3, <1>5, <1>8, <2>1, <2>2
  <2>3. CASE a # 1
    BY ONLY <1>5, <1>8, <2>1, <2>3, Zenon
  <2> QED
    BY <2>2, <2>3, Zenon
<1> QED
  BY ONLY <1>5, <1>6, <1>7, <1>8, Zenon DEF Functions

\* A handler that returns leaves the position of the loop where it was.
LEMMA ReturnedFrame ==
  ASSUME NEW N, NEW g \in Frames(N)
  PROVE  \E f \in Frames(N) :
           /\ f = [g EXCEPT !.pc = "scan"]
           /\ f.page = g.page /\ f.n = g.n /\ f.dso = g.dso /\ f.born = g.born
<1> DEFINE f == [g EXCEPT !.pc = "scan"]
<1>1. f \in Frames(N)
  BY DEF Frames
<1>2. f.page = g.page /\ f.n = g.n /\ f.dso = g.dso /\ f.born = g.born
  BY DEF Frames
<1> QED
  BY <1>1, <1>2, Zenon

\* A function is called: its entry is emptied, and the loop moves down to it past
\* entries that it is not about.
LEMMA CallStep ==
  ASSUME AtExitIInv, CallNext
  PROVE  AtExitIInv'
<1> USE AtExitAssumption
<1>0. AtExitTypeOK /\ stack # <<>> /\ Ahead(Top) # {} /\ status = "running"
  BY DEF AtExitIInv, CallNext
<1>1. PICK a \in Nat, b \in Nat :
        /\ First(Ahead(Top)) = <<a, b>>
        /\ Live(__atexit, a, b) /\ ~PassedOver(Top, a, b) /\ Wanted(Top, __atexit[a][b])
        /\ \A p, i \in Nat :
             Live(__atexit, p, i) /\ ~PassedOver(Top, p, i) /\ Wanted(Top, __atexit[p][i])
               => Older(p, i, a, b) \/ (p = a /\ i = b)
  BY <1>0, NextEntry, Zenon
<1>2. PICK x \in Cleanup .. MaxHandlers : x = __atexit[a][b]
  BY <1>0, <1>1, LiveNumber, Zenon
<1>3. /\ __atexit' = [__atexit EXCEPT ![a][b] = Empty]
      /\ called' = Append(called, x)
      /\ stack' = [stack EXCEPT ![Len(stack)] = [Top EXCEPT !.page = a, !.n = b, !.pc = "handler"]]
      /\ UNCHANGED <<fn_dso, cleanup, call_depth, status>>
  BY <1>1, <1>2 DEF CallNext, Top
<1>u. fn_dso' = fn_dso /\ cleanup' = cleanup /\ call_depth' = call_depth /\ status' = status
  BY <1>3
<1>4. /\ __atexit' \in Seq(Seq((Cleanup .. MaxHandlers) \cup {Empty}))
      /\ Len(__atexit') = Len(__atexit)
      /\ \A p \in 1 .. Len(__atexit') : Len(__atexit'[p]) \in 1 .. PageMax
      /\ __atexit[1][1] = Empty => __atexit'[1][1] = Empty
      /\ \A p, i \in Nat :
           /\ Live(__atexit', p, i) <=> Live(__atexit, p, i) /\ ~(p = a /\ i = b)
           /\ Live(__atexit', p, i) => __atexit'[p][i] = __atexit[p][i]
  BY <1>0, <1>1, <1>3, EmptiedEntry, Zenon
<1>5. PICK m \in 1 .. Len(stack) : m = Len(stack) /\ Top = stack[m]
  BY <1>0, TopFrame, Zenon
<1>6. PICK f \in Frames(Len(__atexit)) :
        /\ f = [Top EXCEPT !.page = a, !.n = b, !.pc = "handler"]
        /\ f.page = a /\ f.n = b /\ f.dso = Top.dso /\ f.born = Top.born
  <2>1. Top \in Frames(Len(__atexit))
    BY <1>0, <1>5, FrameOf, Zenon
  <2>2. a \in 1 .. Len(__atexit) /\ b \in 1 .. PageMax + 1
    <3>1. a \in 1 .. Len(__atexit) /\ b \in 1 .. Len(__atexit[a])
      BY <1>1 DEF Live
    <3>2. Len(__atexit[a]) \in 1 .. PageMax
      BY <1>0, <3>1, Zenon DEF AtExitTypeOK
    <3> QED
      BY ONLY <3>1, <3>2, AtExitAssumption
  <2> QED
    <3>1. "handler" \in {"scan", "handler"}
      OBVIOUS
    <3>2. PICK N, g : N = Len(__atexit) /\ g = Top
      BY Zenon
    <3>3. g \in Frames(N) /\ a \in 1 .. N
      BY ONLY <2>1, <2>2, <3>2, Zenon
    <3>4. PICK f : f = [g EXCEPT !.page = a, !.n = b, !.pc = "handler"]
      OBVIOUS
    <3>5. f \in Frames(N) /\ f.page = a /\ f.n = b /\ f.dso = g.dso /\ f.born = g.born
      <4>1. f \in Frames(N)
        BY ONLY <2>2, <3>3, <3>4, Zenon DEF Frames
      <4>2. f.page = a /\ f.n = b /\ f.dso = g.dso /\ f.born = g.born
        BY ONLY <3>3, <3>4 DEF Frames
      <4> QED
        BY ONLY <4>1, <4>2
    <3> QED
      BY ONLY <3>2, <3>4, <3>5, Zenon
<1>7. /\ stack' \in Seq(Frames(Len(__atexit))) /\ Len(stack') = Len(stack)
      /\ stack'[m] = f
      /\ \A k \in 1 .. Len(stack) : k # m => stack'[k] = stack[k]
  <2>1. stack' = [stack EXCEPT ![m] = f]
    BY <1>3, <1>5, <1>6, Zenon
  <2> QED
    <3>1. stack \in Seq(Frames(Len(__atexit)))
      BY <1>0, FrameOf, Zenon
    <3> QED
      <4>1. m \in 1 .. Len(stack) /\ f \in Frames(Len(__atexit))
        BY <1>5, <1>6
      <4> QED
        BY ONLY <2>1, <3>1, <4>1, ReplacedElement
<1>8. /\ called \in Seq(Cleanup .. MaxHandlers) /\ called' \in Seq(Cleanup .. MaxHandlers)
      /\ Len(called') = Len(called) + 1 /\ called'[Len(called) + 1] = x
      /\ \A k \in 1 .. Len(called) : called'[k] = called[k]
      /\ Len(called) \in Nat
  <2>1. called \in Seq(Cleanup .. MaxHandlers)
    BY <1>0, Zenon DEF AtExitTypeOK
  <2>2. called' = Append(called, x)
    BY <1>3
  <2> QED
    BY ONLY <1>2, <2>1, <2>2
<1>9. {called'[k] : k \in 1 .. Len(called')} = {called[k] : k \in 1 .. Len(called)} \cup {x}
  BY <1>3, <1>8, CalledMore, Zenon
<1>10. AtExitTypeOK'
  BY <1>0, <1>u, <1>4, <1>7, <1>8, Zenon DEF AtExitTypeOK, Frames
<1>11. Registered'
  <2>1. x <= Len(fn_dso)
    BY <1>1, <1>2, Zenon DEF AtExitIInv, Registered
  <2>2. ASSUME NEW k \in 1 .. Len(called')
        PROVE  called'[k] <= Len(fn_dso)
    <3>1. CASE k \in 1 .. Len(called)
      BY <1>8, <3>1, Zenon DEF AtExitIInv, Registered
    <3>2. CASE k = Len(called) + 1
      BY <1>8, <2>1, <3>2, Zenon
    <3> QED
      BY <1>8, <3>1, <3>2
  <2>3. ASSUME NEW k \in 1 .. Len(stack')
        PROVE  stack'[k].born <= Len(fn_dso)
    <3>1. stack'[k].born = stack[k].born
      BY <1>5, <1>6, <1>7, Zenon
    <3>2. stack[k].born <= Len(fn_dso)
      BY <1>7, Zenon DEF AtExitIInv, Registered
    <3> QED
      BY <3>1, <3>2, Zenon
  <2>4. ASSUME NEW p \in Nat, NEW i \in Nat, Live(__atexit', p, i)
        PROVE  __atexit'[p][i] <= Len(fn_dso)
    BY <1>4, <2>4, Zenon DEF AtExitIInv, Registered
  <2>5. Len(fn_dso) <= MaxHandlers
    BY DEF AtExitIInv, Registered
  <2> QED
    BY <1>u, <2>2, <2>3, <2>4, <2>5, Zenon DEF Registered
<1>12. Ascending'
  <2>1. ASSUME NEW p \in Nat, NEW q \in Nat, NEW i \in Nat, NEW j \in Nat,
               Live(__atexit', p, i), Live(__atexit', q, j), Older(p, i, q, j)
        PROVE  __atexit'[p][i] < __atexit'[q][j]
    <3>1. Live(__atexit, p, i) /\ Live(__atexit, q, j)
      BY <1>4, <2>1, Zenon
    <3>2. __atexit[p][i] < __atexit[q][j]
      BY <2>1, <3>1, Zenon DEF AtExitIInv, Ascending
    <3>3. __atexit'[p][i] = __atexit[p][i] /\ __atexit'[q][j] = __atexit[q][j]
      BY <1>4, <2>1, Zenon
    <3> QED
      BY <3>2, <3>3, Zenon
  <2> QED
    BY <2>1, Zenon DEF Ascending
<1>13. \A p, i \in Nat : Live(__atexit, p, i) /\ ~(p = a /\ i = b) => __atexit[p][i] # x
  <2> SUFFICES ASSUME NEW p \in Nat, NEW i \in Nat, Live(__atexit, p, i), ~(p = a /\ i = b)
               PROVE  __atexit[p][i] # x
    BY Zenon
  <2>1. Older(p, i, a, b) \/ Older(a, b, p, i)
    BY DEF Older
  <2>2. __atexit[p][i] < x \/ x < __atexit[p][i]
    BY <1>1, <1>2, <2>1, Zenon DEF AtExitIInv, Ascending
  <2>3. __atexit[p][i] \in Nat /\ x \in Nat
    BY <1>0, <1>1, <1>2, LiveNumber, Zenon
  <2> QED
    BY <2>2, <2>3
<1>14. NotYetCalled'
  <2>1. ASSUME NEW p \in Nat, NEW i \in Nat, Live(__atexit', p, i)
        PROVE  __atexit'[p][i] \notin {called'[k] : k \in 1 .. Len(called')}
    <3>1. Live(__atexit, p, i) /\ ~(p = a /\ i = b) /\ __atexit'[p][i] = __atexit[p][i]
      BY <1>4, <2>1, Zenon
    <3>2. __atexit[p][i] \notin {called[k] : k \in 1 .. Len(called)}
      BY <3>1, Zenon DEF AtExitIInv, NotYetCalled, Called
    <3>3. __atexit[p][i] # x
      BY <1>13, <3>1, Zenon
    <3> QED
      BY <1>9, <3>1, <3>2, <3>3, Zenon
  <2> QED
    BY <2>1, Zenon DEF NotYetCalled, Called
<1>15. CleanupOnce'
  <2> SUFFICES ASSUME cleanup = "none"
               PROVE  /\ \A p, i \in Nat : Live(__atexit', p, i) => __atexit'[p][i] # Cleanup
                      /\ Cleanup \notin {called'[k] : k \in 1 .. Len(called')}
                      /\ __atexit'[1][1] = Empty
    BY <1>u, Zenon DEF CleanupOnce, Called
  <2>1. __atexit # <<>>
    BY <1>1 DEF Live
  <2>2. /\ \A p, i \in Nat : Live(__atexit, p, i) => __atexit[p][i] # Cleanup
        /\ Cleanup \notin {called[k] : k \in 1 .. Len(called)}
        /\ __atexit[1][1] = Empty
    BY <2>1, Zenon DEF AtExitIInv, CleanupOnce, Called
  <2>3. x # Cleanup
    BY <1>1, <1>2, <2>2, Zenon
  <2>4. ASSUME NEW p \in Nat, NEW i \in Nat, Live(__atexit', p, i)
        PROVE  __atexit'[p][i] # Cleanup
    <3>1. Live(__atexit, p, i) /\ __atexit'[p][i] = __atexit[p][i]
      BY <1>4, <2>4, Zenon
    <3> QED
      BY <2>2, <3>1
  <2> QED
    BY <1>4, <1>9, <2>2, <2>3, <2>4, Zenon
<1>16. NoneLost'
  <2>1. ASSUME NEW g \in 1 .. Len(fn_dso)
        PROVE  \/ g \in {called'[k] : k \in 1 .. Len(called')}
               \/ \E p, i \in Nat : Live(__atexit', p, i) /\ __atexit'[p][i] = g
    <3>1. CASE g \in {called[k] : k \in 1 .. Len(called)} \/ g = x
      BY <1>9, <3>1, Zenon
    <3>2. ASSUME g # x, NEW p \in Nat, NEW i \in Nat, Live(__atexit, p, i), __atexit[p][i] = g
          PROVE  Live(__atexit', p, i) /\ __atexit'[p][i] = g
      <4>1. ~(p = a /\ i = b)
        BY <1>2, <3>2, Zenon
      <4> QED
        BY <1>4, <3>2, <4>1, Zenon
    <3>3. \/ g \in {called[k] : k \in 1 .. Len(called)}
          \/ \E p, i \in Nat : Live(__atexit, p, i) /\ __atexit[p][i] = g
      BY <1>0, Zenon DEF AtExitIInv, NoneLost, Called
    <3> QED
      BY <3>1, <3>2, <3>3, Zenon
  <2> QED
    BY <1>u, <2>1, Zenon DEF NoneLost, Called
<1>17. NoneSkipped'
  <2>1. ASSUME NEW k \in 1 .. Len(stack'), NEW p \in Nat, NEW i \in Nat, Live(__atexit', p, i),
               PassedOver(stack'[k], p, i), __atexit'[p][i] \in 1 .. stack'[k].born
        PROVE  stack'[k].dso \notin {NULL, fn_dso[__atexit'[p][i]]}
    <3>1. /\ Live(__atexit, p, i) /\ ~(p = a /\ i = b) /\ __atexit'[p][i] = __atexit[p][i]
          /\ k \in 1 .. Len(stack)
      BY <1>4, <1>7, <2>1, Zenon
    <3>2. CASE k # m
      <4>1. stack'[k] = stack[k]
        BY <1>7, <3>1, <3>2
      <4> QED
        BY <1>0, <2>1, <3>1, <4>1, Zenon DEF AtExitIInv, NoneSkipped
    <3>3. CASE k = m
      <4>1. /\ stack'[k].dso = Top.dso /\ stack'[k].born = Top.born
            /\ PassedOver(f, p, i)
        BY <1>6, <1>7, <2>1, <3>3, Zenon
      <4>2. CASE PassedOver(Top, p, i)
        <5>1. Top.dso \notin {NULL, fn_dso[__atexit[p][i]]}
          BY <1>0, <1>5, <2>1, <3>1, <4>1, <4>2, Zenon DEF AtExitIInv, NoneSkipped
        <5> QED
          BY <3>1, <4>1, <5>1, Zenon
      <4>3. CASE ~PassedOver(Top, p, i)
        <5>1. Older(a, b, p, i)
          BY <1>6, <3>1, <4>1 DEF PassedOver, Older
        <5>2. ~Wanted(Top, __atexit[p][i])
          <6>1. ~(Older(p, i, a, b) \/ (p = a /\ i = b))
            BY <5>1 DEF Older
          <6> QED
            BY <1>1, <3>1, <4>3, <6>1, Zenon
        <5>3. __atexit[p][i] # Cleanup
          <6>1. __atexit[p][i] \in 1 .. Top.born
            BY <2>1, <3>1, <4>1, Zenon
          <6>2. Top.born \in Nat
            BY <1>0, <1>5, FrameOf, Zenon
          <6> QED
            BY <6>1, <6>2 DEF Cleanup
        <5> QED
          BY <3>1, <4>1, <5>2, <5>3, Zenon DEF Wanted
      <4> QED
        BY <4>2, <4>3
    <3> QED
      BY <3>2, <3>3
  <2> QED
    BY <1>u, <2>1, Zenon DEF NoneSkipped, PassedOver
<1>18. CalledOnce'
  <2>1. x \notin {called[k] : k \in 1 .. Len(called)}
    BY <1>1, <1>2, Zenon DEF AtExitIInv, NotYetCalled, Called
  <2>2. \A i, j \in 1 .. Len(called) : called[i] = called[j] => i = j
    BY Zenon DEF AtExitIInv, CalledOnce
  <2> QED
    <3>1. ASSUME NEW i \in 1 .. Len(called'), NEW j \in 1 .. Len(called'), called'[i] = called'[j]
          PROVE  i = j
      <4>1. CASE i \in 1 .. Len(called) /\ j \in 1 .. Len(called)
        BY <1>8, <2>2, <3>1, <4>1
      <4>2. CASE i = Len(called) + 1 /\ j \in 1 .. Len(called)
        BY <1>8, <2>1, <3>1, <4>2
      <4>3. CASE i \in 1 .. Len(called) /\ j = Len(called) + 1
        BY <1>8, <2>1, <3>1, <4>3
      <4>4. CASE i = Len(called) + 1 /\ j = Len(called) + 1
        BY <4>4
      <4> QED
        BY ONLY <1>8, <3>1, <4>1, <4>2, <4>3, <4>4
    <3> QED
      BY <3>1, Zenon DEF CalledOnce
<1>19. Len(stack') <= call_depth'
  BY <1>u, <1>7 DEF AtExitIInv
<1> QED
  BY <1>10, <1>11, <1>12, <1>14, <1>15, <1>16, <1>17, <1>18, <1>19 DEF AtExitIInv

\* A handler returns.
LEMMA ReturnStep ==
  ASSUME AtExitIInv, HandlerReturns
  PROVE  AtExitIInv'
<1> USE AtExitAssumption
<1>0. AtExitTypeOK /\ stack # <<>>
  BY DEF AtExitIInv, HandlerReturns
<1>1. /\ __atexit' = __atexit /\ fn_dso' = fn_dso /\ cleanup' = cleanup
      /\ called' = called /\ status' = status /\ call_depth' = call_depth
      /\ stack' = [stack EXCEPT ![Len(stack)] = [Top EXCEPT !.pc = "scan"]]
  BY DEF HandlerReturns, Top
<1>2. PICK m \in 1 .. Len(stack) : m = Len(stack) /\ Top = stack[m]
  BY <1>0, TopFrame, Zenon
<1>3. PICK f \in Frames(Len(__atexit)) :
        /\ f = [Top EXCEPT !.pc = "scan"]
        /\ f.page = Top.page /\ f.n = Top.n /\ f.dso = Top.dso /\ f.born = Top.born
  <2>1. Top \in Frames(Len(__atexit))
    BY <1>0, <1>2, FrameOf, Zenon
  <2> QED
    BY <2>1, ReturnedFrame, Zenon
<1>4. /\ stack' \in Seq(Frames(Len(__atexit))) /\ Len(stack') = Len(stack)
      /\ stack'[m] = f
      /\ \A k \in 1 .. Len(stack) : k # m => stack'[k] = stack[k]
  <2>1. stack' = [stack EXCEPT ![m] = f]
    BY <1>1, <1>2, <1>3, Zenon
  <2> QED
    <3>1. stack \in Seq(Frames(Len(__atexit)))
      BY <1>0, FrameOf, Zenon
    <3> QED
      <4>1. m \in 1 .. Len(stack) /\ f \in Frames(Len(__atexit))
        BY <1>2, <1>3
      <4> QED
        BY ONLY <2>1, <3>1, <4>1, ReplacedElement
<1>5. ASSUME NEW k \in 1 .. Len(stack)
      PROVE  /\ stack'[k].page = stack[k].page /\ stack'[k].n = stack[k].n
             /\ stack'[k].dso = stack[k].dso /\ stack'[k].born = stack[k].born
  <2>1. CASE k = m
    BY <1>2, <1>3, <1>4, <2>1, Zenon
  <2>2. CASE k # m
    BY <1>4, <2>2
  <2> QED
    BY <2>1, <2>2
<1>6. AtExitTypeOK'
  BY <1>0, <1>1, <1>4, Zenon DEF AtExitTypeOK, Frames
<1>7. Registered'
  BY <1>1, <1>4, <1>5, Zenon DEF AtExitIInv, Registered
<1>8. NoneSkipped'
  <2>1. ASSUME status = "running", NEW k \in 1 .. Len(stack'), NEW p \in Nat, NEW i \in Nat,
               Live(__atexit, p, i), PassedOver(stack'[k], p, i), __atexit[p][i] \in 1 .. stack'[k].born
        PROVE  stack'[k].dso \notin {NULL, fn_dso[__atexit[p][i]]}
    <3>1. k \in 1 .. Len(stack)
      BY <1>4, Zenon
    <3>2. PassedOver(stack[k], p, i) /\ __atexit[p][i] \in 1 .. stack[k].born
      BY <1>5, <2>1, <3>1, Zenon DEF PassedOver
    <3>3. stack[k].dso \notin {NULL, fn_dso[__atexit[p][i]]}
      BY <2>1, <3>1, <3>2, Zenon DEF AtExitIInv, NoneSkipped
    <3> QED
      BY <1>5, <3>1, <3>3, Zenon
  <2> QED
    BY <1>1, <2>1, Zenon DEF NoneSkipped, PassedOver
<1>9. Ascending' /\ NotYetCalled' /\ CleanupOnce'
  BY <1>1, Zenon DEF AtExitIInv, Ascending, NotYetCalled, CleanupOnce, Called
<1>10. NoneLost'
  BY <1>1, Zenon DEF AtExitIInv, NoneLost, Called
<1>11. CalledOnce' /\ Len(stack') <= call_depth'
  BY <1>1, <1>4 DEF AtExitIInv, CalledOnce
<1> QED
  BY <1>6, <1>7, <1>8, <1>9, <1>10, <1>11 DEF AtExitIInv

\* A list without its last element.
LEMMA AllButLast ==
  ASSUME NEW S, NEW s \in Seq(S), Len(s) # 0
  PROVE  /\ SubSeq(s, 1, Len(s) - 1) \in Seq(S)
         /\ Len(SubSeq(s, 1, Len(s) - 1)) = Len(s) - 1
         /\ \A k \in 1 .. Len(s) - 1 : SubSeq(s, 1, Len(s) - 1)[k] = s[k]
<1>1. PICK n \in Nat : n = Len(s) - 1
  OBVIOUS
<1>2. SubSeq(s, 1, n) \in Seq(S)
  BY <1>1
<1>3. Len(SubSeq(s, 1, n)) = n
  BY <1>1
<1>4. \A k \in 1 .. n : SubSeq(s, 1, n)[k] = s[k]
  BY <1>1
<1> QED
  BY <1>1, <1>2, <1>3, <1>4, Zenon

\* __cxa_finalize ends; exit frees the pages then, unless calls for shared objects have
\* been counted.
LEMMA EndStep ==
  ASSUME AtExitIInv, FinalizeEnd
  PROVE  AtExitIInv'
<1> USE AtExitAssumption
<1>0. AtExitTypeOK /\ stack # <<>>
  BY DEF AtExitIInv, FinalizeEnd
<1>1. /\ fn_dso' = fn_dso /\ cleanup' = cleanup /\ called' = called
      /\ stack' = SubSeq(stack, 1, Len(stack) - 1)
      /\ \/ __atexit' = __atexit /\ call_depth' = call_depth /\ status' = status
         \/ /\ call_depth' = call_depth - 1 /\ status' = "exited"
            /\ __atexit' = __atexit \/ (__atexit' = <<>> /\ call_depth = 1)
  BY DEF FinalizeEnd
<1>2. /\ Len(stack) \in Nat \ {0} /\ stack \in Seq(Frames(Len(__atexit)))
      /\ call_depth \in 0 .. MaxCalls /\ Len(stack) <= call_depth
  BY <1>0, EmptyList, FrameOf DEF AtExitIInv, AtExitTypeOK
<1>3. /\ stack' \in Seq(Frames(Len(__atexit))) /\ Len(stack') = Len(stack) - 1
      /\ \A k \in 1 .. Len(stack') : k \in 1 .. Len(stack) /\ stack'[k] = stack[k]
  <2>1. stack' = SubSeq(stack, 1, Len(stack) - 1)
    BY <1>1
  <2> QED
    <3>1. /\ stack' \in Seq(Frames(Len(__atexit))) /\ Len(stack') = Len(stack) - 1
          /\ \A k \in 1 .. Len(stack) - 1 : stack'[k] = stack[k]
      BY ONLY <1>2, <2>1, AllButLast
    <3> QED
      BY ONLY <1>2, <3>1
<1>4. \/ __atexit' = __atexit
      \/ __atexit' = <<>> /\ stack' = <<>> /\ status' = "exited"
  <2>1. CASE call_depth = 1
    <3>1. Len(stack') = 0
      BY ONLY <1>2, <1>3, <2>1
    <3>2. stack' = <<>>
      BY ONLY <1>3, <3>1, EmptyList
    <3> QED
      BY <1>1, <3>2
  <2>2. CASE call_depth # 1
    BY <1>1, <2>2
  <2> QED
    BY <2>1, <2>2
<1>5. Len(stack') <= call_depth' /\ call_depth' \in 0 .. MaxCalls
  BY <1>1, <1>2, <1>3
<1>6. AtExitTypeOK'
  <2>1. /\ __atexit' \in Seq(Seq((Cleanup .. MaxHandlers) \cup {Empty}))
        /\ \A p \in 1 .. Len(__atexit') : Len(__atexit'[p]) \in 1 .. PageMax
    <3>1. CASE __atexit' = __atexit
      BY <1>0, <3>1, Zenon DEF AtExitTypeOK
    <3>2. CASE __atexit' = <<>>
      BY ONLY <3>2
    <3> QED
      BY <1>4, <3>1, <3>2
  <2>2. stack' \in Seq(Frames(Len(__atexit')))
    <3>1. CASE __atexit' = __atexit
      BY <1>3, <3>1, Zenon
    <3>2. CASE stack' = <<>>
      BY ONLY <3>2
    <3> QED
      BY <1>4, <3>1, <3>2
  <2>3. status' \in {"running", "exited"}
    BY <1>0, <1>1, Zenon DEF AtExitTypeOK
  <2> QED
    BY <1>0, <1>1, <1>5, <2>1, <2>2, <2>3, Zenon DEF AtExitTypeOK, Frames
<1>7. \A p, i \in Nat : Live(__atexit', p, i) => Live(__atexit, p, i) /\ __atexit'[p][i] = __atexit[p][i]
  <2>1. CASE __atexit' = __atexit
    BY <2>1, Zenon
  <2>2. CASE __atexit' = <<>>
    BY ONLY <2>2 DEF Live
  <2> QED
    BY <1>4, <2>1, <2>2
<1>8. Registered'
  <2>1. \A p, i \in Nat : Live(__atexit', p, i) => __atexit'[p][i] <= Len(fn_dso)
    BY <1>7, Zenon DEF AtExitIInv, Registered
  <2>2. \A k \in 1 .. Len(stack') : stack'[k].born <= Len(fn_dso)
    BY <1>3, Zenon DEF AtExitIInv, Registered
  <2> QED
    BY <1>1, <2>1, <2>2, Zenon DEF AtExitIInv, Registered
<1>9. Ascending'
  <2>1. ASSUME NEW p \in Nat, NEW q \in Nat, NEW i \in Nat, NEW j \in Nat,
               Live(__atexit', p, i), Live(__atexit', q, j), Older(p, i, q, j)
        PROVE  __atexit'[p][i] < __atexit'[q][j]
    <3>1. __atexit[p][i] < __atexit[q][j]
      BY <1>7, <2>1, Zenon DEF AtExitIInv, Ascending
    <3>2. __atexit'[p][i] = __atexit[p][i] /\ __atexit'[q][j] = __atexit[q][j]
      BY <1>7, <2>1, Zenon
    <3> QED
      BY <3>1, <3>2, Zenon
  <2> QED
    BY <2>1, Zenon DEF Ascending
<1>10. NotYetCalled'
  <2>1. ASSUME NEW p \in Nat, NEW i \in Nat, Live(__atexit', p, i)
        PROVE  __atexit'[p][i] \notin {called[k] : k \in 1 .. Len(called)}
    <3>1. Live(__atexit, p, i) /\ __atexit'[p][i] = __atexit[p][i]
      BY <1>7, <2>1, Zenon
    <3> QED
      BY <3>1, Zenon DEF AtExitIInv, NotYetCalled, Called
  <2> QED
    BY <1>1, <2>1, Zenon DEF NotYetCalled, Called
<1>11. CleanupOnce'
  <2> SUFFICES ASSUME cleanup = "none"
               PROVE  /\ \A p, i \in Nat : Live(__atexit', p, i) => __atexit'[p][i] # Cleanup
                      /\ ~Called(Cleanup)
                      /\ __atexit' # <<>> => __atexit'[1][1] = Empty
    BY <1>1, Zenon DEF CleanupOnce, Called
  <2>1. /\ \A p, i \in Nat : Live(__atexit, p, i) => __atexit[p][i] # Cleanup
        /\ ~Called(Cleanup)
        /\ __atexit # <<>> => __atexit[1][1] = Empty
    BY Zenon DEF AtExitIInv, CleanupOnce
  <2>2. CASE __atexit' = __atexit
    BY <2>1, <2>2, Zenon
  <2>3. CASE __atexit' = <<>>
    BY <1>7, <2>1, <2>3
  <2> QED
    BY <1>4, <2>2, <2>3
<1>12. NoneLost' /\ NoneSkipped'
  <2>1. CASE status' = "exited"
    BY <2>1 DEF NoneLost, NoneSkipped
  <2>2. CASE status' # "exited"
    <3>1. __atexit' = __atexit /\ status' = status
      BY <1>1, <2>2
    <3>2. NoneLost'
      BY <1>1, <3>1 DEF AtExitIInv, NoneLost, Called
    <3>3. ASSUME status = "running", NEW k \in 1 .. Len(stack'), NEW p \in Nat, NEW i \in Nat,
                 Live(__atexit, p, i), PassedOver(stack'[k], p, i), __atexit[p][i] \in 1 .. stack'[k].born
          PROVE  stack'[k].dso \notin {NULL, fn_dso[__atexit[p][i]]}
      <4>1. k \in 1 .. Len(stack) /\ stack'[k] = stack[k]
        BY <1>3, Zenon
      <4> QED
        BY <3>3, <4>1, Zenon DEF AtExitIInv, NoneSkipped
    <3>4. NoneSkipped'
      BY <1>1, <3>1, <3>3, Zenon DEF NoneSkipped, PassedOver
    <3> QED
      BY <3>2, <3>4
  <2> QED
    BY <2>1, <2>2
<1>13. CalledOnce'
  BY <1>1 DEF AtExitIInv, CalledOnce
<1> QED
  BY <1>5, <1>6, <1>8, <1>9, <1>10, <1>11, <1>12, <1>13 DEF AtExitIInv

\* Every step keeps the invariant.
LEMMA AtExitNextIInv == AtExitIInv /\ [AtExitNext]_atexitVars => AtExitIInv'
<1>1. ASSUME AtExitIInv, UNCHANGED atexitVars
      PROVE  AtExitIInv'
  <2>1. /\ __atexit' = __atexit /\ fn_dso' = fn_dso /\ cleanup' = cleanup /\ called' = called
        /\ stack' = stack /\ call_depth' = call_depth /\ status' = status
    BY <1>1 DEF atexitVars
  <2>2. AtExitTypeOK'
    BY <1>1, <2>1 DEF AtExitIInv, AtExitTypeOK
  <2>3. Registered' /\ Ascending'
    BY <1>1, <2>1 DEF AtExitIInv, Registered, Ascending
  <2>4. NotYetCalled' /\ CleanupOnce'
    BY <1>1, <2>1 DEF AtExitIInv, NotYetCalled, CleanupOnce, Called
  <2>5. NoneLost'
    BY <1>1, <2>1, Zenon DEF AtExitIInv, NoneLost, Called
  <2>6. NoneSkipped'
    BY <1>1, <2>1 DEF AtExitIInv, NoneSkipped, PassedOver
  <2>7. CalledOnce' /\ Len(stack') <= call_depth'
    BY <1>1, <2>1 DEF AtExitIInv, CalledOnce
  <2> QED
    BY <2>2, <2>3, <2>4, <2>5, <2>6, <2>7 DEF AtExitIInv
<1> QED
  BY <1>1, RegisterStep, CleanupStep, BeginStep, CallStep, ReturnStep, EndStep, Zenon DEF AtExitNext

\* The invariant holds in every state.
LEMMA AtExitInvariance == AtExitSpec => []AtExitIInv
BY AtExitInitIInv, AtExitNextIInv, PTL DEF AtExitSpec

\* The pages stay within their size, and the position of every call of __cxa_finalize
\* stays within the pages that there are, though handlers add pages and exit frees them.
THEOREM AtExitTypeCorrect == AtExitSpec => []AtExitTypeOK
<1>1. AtExitIInv => AtExitTypeOK
  BY DEF AtExitIInv
<1> QED
  BY <1>1, AtExitInvariance, PTL

\* However the calls of __cxa_finalize nest, whatever handlers register and unload,
\* and however many there are, no handler is called twice.
THEOREM HandlersCalledOnce == AtExitSpec => []CalledOnce
<1>1. AtExitIInv => CalledOnce
  BY DEF AtExitIInv
<1> QED
  BY <1>1, AtExitInvariance, PTL

\* A function that a call is about, that was there when the call began and has not
\* been called is still ahead.
LEMMA StillAhead ==
  ASSUME AtExitIInv, status = "running", stack # <<>>, NEW h \in 1 .. Top.born,
         Top.dso \in {NULL, fn_dso[h]}, ~Called(h)
  PROVE  \E p, i \in Nat :
           /\ Live(__atexit, p, i) /\ __atexit[p][i] = h
           /\ ~PassedOver(Top, p, i) /\ Wanted(Top, h)
<1>0. AtExitTypeOK /\ Registered
  BY DEF AtExitIInv
<1>1. PICK m \in 1 .. Len(stack) : Top = stack[m]
  BY <1>0, TopFrame, Zenon
<1>2. Top.born \in Nat /\ Top.born <= Len(fn_dso)
  BY <1>0, <1>1, FrameOf, Zenon DEF Registered
<1>3. Len(fn_dso) \in Nat
  BY <1>0 DEF AtExitTypeOK
<1>4. h \in 1 .. Len(fn_dso)
  BY <1>2, <1>3
<1>5. PICK p \in Nat, i \in Nat : Live(__atexit, p, i) /\ __atexit[p][i] = h
  BY <1>4, Zenon DEF AtExitIInv, NoneLost
<1>6. ~PassedOver(Top, p, i)
  BY <1>1, <1>5, Zenon DEF AtExitIInv, NoneSkipped
<1>7. h # Cleanup
  BY <1>2 DEF Cleanup
<1> QED
  BY <1>5, <1>6, <1>7, Zenon DEF Wanted

\* A call of __cxa_finalize calls its handlers in the reverse order of their
\* registration and the cleanup function last, whatever pages and calls of their own
\* the handlers add while it goes down the list.
THEOREM HandlersReversed == AtExitSpec => ReverseOrder
<1>1. ASSUME AtExitIInv, CallNext, NEW h \in called'[Len(called')] + 1 .. Top.born,
             Top.dso \in {NULL, fn_dso[h]}
      PROVE  Called(h)
  <2>0. AtExitTypeOK /\ stack # <<>> /\ Ahead(Top) # {} /\ status = "running"
    BY <1>1 DEF AtExitIInv, CallNext
  <2>1. PICK a \in Nat, b \in Nat :
          /\ First(Ahead(Top)) = <<a, b>>
          /\ Live(__atexit, a, b)
          /\ \A p, i \in Nat :
               Live(__atexit, p, i) /\ ~PassedOver(Top, p, i) /\ Wanted(Top, __atexit[p][i])
                 => Older(p, i, a, b) \/ (p = a /\ i = b)
    BY <2>0, NextEntry, Zenon
  <2>2. PICK x \in Cleanup .. MaxHandlers : x = __atexit[a][b] /\ x \in Nat
    BY <2>0, <2>1, LiveNumber, Zenon
  <2>3. called'[Len(called')] = x
    <3>1. called' = Append(called, x)
      BY <1>1, <2>1, <2>2 DEF CallNext
    <3>2. called \in Seq(Cleanup .. MaxHandlers)
      BY <2>0, Zenon DEF AtExitTypeOK
    <3> QED
      BY ONLY <2>2, <3>1, <3>2
  <2>4. Top.born \in Nat
    <3>1. PICK m \in 1 .. Len(stack) : Top = stack[m]
      BY <2>0, TopFrame, Zenon
    <3> QED
      BY <2>0, <3>1, FrameOf, Zenon
  <2>5. h \in 1 .. Top.born /\ h > x
    BY ONLY <1>1, <2>2, <2>3, <2>4
  <2> SUFFICES ASSUME ~Called(h)
               PROVE  FALSE
    OBVIOUS
  <2>6. PICK p \in Nat, i \in Nat :
          /\ Live(__atexit, p, i) /\ __atexit[p][i] = h
          /\ ~PassedOver(Top, p, i) /\ Wanted(Top, h)
    BY <1>1, <2>0, <2>5, StillAhead, Zenon
  <2>7. Older(p, i, a, b) \/ (p = a /\ i = b)
    BY <2>1, <2>6, Zenon
  <2>8. h < x \/ h = x
    BY <1>1, <2>1, <2>2, <2>6, <2>7, Zenon DEF AtExitIInv, Ascending
  <2> QED
    BY ONLY <2>2, <2>4, <2>5, <2>8
<1>2. ASSUME AtExitIInv, AtExitNext, Len(called') > Len(called)
      PROVE  CallNext
  <2>1. CASE called' = called
    <3>1. Len(called) \in Nat
      BY <1>2 DEF AtExitIInv, AtExitTypeOK
    <3> QED
      BY <1>2, <2>1, <3>1
  <2> QED
    BY <1>2, <2>1, Zenon DEF AtExitNext, __cxa_atexit, FinalizeBegin, __atexit_register_cleanup,
                      HandlerReturns, FinalizeEnd
<1>3. AtExitIInv /\ [AtExitNext]_atexitVars =>
        [Len(called') > Len(called) =>
           \A h \in called'[Len(called')] + 1 .. Top.born :
             Top.dso \in {NULL, fn_dso[h]} => Called(h)]_atexitVars
  BY <1>1, <1>2, Zenon
<1> QED
  BY <1>3, AtExitInvariance, PTL DEF AtExitSpec, ReverseOrder

\* When a call of __cxa_finalize ends, all handlers it is about that were registered
\* before it began have been called, by it or by a call nested in it.
THEOREM FinalizeLeavesNone == AtExitSpec => FinalizeComplete
<1>1. ASSUME AtExitIInv, FinalizeEnd, NEW h \in 1 .. Top.born, Top.dso \in {NULL, fn_dso[h]}
      PROVE  Called(h)
  <2>0. AtExitTypeOK /\ stack # <<>> /\ Ahead(Top) = {} /\ status = "running"
    BY <1>1 DEF AtExitIInv, FinalizeEnd
  <2>1. PICK m \in 1 .. Len(stack) : Top = stack[m]
    BY <2>0, TopFrame, Zenon
  <2> SUFFICES ASSUME ~Called(h)
               PROVE  FALSE
    OBVIOUS
  <2>2. PICK p \in Nat, i \in Nat :
          /\ Live(__atexit, p, i) /\ __atexit[p][i] = h
          /\ ~PassedOver(Top, p, i) /\ Wanted(Top, h)
    BY <1>1, <2>0, StillAhead, Zenon
  <2>3. <<p, i>> \in Ahead(Top)
    BY <2>0, <2>1, <2>2, AheadEntries, Zenon
  <2> QED
    BY <2>0, <2>3, Zenon
<1>2. ASSUME AtExitIInv, AtExitNext, Len(stack') < Len(stack)
      PROVE  FinalizeEnd
  <2>1. Len(stack) \in Nat /\ stack \in Seq(Frames(Len(__atexit)))
    BY <1>2, FrameOf DEF AtExitIInv
  <2>2. Len(stack') # Len(stack) /\ Len(stack') # Len(stack) + 1
    BY <1>2, <2>1
  <2>3. ASSUME NEW d \in Dsos \cup {NULL}, FinalizeBegin(d)
        PROVE  FALSE
    BY <2>1, <2>2, <2>3 DEF FinalizeBegin
  <2>4. ASSUME stack' = [stack EXCEPT ![Len(stack)] = stack'[Len(stack)]]
        PROVE  FALSE
    BY <2>1, <2>2, <2>4
  <2>5. ~CallNext /\ ~HandlerReturns
    BY <2>1, <2>2 DEF CallNext, HandlerReturns
  <2>6. stack' # stack
    BY <2>2
  <2> QED
    BY <1>2, <2>3, <2>5, <2>6 DEF AtExitNext, __cxa_atexit, __atexit_register_cleanup
<1>3. AtExitIInv /\ [AtExitNext]_atexitVars =>
        [Len(stack') < Len(stack) =>
           \A h \in 1 .. Top.born : Top.dso \in {NULL, fn_dso[h]} => Called(h)]_atexitVars
  BY <1>1, <1>2, Zenon
<1> QED
  BY <1>3, AtExitInvariance, PTL DEF AtExitSpec, FinalizeComplete
=============================================================================
