------------------------- MODULE FonDispatchProofs -------------------------
(***************************************************************************)
(* At most once and in order, for any number of clients, commands, boot    *)
(* jobs and crashes.                                                       *)
(***************************************************************************)
EXTENDS FonDispatch, SequenceTheorems, TLAPS

\* A function on 1 .. n is a sequence of length n.
LEMMA FunctionAsSeq ==
    ASSUME NEW S, NEW n \in Nat, NEW f \in [1 .. n -> S]
    PROVE  f \in Seq(S) /\ Len(f) = n
<1>1. f \in Seq(S)
  BY IsASeq
<1>2. Len(f) \in Nat /\ DOMAIN f = 1 .. Len(f) /\ DOMAIN f = 1 .. n
  BY <1>1, LenProperties
<1> QED  BY <1>1, <1>2

\* Inserting one element: the result is a sequence, one longer, and each of its
\* elements is the new one or an old one whose place moved by at most one.
LEMMA InsertFacts ==
    ASSUME NEW S, NEW q \in Seq(S), NEW e \in S, NEW p \in 0 .. Len(q)
    PROVE  /\ InsertAfter(q, p, e) \in Seq(S)
           /\ Len(InsertAfter(q, p, e)) = Len(q) + 1
           /\ \A j \in 1 .. p : InsertAfter(q, p, e)[j] = q[j]
           /\ InsertAfter(q, p, e)[p + 1] = e
           /\ \A j \in p + 2 .. Len(q) + 1 : InsertAfter(q, p, e)[j] = q[j - 1]
<1> DEFINE f == InsertAfter(q, p, e)
<1>1. Len(q) \in Nat /\ q \in [1 .. Len(q) -> S] /\ Len(q) + 1 \in Nat
  BY LenProperties
<1>2. f \in [1 .. Len(q) + 1 -> S]
  BY <1>1 DEF InsertAfter
<1>3. f \in Seq(S) /\ Len(f) = Len(q) + 1
  BY <1>1, <1>2, FunctionAsSeq
<1>4. /\ \A j \in 1 .. p : f[j] = q[j]
      /\ f[p + 1] = e
      /\ \A j \in p + 2 .. Len(q) + 1 : f[j] = q[j - 1]
  BY <1>1 DEF InsertAfter
<1> QED  BY <1>3, <1>4

\* Dropping one element: likewise, one shorter.
LEMMA DropFacts ==
    ASSUME NEW S, NEW q \in Seq(S), NEW i \in 1 .. Len(q)
    PROVE  /\ DropAt(q, i) \in Seq(S)
           /\ Len(DropAt(q, i)) = Len(q) - 1
           /\ \A j \in 1 .. Len(q) - 1 :
                 DropAt(q, i)[j] = IF j < i THEN q[j] ELSE q[j + 1]
<1> DEFINE f == DropAt(q, i)
<1>1. Len(q) \in Nat /\ q \in [1 .. Len(q) -> S] /\ Len(q) - 1 \in Nat
  BY LenProperties
<1>2. f \in [1 .. Len(q) - 1 -> S]
  BY <1>1 DEF DropAt
<1>3. f \in Seq(S) /\ Len(f) = Len(q) - 1
  BY <1>1, <1>2, FunctionAsSeq
<1> QED  BY <1>3 DEF DropAt

\* Appending one element.
LEMMA AppendFacts ==
    ASSUME NEW S, NEW q \in Seq(S), NEW e \in S
    PROVE  /\ Append(q, e) \in Seq(S)
           /\ Len(Append(q, e)) = Len(q) + 1
           /\ \A j \in 1 .. Len(q) + 1 : Append(q, e)[j] = IF j <= Len(q) THEN q[j] ELSE e
<1>1. Len(q) \in Nat
  BY LenProperties
<1> QED  BY <1>1, AppendProperties

\* Appending is inserting at the end.
LEMMA AppendIsInsert ==
    ASSUME NEW S, NEW q \in Seq(S), NEW e \in S
    PROVE  Append(q, e) = InsertAfter(q, Len(q), e)
<1> DEFINE f == InsertAfter(q, Len(q), e)
           a == Append(q, e)
<1>1. Len(q) \in Nat /\ Len(q) \in 0 .. Len(q)
  BY LenProperties
<1>2. /\ f \in Seq(S) /\ Len(f) = Len(q) + 1
      /\ \A j \in 1 .. Len(q) : f[j] = q[j]
      /\ f[Len(q) + 1] = e
  BY <1>1, InsertFacts
<1>3. /\ a \in Seq(S) /\ Len(a) = Len(q) + 1
      /\ \A j \in 1 .. Len(q) : a[j] = q[j]
      /\ a[Len(q) + 1] = e
  BY <1>1, AppendFacts
<1> HIDE DEF f, a
<1>4. \A j \in 1 .. Len(a) : a[j] = f[j]
  BY <1>1, <1>2, <1>3
<1> QED  BY <1>2, <1>3, <1>4, SeqEqual DEF f, a

-----------------------------------------------------------------------------
\* Nothing has been sent at the start.
LEMMA InitInv == Init => DispatchInv
<1> SUFFICES ASSUME Init
             PROVE  DispatchInv
  OBVIOUS
<1>1. TypeOK
  BY DEF Init, TypeOK
<1>2. 1 .. Len(accepted) = {} /\ 1 .. Len(ran) = {}
  BY DEF Init
<1> QED
  BY <1>1, <1>2
     DEF DispatchInv, Numbered, WaitInOrder, BootNotFast, RanBeforeWaiting, AtMostOnce, SourceOrder

\* The lengths and elements of the two sequences have their types.
LEMMA SeqTypes ==
    TypeOK => /\ Len(accepted) \in Nat /\ Len(ran) \in Nat
              /\ \A j \in 1 .. Len(accepted) : accepted[j] \in Commands
              /\ \A j \in 1 .. Len(ran) : ran[j] \in Commands
  BY LenProperties, ElementOfSeq DEF TypeOK

\* The next command of a source is a command, above all its earlier ones.
LEMMA FollowingFacts ==
    ASSUME DispatchInv, NEW s \in Sources, Advance(s)
    PROVE  /\ Following(s) \in Commands
           /\ upto' \in [Sources -> Nat]
           /\ Following(s).src = s /\ Following(s).n = upto'[s] /\ upto'[s] = upto[s] + 1
           /\ \A j \in 1 .. Len(accepted) :
                 /\ accepted[j].n <= upto'[accepted[j].src]
                 /\ accepted[j].src = s => accepted[j].n < Following(s).n
                 /\ accepted[j] # Following(s)
           /\ \A j \in 1 .. Len(ran) :
                 /\ ran[j].n <= upto'[ran[j].src]
                 /\ ran[j].src = s => ran[j].n < Following(s).n
                 /\ ran[j] # Following(s)
<1>1. /\ upto \in [Sources -> Nat] /\ upto[s] \in Nat
      /\ \A j \in 1 .. Len(accepted) : accepted[j] \in Commands
      /\ \A j \in 1 .. Len(ran) : ran[j] \in Commands
  BY SeqTypes DEF DispatchInv, TypeOK
<1>2. /\ Following(s) \in Commands
      /\ Following(s).src = s /\ Following(s).n = upto[s] + 1
  BY <1>1 DEF Following, Commands
<1>3. upto' \in [Sources -> Nat] /\ upto'[s] = upto[s] + 1
  BY <1>1 DEF Advance
<1>4. \A c \in Commands : c.n <= upto[c.src] =>
         c.n <= upto'[c.src] /\ (c.src = s => c.n < upto[s] + 1)
  BY <1>1 DEF Advance, Commands
<1> QED  BY <1>1, <1>2, <1>3, <1>4 DEF DispatchInv, Numbered

-----------------------------------------------------------------------------
\* A command is put at place p + 1 of the waiting ones; p is the end of the
\* queue for a received command, the end of the boot jobs for a boot job.
LEMMA InsertInv ==
    ASSUME DispatchInv, NEW s \in Sources, Advance(s), NEW p \in 0 .. Len(accepted),
           accepted' = InsertAfter(accepted, p, Following(s)),
           \A j \in p + 1 .. Len(accepted) : accepted[j].src # s,
           s \in Boot => Following(s) \notin Fast,
           UNCHANGED ran, active' \in Commands \cup {NoCommand}
    PROVE  DispatchInv'
<1> DEFINE new == Following(s)
<1>t. /\ accepted \in Seq(Commands) /\ Len(accepted) \in Nat /\ Len(ran) \in Nat
      /\ ran \in Seq(Commands)
      /\ \A j \in 1 .. Len(accepted) : accepted[j] \in Commands
      /\ \A j \in 1 .. Len(ran) : ran[j] \in Commands
  BY SeqTypes DEF DispatchInv, TypeOK
<1>f. /\ new \in Commands
      /\ upto' \in [Sources -> Nat]
      /\ new.src = s /\ new.n = upto'[s]
      /\ \A j \in 1 .. Len(accepted) :
            /\ accepted[j].n <= upto'[accepted[j].src]
            /\ accepted[j].src = s => accepted[j].n < new.n
            /\ accepted[j] # new
      /\ \A j \in 1 .. Len(ran) :
            /\ ran[j].n <= upto'[ran[j].src]
            /\ ran[j].src = s => ran[j].n < new.n
            /\ ran[j] # new
  BY FollowingFacts
<1>i. /\ accepted' \in Seq(Commands)
      /\ Len(accepted') = Len(accepted) + 1
      /\ \A j \in 1 .. p : accepted'[j] = accepted[j]
      /\ accepted'[p + 1] = new
      /\ \A j \in p + 2 .. Len(accepted) + 1 : accepted'[j] = accepted[j - 1]
  <2> DEFINE q == accepted
  <2>1. q \in Seq(Commands) /\ p \in 0 .. Len(q) /\ new \in Commands
    BY <1>t, <1>f
  <2>2. accepted' = InsertAfter(q, p, new)
    OBVIOUS
  <2> HIDE DEF q, new
  <2>4. /\ InsertAfter(q, p, new) \in Seq(Commands)
        /\ Len(InsertAfter(q, p, new)) = Len(q) + 1
    BY <2>1, InsertFacts
  <2>5. InsertAfter(q, p, new)[p + 1] = new
    BY <2>1, InsertFacts
  <2>6. \A j \in 1 .. p : InsertAfter(q, p, new)[j] = q[j]
    BY <2>1, InsertFacts
  <2>7. \A j \in p + 2 .. Len(q) + 1 : InsertAfter(q, p, new)[j] = q[j - 1]
    BY <2>1, InsertFacts
  <2> QED  BY <2>2, <2>4, <2>5, <2>6, <2>7 DEF q
<1> HIDE DEF new
<1>e. \A j \in 1 .. Len(accepted') :
         \/ accepted'[j] = new
         \/ \E k \in 1 .. Len(accepted) : accepted'[j] = accepted[k]
  <2> SUFFICES ASSUME NEW j \in 1 .. Len(accepted')
               PROVE  \/ accepted'[j] = new
                      \/ \E k \in 1 .. Len(accepted) : accepted'[j] = accepted[k]
    OBVIOUS
  <2>1. CASE j \in 1 .. p
    BY <2>1, <1>i, <1>t
  <2>2. CASE j = p + 1
    BY <2>2, <1>i
  <2>3. CASE j \in p + 2 .. Len(accepted) + 1
    <3>1. j - 1 \in 1 .. Len(accepted)
      BY <2>3, <1>t
    <3> QED  BY <2>3, <3>1, <1>i
  <2> QED  BY <2>1, <2>2, <2>3, <1>i, <1>t
<1>1. TypeOK'
  BY <1>f, <1>i, <1>t DEF TypeOK
<1>2. Numbered'
  <2>1. new.n <= upto'[new.src]
    BY <1>f DEF Commands
  <2> QED  BY <2>1, <1>f, <1>e, <1>t DEF Numbered
<1>3. WaitInOrder'
  <2> SUFFICES ASSUME NEW i \in 1 .. Len(accepted'), NEW j \in 1 .. Len(accepted'), i < j,
                      accepted'[i].src = accepted'[j].src
               PROVE  accepted'[i].n < accepted'[j].n
    BY DEF WaitInOrder
  <2>r. i \in Nat /\ j \in Nat /\ i <= Len(accepted) /\ j <= Len(accepted) + 1 /\ i >= 1
    BY <1>i, <1>t
  <2>w. \A k, l \in 1 .. Len(accepted) :
           k < l /\ accepted[k].src = accepted[l].src => accepted[k].n < accepted[l].n
    BY DEF DispatchInv, WaitInOrder
  <2>1. CASE j <= p
    <3>1. i \in 1 .. p /\ j \in 1 .. p /\ i \in 1 .. Len(accepted) /\ j \in 1 .. Len(accepted)
      BY <2>1, <2>r, <1>t
    <3> QED  BY <3>1, <2>w, <1>i
  <2>2. CASE j = p + 1
    <3>1. i \in 1 .. p /\ i \in 1 .. Len(accepted)
      BY <2>2, <2>r, <1>t
    <3> QED  BY <2>2, <3>1, <1>i, <1>f
  <2>3. CASE j >= p + 2
    <3>1. /\ j \in p + 2 .. Len(accepted) + 1
          /\ j - 1 \in p + 1 .. Len(accepted) /\ j - 1 \in 1 .. Len(accepted)
          /\ i \in 1 .. Len(accepted)
      BY <2>3, <2>r, <1>t
    <3>2. accepted'[j] = accepted[j - 1] /\ accepted[j - 1].src # s
      BY <3>1, <1>i
    <3>3. CASE i <= p
      <4>1. i \in 1 .. p /\ i < j - 1
        BY <3>3, <2>r, <2>3
      <4> QED  BY <4>1, <3>1, <3>2, <2>w, <1>i
    <3>4. CASE i = p + 1
      BY <3>4, <3>2, <1>i, <1>f
    <3>5. CASE i >= p + 2
      <4>1. /\ i \in p + 2 .. Len(accepted) + 1 /\ i - 1 \in 1 .. Len(accepted)
            /\ i - 1 < j - 1
        BY <3>5, <2>r, <3>1
      <4>2. accepted'[i] = accepted[i - 1]
        BY <4>1, <1>i
      <4> QED  BY <4>1, <4>2, <3>1, <3>2, <2>w
    <3> QED  BY <3>3, <3>4, <3>5, <2>r
  <2> QED  BY <2>1, <2>2, <2>3, <2>r
<1>4. BootNotFast'
  BY <1>f, <1>e, <1>t DEF BootNotFast, DispatchInv, new
<1>5. RanBeforeWaiting'
  <2> SUFFICES ASSUME NEW i \in 1 .. Len(ran), NEW j \in 1 .. Len(accepted'),
                      ran[i].src = accepted'[j].src, SameClass(ran[i], accepted'[j])
               PROVE  ran[i].n < accepted'[j].n
    BY DEF RanBeforeWaiting
  <2>1. CASE accepted'[j] = new
    BY <2>1, <1>f
  <2>2. ASSUME NEW k \in 1 .. Len(accepted), accepted'[j] = accepted[k]
        PROVE  ran[i].n < accepted'[j].n
    BY <2>2 DEF DispatchInv, RanBeforeWaiting
  <2> QED  BY <2>1, <2>2, <1>e
<1>6. AtMostOnce'
  BY <1>f, <1>e DEF AtMostOnce, DispatchInv
<1>7. SourceOrder'
  BY <1>t DEF SourceOrder, DispatchInv
<1> QED  BY <1>1, <1>2, <1>3, <1>4, <1>5, <1>6, <1>7 DEF DispatchInv

\* A command that may start does not overtake one of its source and class.
LEMMA StartInv ==
    ASSUME DispatchInv, NEW i \in 1 .. Len(accepted), Start(i)
    PROVE  DispatchInv'
<1> DEFINE c == accepted[i]
<1>t. /\ accepted \in Seq(Commands) /\ Len(accepted) \in Nat /\ Len(ran) \in Nat
      /\ ran \in Seq(Commands) /\ c \in Commands
      /\ \A j \in 1 .. Len(accepted) : accepted[j] \in Commands
      /\ \A j \in 1 .. Len(ran) : ran[j] \in Commands
  BY SeqTypes DEF DispatchInv, TypeOK
<1>d. /\ accepted' \in Seq(Commands)
      /\ Len(accepted') = Len(accepted) - 1
      /\ \A j \in 1 .. Len(accepted) - 1 :
            accepted'[j] = IF j < i THEN accepted[j] ELSE accepted[j + 1]
  BY <1>t, DropFacts DEF Start
<1>a. /\ ran' \in Seq(Commands)
      /\ Len(ran') = Len(ran) + 1
      /\ \A j \in 1 .. Len(ran) + 1 : ran'[j] = IF j <= Len(ran) THEN ran[j] ELSE c
  BY <1>t, AppendFacts DEF Start
<1>u. upto' = upto /\ active' = c
  BY DEF Start
<1>e. \A j \in 1 .. Len(accepted) - 1 :
         \E k \in 1 .. Len(accepted) : k # i /\ accepted'[j] = accepted[k]
  <2> SUFFICES ASSUME NEW j \in 1 .. Len(accepted) - 1
               PROVE  \E k \in 1 .. Len(accepted) : k # i /\ accepted'[j] = accepted[k]
    OBVIOUS
  <2>1. CASE j < i
    BY <2>1, <1>d, <1>t
  <2>2. CASE ~(j < i)
    <3>1. j + 1 \in 1 .. Len(accepted) /\ j + 1 # i
      BY <2>2, <1>t
    <3> QED  BY <2>2, <3>1, <1>d
  <2> QED  BY <2>1, <2>2
<1>o. \A k \in 1 .. Len(accepted) :
         k # i =>
            /\ accepted[k] # c
            /\ accepted[k].src = c.src /\ SameClass(c, accepted[k]) => c.n < accepted[k].n
  <2> SUFFICES ASSUME NEW k \in 1 .. Len(accepted), k # i
               PROVE  /\ accepted[k] # c
                      /\ accepted[k].src = c.src /\ SameClass(c, accepted[k]) => c.n < accepted[k].n
    OBVIOUS
  <2>n. \A a, b \in Commands : a.n < b.n => a # b
    BY DEF Commands
  <2>1. CASE k > i
    BY <2>1, <1>t, <2>n DEF DispatchInv, WaitInOrder
  <2>2. CASE k < i
    <3>1. c \in Fast /\ accepted[k] \notin Fast
      BY <2>2, <1>t DEF Start, MayStart
    <3> QED  BY <3>1 DEF SameClass
  <2> QED  BY <2>1, <2>2, <1>t
<1> HIDE DEF c
<1>1. TypeOK'
  BY <1>t, <1>d, <1>a, <1>u DEF TypeOK, DispatchInv
<1>2. Numbered'
  <2>1. \A j \in 1 .. Len(accepted') : accepted'[j].n <= upto'[accepted'[j].src]
    BY <1>t, <1>d, <1>u, <1>e DEF Numbered, DispatchInv
  <2>2. \A j \in 1 .. Len(ran') : ran'[j].n <= upto'[ran'[j].src]
    BY <1>t, <1>a, <1>u DEF Numbered, DispatchInv, c
  <2> QED  BY <2>1, <2>2 DEF Numbered
<1>3. WaitInOrder'
  <2> SUFFICES ASSUME NEW j \in 1 .. Len(accepted'), NEW k \in 1 .. Len(accepted'), j < k,
                      accepted'[j].src = accepted'[k].src
               PROVE  accepted'[j].n < accepted'[k].n
    BY DEF WaitInOrder
  <2> DEFINE J == IF j < i THEN j ELSE j + 1
             K == IF k < i THEN k ELSE k + 1
  <2>1. J \in 1 .. Len(accepted) /\ K \in 1 .. Len(accepted) /\ J < K
    BY <1>d, <1>t
  <2>2. accepted'[j] = accepted[J] /\ accepted'[k] = accepted[K]
    BY <1>d, <1>t
  <2> HIDE DEF J, K
  <2> QED  BY <2>1, <2>2 DEF DispatchInv, WaitInOrder
<1>4. BootNotFast'
  BY <1>t, <1>d, <1>e DEF BootNotFast, DispatchInv
<1>r. \A j \in 1 .. Len(ran') : ran'[j] = c \/ (j \in 1 .. Len(ran) /\ ran'[j] = ran[j])
  BY <1>a, <1>t
<1>5. RanBeforeWaiting'
  <2> SUFFICES ASSUME NEW j \in 1 .. Len(ran'), NEW k \in 1 .. Len(accepted'),
                      ran'[j].src = accepted'[k].src, SameClass(ran'[j], accepted'[k])
               PROVE  ran'[j].n < accepted'[k].n
    BY DEF RanBeforeWaiting, SameClass
  <2>1. PICK l \in 1 .. Len(accepted) : l # i /\ accepted'[k] = accepted[l]
    BY <1>d, <1>e
  <2>2. CASE ran'[j] = c
    BY <2>1, <2>2, <1>o
  <2>3. CASE j \in 1 .. Len(ran) /\ ran'[j] = ran[j]
    BY <2>1, <2>3 DEF DispatchInv, RanBeforeWaiting
  <2> QED  BY <2>2, <2>3, <1>r
<1>6. AtMostOnce'
  <2>1. ASSUME NEW j \in 1 .. Len(ran'), NEW k \in 1 .. Len(ran'), j # k
        PROVE  ran'[j] # ran'[k]
    <3>1. \A l \in 1 .. Len(ran) : ran[l] # c
      BY DEF DispatchInv, AtMostOnce, c
    <3>2. CASE j \in 1 .. Len(ran) /\ k \in 1 .. Len(ran)
      BY <3>2, <2>1, <1>a, <1>t DEF DispatchInv, AtMostOnce
    <3>3. CASE j = Len(ran) + 1 /\ k \in 1 .. Len(ran)
      BY <3>1, <3>3, <1>a, <1>t
    <3>4. CASE k = Len(ran) + 1 /\ j \in 1 .. Len(ran)
      BY <3>1, <3>4, <1>a, <1>t
    <3> QED  BY <2>1, <3>2, <3>3, <3>4, <1>a, <1>t
  <2>2. ASSUME NEW j \in 1 .. Len(ran'), NEW k \in 1 .. Len(accepted')
        PROVE  ran'[j] # accepted'[k]
    <3>1. PICK l \in 1 .. Len(accepted) : l # i /\ accepted'[k] = accepted[l]
      BY <1>d, <1>e
    <3> QED  BY <3>1, <1>r, <1>o DEF DispatchInv, AtMostOnce
  <2> QED  BY <2>1, <2>2 DEF AtMostOnce
<1>7. SourceOrder'
  BY <1>t, <1>a DEF SourceOrder, RanBeforeWaiting, DispatchInv, SameClass, c
<1> QED  BY <1>1, <1>2, <1>3, <1>4, <1>5, <1>6, <1>7 DEF DispatchInv

\* A fast boot job starts at once: no other fast one of its source waits.
LEMMA StartBootInv ==
    ASSUME DispatchInv, NEW s \in Sources, StartBoot(s)
    PROVE  DispatchInv'
<1> DEFINE new == Following(s)
<1>t. /\ accepted \in Seq(Commands) /\ Len(accepted) \in Nat /\ Len(ran) \in Nat
      /\ ran \in Seq(Commands)
      /\ \A j \in 1 .. Len(accepted) : accepted[j] \in Commands
      /\ \A j \in 1 .. Len(ran) : ran[j] \in Commands
  BY SeqTypes DEF DispatchInv, TypeOK
<1>s. Advance(s) /\ new \in Fast /\ s \in Boot /\ accepted' = accepted /\ active' = new
  BY DEF StartBoot
<1>f. /\ new \in Commands
      /\ upto' \in [Sources -> Nat]
      /\ new.src = s /\ new.n = upto'[s]
      /\ \A j \in 1 .. Len(accepted) :
            /\ accepted[j].n <= upto'[accepted[j].src]
            /\ accepted[j] # new
      /\ \A j \in 1 .. Len(ran) :
            /\ ran[j].n <= upto'[ran[j].src]
            /\ ran[j].src = s => ran[j].n < new.n
            /\ ran[j] # new
  BY <1>s, FollowingFacts
<1>a. /\ ran' \in Seq(Commands)
      /\ Len(ran') = Len(ran) + 1
      /\ \A j \in 1 .. Len(ran) + 1 : ran'[j] = IF j <= Len(ran) THEN ran[j] ELSE new
  BY <1>t, <1>f, AppendFacts DEF StartBoot
<1> HIDE DEF new
<1>1. TypeOK'
  BY <1>t, <1>s, <1>f, <1>a DEF TypeOK
<1>r. \A j \in 1 .. Len(ran') : ran'[j] = new \/ (j \in 1 .. Len(ran) /\ ran'[j] = ran[j])
  BY <1>a, <1>t
<1>2. Numbered'
  <2>1. new.n <= upto'[new.src]
    BY <1>f DEF Commands
  <2> QED  BY <2>1, <1>f, <1>r, <1>s DEF Numbered
<1>3. WaitInOrder' /\ BootNotFast'
  BY <1>s DEF WaitInOrder, BootNotFast, DispatchInv
<1>5. RanBeforeWaiting'
  <2> SUFFICES ASSUME NEW j \in 1 .. Len(ran'), NEW k \in 1 .. Len(accepted),
                      ran'[j].src = accepted[k].src, SameClass(ran'[j], accepted[k])
               PROVE  ran'[j].n < accepted[k].n
    BY <1>s DEF RanBeforeWaiting, SameClass
  <2>1. CASE ran'[j] = new
    BY <2>1, <1>s, <1>f DEF DispatchInv, BootNotFast, SameClass
  <2>2. CASE j \in 1 .. Len(ran) /\ ran'[j] = ran[j]
    BY <2>2 DEF DispatchInv, RanBeforeWaiting
  <2> QED  BY <2>1, <2>2, <1>r
<1>6. AtMostOnce'
  <2>1. ASSUME NEW j \in 1 .. Len(ran'), NEW k \in 1 .. Len(ran'), j # k
        PROVE  ran'[j] # ran'[k]
    <3>1. CASE j \in 1 .. Len(ran) /\ k \in 1 .. Len(ran)
      BY <3>1, <2>1, <1>a, <1>t DEF DispatchInv, AtMostOnce
    <3>2. CASE j = Len(ran) + 1 /\ k \in 1 .. Len(ran)
      BY <3>2, <1>a, <1>t, <1>f
    <3>3. CASE k = Len(ran) + 1 /\ j \in 1 .. Len(ran)
      BY <3>3, <1>a, <1>t, <1>f
    <3> QED  BY <2>1, <3>1, <3>2, <3>3, <1>a, <1>t
  <2>2. ASSUME NEW j \in 1 .. Len(ran'), NEW k \in 1 .. Len(accepted)
        PROVE  ran'[j] # accepted[k]
    BY <1>r, <1>f DEF DispatchInv, AtMostOnce
  <2> QED  BY <2>1, <2>2, <1>s DEF AtMostOnce
<1>7. SourceOrder'
  BY <1>t, <1>f, <1>a DEF SourceOrder, DispatchInv, SameClass
<1> QED  BY <1>1, <1>2, <1>3, <1>5, <1>6, <1>7 DEF DispatchInv

-----------------------------------------------------------------------------
\* The invariant holds in every reachable state of the abstract daemon.
THEOREM DispatchInvHolds == Spec => []DispatchInv
<1>1. DispatchInv /\ [Next]_vars => DispatchInv'
  <2> SUFFICES ASSUME DispatchInv, [Next]_vars
               PROVE  DispatchInv'
    OBVIOUS
  <2>t. Len(accepted) \in Nat /\ active \in Commands \cup {NoCommand}
    BY SeqTypes DEF DispatchInv, TypeOK
  <2>1. ASSUME NEW s \in Sources, Accept(s)
        PROVE  DispatchInv'
    <3>1. accepted' = InsertAfter(accepted, Len(accepted), Following(s))
      <4>1. Following(s) \in Commands /\ accepted \in Seq(Commands)
        BY <2>1, FollowingFacts DEF Accept, DispatchInv, TypeOK
      <4> QED  BY <2>1, <4>1, AppendIsInsert DEF Accept
    <3>2. \A j \in Len(accepted) + 1 .. Len(accepted) : accepted[j].src # s
      BY <2>t
    <3> QED  BY <2>1, <2>t, <3>1, <3>2, InsertInv DEF Accept
  <2>2. ASSUME NEW s \in Sources, NEW p \in 0 .. Len(accepted), AcceptBoot(s, p)
        PROVE  DispatchInv'
    BY <2>2, <2>t, InsertInv DEF AcceptBoot
  <2>3. ASSUME NEW s \in Sources, Lose(s)
        PROVE  DispatchInv'
    <3>1. Advance(s) /\ UNCHANGED <<accepted, active, ran>>
      BY <2>3 DEF Lose
    <3>2. TypeOK' /\ Numbered'
      BY <3>1, FollowingFacts DEF DispatchInv, TypeOK, Numbered
    <3> QED
      BY <3>1, <3>2
         DEF DispatchInv, WaitInOrder, BootNotFast, RanBeforeWaiting, AtMostOnce, SourceOrder, SameClass
  <2>4. CASE Finish
    BY <2>4
       DEF Finish, DispatchInv, TypeOK, Numbered, WaitInOrder, BootNotFast, RanBeforeWaiting,
           AtMostOnce, SourceOrder, SameClass
  <2>5. CASE Crash
    <3>1. TypeOK' /\ 1 .. Len(accepted') = {}
      BY <2>5 DEF Crash, DispatchInv, TypeOK
    <3> QED
      BY <2>5, <3>1
         DEF Crash, DispatchInv, Numbered, WaitInOrder, BootNotFast, RanBeforeWaiting,
             AtMostOnce, SourceOrder, SameClass
  <2>6. CASE UNCHANGED vars
    BY <2>6
       DEF vars, DispatchInv, TypeOK, Numbered, WaitInOrder, BootNotFast, RanBeforeWaiting,
           AtMostOnce, SourceOrder, SameClass
  <2> QED  BY <2>1, <2>2, <2>3, <2>4, <2>5, <2>6, StartInv, StartBootInv DEF Next
<1> QED  BY <1>1, InitInv, PTL DEF Spec

\* No command runs twice.
THEOREM AtMostOnceHolds == Spec => []AtMostOnce
<1>1. DispatchInv => AtMostOnce
  BY DEF DispatchInv
<1> QED  BY <1>1, DispatchInvHolds, PTL

\* Commands of one source and class start in the order they were sent.
THEOREM SourceOrderHolds == Spec => []SourceOrder
<1>1. DispatchInv => SourceOrder
  BY DEF DispatchInv
<1> QED  BY <1>1, DispatchInvHolds, PTL
=============================================================================
