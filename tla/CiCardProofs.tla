---------------------------- MODULE CiCardProofs ----------------------------
(* What CiCard promises of a card, for any programs, card and order of its     *)
(* messages: the invariant, the filter of the descriptors, and one lemma per   *)
(* part of the invariant and kind of step.                                     *)
EXTENDS CiCard, TLAPS, SequenceTheorems, WellFoundedInduction

(* The inductive invariant. *)

Marks == {"none", "CA_PMT_LIST_FIRST", "CA_PMT_LIST_LAST", "CA_PMT_LIST_ONLY", "CA_PMT_LIST_ADD"}
Writes == Polls \cup SessionTpdus \cup Enquiries \cup Replies
Steps == Writes \cup {"drop", "answer", "ready", "enable"}
QueryPcs == {"off", "start", "top", "get", "inc", "got", "poll", "read", "handle", "send",
             "dcas", "frame", "write"}
LoadPcs == {"idle", "stop", "clear", "set", "copy", "start"}
CaPmt == [prog : Progs, mark : {"more", "last", "only", "missing"},
          desc : Seq(Descriptor), es : Seq(Stream)]

\* Types.
Section == [index : 0..Len(Pmt), programtotal : 0..Len(Pmt),
            section : [Progs -> Progs \cup {NoProg}]]
Query == [pc : QueryPcs, idx : -1..(Len(Pmt) - 1), script : Seq(Steps),
          prog : Progs \cup {NoProg}, mark : Marks]
Load == [pc : LoadPcs, list : Seq(Progs), k : Nat]
Types ==
  /\ cur_section \in Section
  /\ send_pmt_en0 \in BOOLEAN /\ send_pmt_status0 \in BOOLEAN /\ init_pmt_setA \in BOOLEAN
  /\ cardasend \in BOOLEAN /\ ci_in_busy_sending \in BOOLEAN
  /\ card_status \in {"none", "exist", "ready"} /\ sys_ids \subseteq CardIds
  /\ ci_max_cnt \in Nat \ {0}
  /\ query \in Query
  /\ loader \in [Loader -> Load]
  /\ boot \in {"apply", "detect", "size", "link", "done"}
  /\ c2h \in Seq(SB \cup CardMsgs)
  /\ want \in Seq(Progs) /\ sent \in Seq(CaPmt)

\* Where a caller of loadPMT is in its list.
LoadsFit ==
  \A t \in Loader : LET l == loader[t] IN
    /\ Len(l.list) <= Len(Pmt)
    /\ l.pc \in {"stop", "clear", "set"} => l.k = 1
    /\ l.pc = "copy" => l.k \in 1..Len(l.list)

\* Before main has called CIStart nobody has used the section.
BootFirst ==
  boot # "done" => /\ query = Idle /\ loader = [t \in Loader |-> NoLoad]
                   /\ cur_section.index = 0 /\ sent = <<>>

\* Where the query thread is with the program in hand.
HandFits ==
  /\ query.pc \in {"off", "start", "top", "get", "inc"} => query.idx = -1
  /\ query.pc \in {"got", "dcas", "frame", "write"} => query.idx # -1
  /\ query.pc = "inc" => cur_section.index < Len(Pmt)
  /\ query.pc = "handle" => query.script # <<>>
  /\ query.pc \in {"frame", "write"} => query.mark # "none"

\* A program is sent only when the card's systems are known.
SystemsKnown ==
  /\ card_status = "ready" => sys_ids = CardIds
  /\ query.pc \in {"dcas", "frame", "write"} => card_status = "ready"

TypeInv == Types /\ LoadsFit /\ BootFirst /\ HandFits /\ SystemsKnown

\* The polling: a message is on its way or the handler in hand writes yet.
HasWrite(s) == \E i \in DOMAIN s : s[i] \in Writes
DropsFollowed(s) ==
  \A i \in DOMAIN s : s[i] = "drop" => \E j \in DOMAIN s : i < j /\ s[j] \in Writes
PollInv ==
  /\ query.pc \in {"off", "start"} => ~cardasend
  /\ query.pc = "read" => cardasend
  /\ query.pc = "handle" => DropsFollowed(query.script)
  /\ hist \cap Lasting = {} =>
       /\ cardasend /\ query.pc \in {"top", "get", "inc", "got", "read", "send", "dcas", "frame"}
            => c2h # <<>>
       /\ query.pc = "handle" => c2h # <<>> \/ HasWrite(query.script)

\* The list: how far it is copied while one caller loads it, and how far it is
\* sent when nobody does.
Clean == hist \cap {"raced", "early", "moved", "failed"} = {}
Taken == IF query.idx # -1 THEN query.idx ELSE cur_section.index
Loading(t) == loader[t].pc \notin {"idle", "stop"}

Copied(t) ==
  LET l == loader[t] IN
  /\ \A u \in Loader \ {t} : ~Loading(u)
  /\ query.idx = -1 /\ query.pc \notin {"inc", "got"}
  /\ want = l.list /\ sent = <<>>
  /\ l.pc \in {"set", "copy", "start"} => cur_section.index = 0
  /\ l.pc \in {"copy", "start"} => cur_section.programtotal = Len(l.list)
  /\ l.pc = "copy" => \A j \in 1..(l.k - 1) : cur_section.section[j] = l.list[j]
  /\ l.pc = "start" => \A j \in 1..Len(l.list) : cur_section.section[j] = l.list[j]

Listed ==
  /\ cur_section.programtotal = Len(want)
  /\ \A j \in 1..Len(want) : cur_section.section[j] = want[j]
  /\ cur_section.index <= Len(want) /\ query.idx < Len(want)
  /\ query.pc = "inc" => cur_section.index < Len(want)
  /\ query.pc = "got" => cur_section.index = query.idx
  /\ query.pc # "got" /\ query.idx # -1 => cur_section.index = query.idx + 1
  /\ query.pc = "inc" \/ query.idx # -1 => query.prog = want[Taken + 1]
  /\ query.pc \in {"frame", "write"} => query.idx + 1 < ci_max_cnt
  /\ Len(sent) = IF Taken < ci_max_cnt - 1 THEN Taken ELSE ci_max_cnt - 1
  /\ \A i \in 1..Len(sent) : sent[i].prog = want[i]

EnabledInv == Clean /\ (InGetPmt \/ query.idx # -1) => send_pmt_en0
LoadInv == Clean => \A t \in Loader : Loading(t) => Copied(t)
ListInv == Clean /\ ~LoadUnderWay => Listed
OrderInv == EnabledInv /\ LoadInv /\ ListInv

IInv == TypeInv /\ PollInv /\ OrderInv /\ DescriptorsKept

-----------------------------------------------------------------------------
(* Within *)

\* A set of naturals that is not empty has a least element.
LEMMA Least ==
  ASSUME NEW T, T \subseteq Nat, T # {}
  PROVE  \E x \in T : \A y \in T : ~(y < x)
<1> DEFINE R == OpToRel(<, Nat)
<1>1. IsWellFoundedOn(R, Nat)
  BY NatLessThanWellFounded
<1> HIDE DEF R
<1>2. PICK x \in T : \A y \in T : ~(<<y, x>> \in R)
  BY <1>1, WFMin
<1>3. \A y \in T : y < x => <<y, x>> \in R
  BY DEF R, OpToRel
<1> QED BY <1>2, <1>3

\* The recursion of Kept has a solution: the definition says what it looks like.
LEMMA KeptDef ==
  ASSUME NEW s, Len(s) \in Nat, NEW S
  PROVE  Kept(s, S) = [n \in 0..Len(s) |->
           IF n = 0 THEN <<>>
           ELSE IF s[n] \in S THEN Append(Kept(s, S)[n - 1], s[n]) ELSE Kept(s, S)[n - 1]]
<1> DEFINE Next1(f, n) == IF n = 0 THEN <<>>
                          ELSE IF s[n] \in S THEN Append(f[n - 1], s[n]) ELSE f[n - 1]
           Solves(f, N) == f = [n \in 0..N |-> Next1(f, n)]
           Bad == {N \in Nat : ~ \E f : Solves(f, N)}
<1>1. Bad = {}
  <2> SUFFICES ASSUME Bad # {} PROVE FALSE
    OBVIOUS
  <2>1. PICK N \in Bad : \A y \in Bad : ~(y < N)
    BY Least
  <2>2. N # 0
    <3> DEFINE g == [n \in 0..0 |-> <<>>]
    <3>1. Solves(g, 0)
      OBVIOUS
    <3> QED BY <3>1
  <2>3. N \in Nat /\ N - 1 \in Nat /\ N - 1 \notin Bad
    <3>1. N \in Nat
      OBVIOUS
    <3>2. N - 1 \in Nat /\ N - 1 < N
      BY <3>1, <2>2
    <3> HIDE DEF Bad
    <3> QED BY <3>1, <3>2, <2>1
  <2>4. PICK f : Solves(f, N - 1)
    BY <2>3
  <2> DEFINE g == [n \in 0..N |-> IF n = N THEN Next1(f, N) ELSE f[n]]
  <2>5. \A n \in 0..N : g[n] = Next1(g, n)
    <3> SUFFICES ASSUME NEW n \in 0..N PROVE g[n] = Next1(g, n)
      OBVIOUS
    <3>1. CASE n = 0
      BY <3>1, <2>2, <2>3, <2>4
    <3>2. CASE n # 0
      <4>1. n - 1 \in 0..N /\ n - 1 # N /\ g[n - 1] = f[n - 1]
        BY <3>2, <2>3
      <4>2. Next1(g, n) = Next1(f, n)
        BY <4>1
      <4>3. CASE n = N
        BY <4>2, <4>3
      <4>4. CASE n # N
        <5>1. n \in 0..(N - 1)
          BY <4>4, <2>3
        <5>2. f[n] = Next1(f, n)
          BY <5>1, <2>4
        <5> QED BY <5>2, <4>2, <4>4
      <4> QED BY <4>3, <4>4
    <3> QED BY <3>1, <3>2
  <2>6. Solves(g, N)
    BY <2>5
  <2> QED BY <2>6, <2>1
<1>2. PICK f : Solves(f, Len(s))
  BY <1>1
<1>3. Kept(s, S) = CHOOSE f1 : Solves(f1, Len(s))
  BY DEF Kept
<1>4. Solves(Kept(s, S), Len(s))
  BY <1>2, <1>3
<1> QED BY <1>4

\* Kept from one element to the next.
LEMMA KeptStep ==
  ASSUME NEW s, Len(s) \in Nat, NEW S
  PROVE  /\ Kept(s, S)[0] = <<>>
         /\ \A n \in 1..Len(s) :
              Kept(s, S)[n] = IF s[n] \in S THEN Append(Kept(s, S)[n - 1], s[n])
                              ELSE Kept(s, S)[n - 1]
<1> DEFINE k == Kept(s, S)
<1>1. k = [n \in 0..Len(s) |->
        IF n = 0 THEN <<>> ELSE IF s[n] \in S THEN Append(k[n - 1], s[n]) ELSE k[n - 1]]
  BY KeptDef
<1> HIDE DEF k
<1>2. k[0] = <<>>
  BY <1>1
<1>3. ASSUME NEW n \in 1..Len(s)
      PROVE  k[n] = IF s[n] \in S THEN Append(k[n - 1], s[n]) ELSE k[n - 1]
  <2>1. n \in 0..Len(s) /\ n # 0
    OBVIOUS
  <2> QED BY <1>1, <2>1
<1> QED BY <1>2, <1>3 DEF k

\* What is kept of the first n elements is a sequence of elements of s that are in
\* S, and not longer than n.
LEMMA KeptType ==
  ASSUME NEW T, NEW s \in Seq(T), NEW S
  PROVE  \A n \in 0..Len(s) : /\ Kept(s, S)[n] \in Seq(T \cap S)
                              /\ Len(Kept(s, S)[n]) <= n
<1> DEFINE k == Kept(s, S)
           P(n) == k[n] \in Seq(T \cap S) /\ Len(k[n]) <= n
           Bad == {n \in 0..Len(s) : ~P(n)}
<1>1. k[0] = <<>> /\ \A n \in 1..Len(s) : k[n] = IF s[n] \in S THEN Append(k[n - 1], s[n]) ELSE k[n - 1]
  BY KeptStep
<1> HIDE DEF k
<1>2. Bad = {}
  <2> SUFFICES ASSUME Bad # {} PROVE FALSE
    OBVIOUS
  <2>1. PICK n \in Bad : \A y \in Bad : ~(y < n)
    <3>1. Bad \subseteq Nat
      OBVIOUS
    <3> HIDE DEF Bad
    <3> QED BY <3>1, Least
  <2>2. n \in 0..Len(s) /\ ~P(n)
    OBVIOUS
  <2>3. P(0)
    BY <1>1
  <2>4. n \in 1..Len(s) /\ n - 1 \in 0..Len(s) /\ n - 1 < n
    BY <2>2, <2>3
  <2>5. P(n - 1)
    BY <2>1, <2>4
  <2>6. k[n] = IF s[n] \in S THEN Append(k[n - 1], s[n]) ELSE k[n - 1]
    BY <1>1, <2>4
  <2>7. s[n] \in T
    BY <2>4
  <2> DEFINE kn == k[n]
             kp == k[n - 1]
             e == s[n]
  <2>8. kp \in Seq(T \cap S) /\ Len(kp) <= n - 1
    BY <2>5
  <2>9. e \in T /\ kn = IF e \in S THEN Append(kp, e) ELSE kp
    BY <2>6, <2>7
  <2> HIDE DEF kn, kp, e
  <2>10. kn \in Seq(T \cap S) /\ Len(kn) <= n
    <3>1. CASE e \in S
      <4>1. kn = Append(kp, e) /\ e \in T \cap S
        BY <2>9, <3>1
      <4> QED BY <4>1, <2>8, <2>4
    <3>2. CASE e \notin S
      BY <2>8, <2>9, <3>2, <2>4
    <3> QED BY <3>1, <3>2
  <2> QED BY <2>10, <2>2 DEF kn
<1> QED BY <1>2 DEF k

\* Within: its elements, and that it is not longer.
LEMMA WithinType ==
  ASSUME NEW T, NEW s \in Seq(T), NEW S
  PROVE  Within(s, S) \in Seq(T \cap S) /\ Within(s, S) \in Seq(T) /\ Len(Within(s, S)) <= Len(s)
<1>1. Len(s) \in 0..Len(s)
  OBVIOUS
<1>2. Within(s, S) \in Seq(T \cap S) /\ Len(Within(s, S)) <= Len(s)
  BY <1>1, KeptType DEF Within
<1>3. Seq(T \cap S) \subseteq Seq(T)
  OBVIOUS
<1> QED BY <1>2, <1>3

\* What is kept of fewer elements is a prefix of what is kept of more.
LEMMA KeptPrefix ==
  ASSUME NEW T, NEW s \in Seq(T), NEW S
  PROVE  \A m \in 0..Len(s) : \A n \in 0..m :
           /\ Len(Kept(s, S)[n]) <= Len(Kept(s, S)[m])
           /\ \A i \in 1..Len(Kept(s, S)[n]) : Kept(s, S)[m][i] = Kept(s, S)[n][i]
<1> DEFINE k == Kept(s, S)
           Q(n, m) == Len(k[n]) <= Len(k[m]) /\ \A i \in 1..Len(k[n]) : k[m][i] = k[n][i]
           P(m) == \A n \in 0..m : Q(n, m)
           Bad == {m \in 0..Len(s) : ~P(m)}
<1>1. k[0] = <<>> /\ \A n \in 1..Len(s) : k[n] = IF s[n] \in S THEN Append(k[n - 1], s[n]) ELSE k[n - 1]
  BY KeptStep
<1>2. \A n \in 0..Len(s) : k[n] \in Seq(T)
  <2>1. Seq(T \cap S) \subseteq Seq(T)
    OBVIOUS
  <2> QED BY KeptType, <2>1
<1> HIDE DEF k
<1>3. Bad = {}
  <2> SUFFICES ASSUME Bad # {} PROVE FALSE
    OBVIOUS
  <2>1. PICK m \in Bad : \A y \in Bad : ~(y < m)
    <3>1. Bad \subseteq Nat
      OBVIOUS
    <3> HIDE DEF Bad
    <3> QED BY <3>1, Least
  <2>2. m \in 0..Len(s) /\ ~P(m)
    OBVIOUS
  <2>3. P(0)
    <3>1. 0..0 = {0} /\ 0 \in 0..Len(s)
      OBVIOUS
    <3>2. Len(k[0]) \in Nat
      BY <1>1
    <3> QED BY <3>1, <3>2
  <2>4. m \in 1..Len(s) /\ m - 1 \in 0..Len(s) /\ m - 1 < m
    BY <2>2, <2>3
  <2>5. P(m - 1)
    BY <2>1, <2>4
  <2>6. Q(m - 1, m)
    <3> DEFINE kn == k[m]
               kp == k[m - 1]
               e == s[m]
    <3>1. kp \in Seq(T) /\ e \in T
      BY <1>2, <2>4
    <3>2. kn = IF e \in S THEN Append(kp, e) ELSE kp
      BY <1>1, <2>4
    <3>3. Len(kp) <= Len(kn) /\ \A i \in 1..Len(kp) : kn[i] = kp[i]
      <4> HIDE DEF kn, kp, e
      <4>1. CASE e \in S
        BY <4>1, <3>1, <3>2
      <4>2. CASE e \notin S
        BY <4>2, <3>1, <3>2
      <4> QED BY <4>1, <4>2
    <3> QED BY <3>3
  <2>7. ASSUME NEW n \in 0..m PROVE Q(n, m)
    <3>1. k[n] \in Seq(T) /\ k[m] \in Seq(T) /\ k[m - 1] \in Seq(T)
      BY <2>2, <2>4, <1>2
    <3>2. CASE n = m
      BY <3>1, <3>2
    <3>3. CASE n # m
      <4>1. n \in 0..(m - 1)
        BY <3>3, <2>4
      <4>2. Q(n, m - 1)
        BY <4>1, <2>5
      <4> DEFINE a == k[n]
                 b == k[m - 1]
                 c == k[m]
      <4>3. a \in Seq(T) /\ b \in Seq(T) /\ c \in Seq(T)
        BY <3>1
      <4>4. Len(a) <= Len(b) /\ (\A i \in 1..Len(a) : b[i] = a[i])
        BY <4>2
      <4>5. Len(b) <= Len(c) /\ (\A i \in 1..Len(b) : c[i] = b[i])
        BY <2>6
      <4>6. Len(a) <= Len(c) /\ (\A i \in 1..Len(a) : c[i] = a[i])
        <5> HIDE DEF a, b, c
        <5> QED BY <4>3, <4>4, <4>5
      <4> QED BY <4>6
    <3> QED BY <3>2, <3>3
  <2> QED BY <2>7, <2>2
<1> QED BY <1>3 DEF k

\* What is kept of the elements already kept is what would have been kept at once.
LEMMA WithinWithin ==
  ASSUME NEW T, NEW s \in Seq(T), NEW A, NEW B, NEW C, B \subseteq A,
         \A i \in 1..Len(Within(s, A)) : Within(s, A)[i] \in C <=> Within(s, A)[i] \in B
  PROVE  Within(Within(s, A), C) = Within(s, B)
<1> DEFINE w == Within(s, A)
           a == Kept(s, A)
           b == Kept(s, B)
           c == Kept(w, C)
           P(n) == c[Len(a[n])] = b[n]
           Bad == {n \in 0..Len(s) : ~P(n)}
<1>1. w \in Seq(T) /\ w = a[Len(s)]
  BY WithinType DEF Within
<1>2. a[0] = <<>> /\ \A n \in 1..Len(s) : a[n] = IF s[n] \in A THEN Append(a[n - 1], s[n]) ELSE a[n - 1]
  BY KeptStep
<1>3. b[0] = <<>> /\ \A n \in 1..Len(s) : b[n] = IF s[n] \in B THEN Append(b[n - 1], s[n]) ELSE b[n - 1]
  BY KeptStep
<1>4. c[0] = <<>> /\ \A n \in 1..Len(w) : c[n] = IF w[n] \in C THEN Append(c[n - 1], w[n]) ELSE c[n - 1]
  BY <1>1, KeptStep
<1>5. \A n \in 0..Len(s) : a[n] \in Seq(T)
  <2>1. Seq(T \cap A) \subseteq Seq(T)
    OBVIOUS
  <2> QED BY KeptType, <2>1
<1>6. \A n \in 0..Len(s) : Len(a[n]) <= Len(w) /\ \A i \in 1..Len(a[n]) : w[i] = a[n][i]
  <2>1. Len(s) \in 0..Len(s)
    OBVIOUS
  <2>2. \A n \in 0..Len(s) : /\ Len(Kept(s, A)[n]) <= Len(Kept(s, A)[Len(s)])
                             /\ \A i \in 1..Len(Kept(s, A)[n]) : Kept(s, A)[Len(s)][i] = Kept(s, A)[n][i]
    BY <2>1, KeptPrefix, SMTT(60)
  <2> QED BY <2>2 DEF Within
<1>7. \A i \in 1..Len(w) : w[i] \in C <=> w[i] \in B
  OBVIOUS
<1> HIDE DEF w, a, b, c
<1>8. Bad = {}
  <2> SUFFICES ASSUME Bad # {} PROVE FALSE
    OBVIOUS
  <2>1. PICK n \in Bad : \A y \in Bad : ~(y < n)
    <3>1. Bad \subseteq Nat
      OBVIOUS
    <3> HIDE DEF Bad
    <3> QED BY <3>1, Least
  <2>2. n \in 0..Len(s) /\ ~P(n)
    OBVIOUS
  <2>3. P(0)
    BY <1>2, <1>3, <1>4
  <2>4. n \in 1..Len(s) /\ n - 1 \in 0..Len(s) /\ n - 1 < n
    BY <2>2, <2>3
  <2>5. P(n - 1)
    BY <2>1, <2>4
  <2> DEFINE an == a[n]
             ap == a[n - 1]
             e == s[n]
  <2>6. an \in Seq(T) /\ ap \in Seq(T) /\ e \in T
    BY <2>4, <1>5
  <2>7. /\ an = IF e \in A THEN Append(ap, e) ELSE ap
        /\ b[n] = IF e \in B THEN Append(b[n - 1], e) ELSE b[n - 1]
    BY <2>4, <1>2, <1>3
  <2>8. Len(an) <= Len(w) /\ \A i \in 1..Len(an) : w[i] = an[i]
    BY <2>2, <1>6
  <2>9. c[Len(ap)] = b[n - 1]
    BY <2>5
  <2>10. c[Len(an)] = b[n]
    <3> HIDE DEF an, ap, e
    <3>1. CASE e \in A
      <4>1. an = Append(ap, e)
        BY <3>1, <2>7
      <4>2. Len(an) = Len(ap) + 1 /\ an[Len(an)] = e /\ Len(ap) \in Nat
        BY <4>1, <2>6
      <4>3. Len(an) \in 1..Len(w) /\ w[Len(an)] = e
        BY <4>2, <2>8, <1>1
      <4>4. c[Len(an)] = IF e \in C THEN Append(c[Len(ap)], e) ELSE c[Len(ap)]
        BY <4>2, <4>3, <1>4
      <4>5. e \in C <=> e \in B
        BY <4>3, <1>7
      <4> QED BY <4>4, <4>5, <2>7, <2>9
    <3>2. CASE e \notin A
      BY <3>2, <2>7, <2>9
    <3> QED BY <3>1, <3>2
  <2> QED BY <2>10, <2>2
<1>9. c[Len(a[Len(s)])] = b[Len(s)]
  BY <1>8
<1>10. c[Len(w)] = b[Len(s)]
  BY <1>9, <1>1
<1> QED BY <1>10 DEF w, a, b, c, Within

\* The saved sections.
LEMMA PmtType ==
  /\ Len(Pmt) \in Nat /\ Progs = 1..Len(Pmt)
  /\ \A p \in Progs : Pmt[p] \in [saved : BOOLEAN, desc : Seq(Descriptor), es : Seq(Stream)]
<1> DEFINE T == [saved : BOOLEAN, desc : Seq(Descriptor), es : Seq(Stream)]
<1>1. Pmt \in Seq(T)
  BY CiAssumption DEF CiAssumption
<1> HIDE DEF T
<1>2. Len(Pmt) \in Nat /\ DOMAIN Pmt = 1..Len(Pmt) /\ \A p \in DOMAIN Pmt : Pmt[p] \in T
  BY <1>1
<1> QED BY <1>2 DEF Progs, T

\* The streams a card has to know of, and the list of the selected programs.
LEMMA CodedType ==
  ASSUME NEW es \in Seq(Stream)
  PROVE  Coded(es) \in Seq(Stream)
BY WithinType DEF Coded

LEMMA AppliedType ==
  ASSUME NEW sel
  PROVE  AppliedList(sel) \in Seq(Progs) /\ Len(AppliedList(sel)) <= Len(Pmt)
<1> DEFINE s == [i \in 1..Len(Pmt) |-> i]
<1>1. Len(Pmt) \in Nat /\ Progs = 1..Len(Pmt)
  BY PmtType
<1>2. s \in Seq(Progs) /\ Len(s) = Len(Pmt)
  BY <1>1
<1> HIDE DEF s
<1>3. Within(s, {p \in Progs \cap sel : Pmt[p].saved}) \in Seq(Progs)
  BY <1>2, WithinType
<1>4. Len(Within(s, {p \in Progs \cap sel : Pmt[p].saved})) <= Len(Pmt)
  BY <1>2, WithinType
<1> QED BY <1>3, <1>4 DEF s, AppliedList

\* A CA PMT of a program, once the card's systems are known: the type, and that it
\* has all the descriptors of these systems that the program has.
LEMMA CaPmtType ==
  ASSUME NEW p \in Progs, NEW mark \in Marks \ {"none"}
  PROVE  Generate_CA_PMT(p, mark) \in CaPmt
<1>1. Pmt[p] \in [saved : BOOLEAN, desc : Seq(Descriptor), es : Seq(Stream)]
  BY PmtType
<1>2. ListManagement(mark) \in {"more", "last", "only", "missing"}
  BY DEF Marks, ListManagement
<1>3. Within(Pmt[p].desc, {d \in Range(Pmt[p].desc) : InProgram(d)}) \in Seq(Descriptor)
  BY <1>1, WithinType
<1> DEFINE kept == Coded(Pmt[p].es)
           D(i) == Within(kept[i].desc, {d \in Range(kept[i].desc) : InStream(d)})
           es == [i \in DOMAIN kept |-> [kept[i] EXCEPT !.desc = D(i)]]
<1>4. kept \in Seq(Stream)
  BY <1>1, CodedType
<1>5. es \in Seq(Stream)
  <2>1. ASSUME NEW i \in DOMAIN kept PROVE es[i] \in Stream
    <3>1. kept[i] \in Stream
      BY <1>4
    <3>2. D(i) \in Seq(Descriptor)
      <4>1. kept[i].desc \in Seq(Descriptor)
        BY <3>1 DEF Stream
      <4> QED BY <4>1, WithinType
    <3> HIDE DEF kept, D
    <3> QED BY <3>1, <3>2 DEF Stream
  <2>2. DOMAIN kept = 1..Len(kept) /\ Len(kept) \in Nat
    BY <1>4
  <2>3. es \in [1..Len(kept) -> Stream]
    <3> HIDE DEF kept
    <3> QED BY <2>1, <2>2
  <2> HIDE DEF es, kept
  <2> QED BY <2>2, <2>3
<1>6. Generate_CA_PMT(p, mark) =
        [prog |-> p, mark |-> ListManagement(mark),
         desc |-> Within(Pmt[p].desc, {d \in Range(Pmt[p].desc) : InProgram(d)}), es |-> es]
  BY DEF Generate_CA_PMT
<1> HIDE DEF es
<1> QED BY <1>2, <1>3, <1>5, <1>6 DEF CaPmt

LEMMA OwnKept ==
  ASSUME NEW p \in Progs, NEW mark, sys_ids = CardIds
  PROVE  LET c == Generate_CA_PMT(p, mark) IN
         [desc |-> c.desc, es |-> OwnOfStreams(c.es)] = OwnOfPmt[p]
<1> DEFINE c == Generate_CA_PMT(p, mark)
           kept == Coded(Pmt[p].es)
           A(ds) == {d \in Range(ds) : InStream(d)}
<1>1. Pmt[p] \in [saved : BOOLEAN, desc : Seq(Descriptor), es : Seq(Stream)]
  BY PmtType
<1>2. c.desc = Own(Pmt[p].desc)
  BY DEF Generate_CA_PMT, Own, InProgram, IsCASysIdInList
<1>3. kept \in Seq(Stream)
  BY <1>1, CodedType
<1>4. ASSUME NEW ds \in Seq(Descriptor) PROVE Own(Within(ds, A(ds))) = Own(ds)
  <2> DEFINE B == {d \in Range(ds) : d.sys \in CardIds}
             w == Within(ds, A(ds))
             C == {d \in Range(w) : d.sys \in CardIds}
  <2>1. w \in Seq(Descriptor \cap A(ds))
    BY WithinType
  <2>2. \A d \in Range(ds) : d \in Descriptor
    BY DEF Range
  <2>3. B \subseteq A(ds)
    <3> SUFFICES ASSUME NEW d \in Range(ds), d.sys \in CardIds PROVE InStream(d)
      OBVIOUS
    <3>1. d.sys \in Byte \X Byte
      BY <2>2 DEF Descriptor
    <3>2. CASE d.sys[2] = 0
      <4>1. <<d.sys[1], 0>> = d.sys
        BY <3>1, <3>2
      <4> QED BY <4>1 DEF InStream, IsCASysIdInList
    <3>3. CASE d.sys[2] # 0
      BY <3>3 DEF InStream
    <3> QED BY <3>2, <3>3
  <2>4. ASSUME NEW i \in 1..Len(w) PROVE w[i] \in C <=> w[i] \in B
    <3> HIDE DEF w
    <3>1. w[i] \in A(ds) /\ w[i] \in Range(w)
      BY <2>1 DEF Range
    <3> QED BY <3>1
  <2>5. Within(w, C) = Within(ds, B)
    <3> HIDE DEF B, C, A
    <3> QED BY <2>3, <2>4, WithinWithin
  <2> QED BY <2>5 DEF Own
<1>5. c.es = [i \in DOMAIN kept |->
                [kept[i] EXCEPT !.desc = Within(kept[i].desc, A(kept[i].desc))]]
  BY DEF Generate_CA_PMT
<1>6. OwnOfStreams(c.es) = OwnOfStreams(kept)
  <2> HIDE DEF kept, c
  <2>1. DOMAIN c.es = DOMAIN kept
    BY <1>5
  <2>2. ASSUME NEW i \in DOMAIN kept
        PROVE  [c.es[i] EXCEPT !.desc = Own(@)] = [kept[i] EXCEPT !.desc = Own(@)]
    <3>0. kept[i] \in Stream
      BY <1>3
    <3>1. kept[i] \in Stream /\ kept[i].desc \in Seq(Descriptor)
      BY <3>0 DEF Stream
    <3> DEFINE w == Within(kept[i].desc, A(kept[i].desc))
    <3>2. c.es[i] = [kept[i] EXCEPT !.desc = w]
      BY <1>5
    <3>3. Own(w) = Own(kept[i].desc)
      BY <3>1, <1>4
    <3> HIDE DEF w
    <3>4. c.es[i].desc = w
      BY <3>1, <3>2 DEF Stream
    <3>5. [c.es[i] EXCEPT !.desc = Own(w)] = [kept[i] EXCEPT !.desc = Own(w)]
      BY <3>1, <3>2 DEF Stream
    <3> QED BY <3>3, <3>4, <3>5
  <2> QED BY <2>1, <2>2 DEF OwnOfStreams
<1>7. OwnOfPmt[p] = [desc |-> Own(Pmt[p].desc), es |-> OwnOfStreams(kept)]
  BY DEF OwnOfPmt
<1> HIDE DEF c, kept
<1>8. [desc |-> c.desc, es |-> OwnOfStreams(c.es)] = OwnOfPmt[p]
  BY <1>2, <1>6, <1>7
<1> QED BY <1>8 DEF c

-----------------------------------------------------------------------------
(* The handlers. *)

LEMMA TypesOK == Types => TypeOK
<1> SUFFICES ASSUME Types PROVE TypeOK
  OBVIOUS
<1>1. /\ cur_section.index \in 0..Len(Pmt) /\ cur_section.programtotal \in 0..Len(Pmt)
      /\ cur_section.section \in [Progs -> Progs \cup {NoProg}]
  BY DEF Types, Section
<1>2. query.idx \in -1..(Len(Pmt) - 1) /\ query.prog \in Progs \cup {NoProg}
  BY DEF Types, Query
<1>3. \A i \in DOMAIN c2h : c2h[i] \in SB \cup CardMsgs
  BY DEF Types
<1> QED BY <1>1, <1>2, <1>3 DEF Types, TypeOK

\* What a handler does is a sequence of steps; one that is to do anything writes
\* a TPDU, and after what it reads and leaves; a status is always answered.
LEMMA HandlerWrites ==
  ASSUME NEW m \in SB \cup CardMsgs
  PROVE  /\ Handle(m) \in Seq(Steps) /\ DropsFollowed(Handle(m))
         /\ Handle(m) # <<>> => HasWrite(Handle(m))
         /\ m \in SB => Handle(m) # <<>>
<1> DEFINE Good(s) == s \in Seq(Steps) /\ DropsFollowed(s) /\ HasWrite(s) /\ s # <<>>
<1> USE DEF Writes, Steps, Polls, SessionTpdus, Enquiries, Replies
<1>1. Good(<<"data_last">>) /\ Good(<<"rcv">>) /\ Good(<<"profile">>) /\ Good(<<"profile_chg">>)
      /\ Good(<<"display_reply">>) /\ Good(<<"open_resp">>) /\ Good(<<"close_resp">>)
  BY DEF DropsFollowed, HasWrite
<1>2. Good(<<"open_resp", "answer">>) /\ Good(<<"close_resp", "answer">>)
  BY DEF DropsFollowed, HasWrite
<1>3. ASSUME NEW q \in Enquiries PROVE Good(<<"open_resp", "drop", q>>)
  <2> DEFINE s == <<"open_resp", "drop", q>>
  <2>1. s \in Seq(Steps) /\ s # <<>> /\ Len(s) = 3 /\ DOMAIN s = 1..3 /\ s[1] = "open_resp" /\ s[3] = q
    OBVIOUS
  <2>2. 1 \in DOMAIN s /\ 3 \in DOMAIN s /\ s[1] \in Writes /\ s[3] \in Writes
    BY <2>1
  <2>3. HasWrite(s)
    BY <2>2 DEF HasWrite
  <2>4. \A i \in DOMAIN s : s[i] = "drop" => i < 3
    BY <2>1
  <2>5. DropsFollowed(s)
    BY <2>2, <2>4 DEF DropsFollowed
  <2> QED BY <2>1, <2>3, <2>5
<1>4. Good(<<"open_resp", "answer", "answer">>)
  BY DEF DropsFollowed, HasWrite
<1>5. Good(<<"ready", "data_last", "enable">>)
  BY DEF DropsFollowed, HasWrite
<1>6. <<>> \in Seq(Steps) /\ DropsFollowed(<<>>)
  BY DEF DropsFollowed
<1> HIDE DEF Good
<1>7. Good(Handle(m)) \/ (m \notin SB /\ Handle(m) = <<>>)
  <2>1. m \in SB \cup Opens \cup {"close_request"} \cup Apdus
    BY CiAssumption DEF CiAssumption
  <2>2. CASE m \in SB
    BY <2>2, <1>1 DEF Handle, Poll, SB, Opens
  <2>3. CASE m \in Opens
    <3>1. Handle(m) = handle_open_session(m)
      BY <2>3 DEF Handle, Opens, SB
    <3> QED BY <2>3, <3>1, <1>1, <1>2, <1>3, <1>4 DEF handle_open_session, Opens
  <2>4. CASE m = "close_request"
    BY <2>4, <1>2 DEF Handle, Opens, SB
  <2>5. CASE m \in Apdus
    <3>1. Handle(m) = handle_apdu(m) /\ m \notin SB
      BY <2>5 DEF Handle, Opens, SB, Apdus, Silent
    <3> QED BY <2>5, <3>1, <1>1, <1>5 DEF handle_apdu, Apdus, Silent
  <2> QED BY <2>1, <2>2, <2>3, <2>4, <2>5
<1> QED BY <1>6, <1>7 DEF Good

\* What is left of a handler when its first step is done.
LEMMA RestOfHandler ==
  ASSUME NEW s \in Seq(Steps), s # <<>>
  PROVE  /\ Head(s) \in Steps /\ Tail(s) \in Seq(Steps)
         /\ HasWrite(s) /\ Head(s) \notin Writes => HasWrite(Tail(s))
         /\ DropsFollowed(s) => DropsFollowed(Tail(s))
         /\ DropsFollowed(s) /\ Head(s) = "drop" => HasWrite(Tail(s))
         /\ HasWrite(Tail(s)) => Tail(s) # <<>>
<1> DEFINE r == Tail(s)
<1>1. /\ Len(s) \in Nat \ {0} /\ DOMAIN s = 1..Len(s) /\ Head(s) = s[1]
      /\ r \in Seq(Steps) /\ Len(r) = Len(s) - 1 /\ DOMAIN r = 1..Len(r)
      /\ \A i \in 1..Len(r) : r[i] = s[i + 1]
      /\ s[1] \in Steps
  OBVIOUS
<1> HIDE DEF r
<1>2. ASSUME NEW j \in DOMAIN s, j # 1 PROVE j - 1 \in DOMAIN r /\ r[j - 1] = s[j]
  BY <1>1, <1>2
<1>3. HasWrite(s) /\ Head(s) \notin Writes => HasWrite(r)
  <2> SUFFICES ASSUME HasWrite(s), Head(s) \notin Writes PROVE HasWrite(r)
    OBVIOUS
  <2>1. PICK j \in DOMAIN s : s[j] \in Writes
    BY DEF HasWrite
  <2>2. j # 1
    BY <2>1, <1>1
  <2> QED BY <2>1, <2>2, <1>2 DEF HasWrite
<1>4. DropsFollowed(s) => DropsFollowed(r)
  <2> SUFFICES ASSUME DropsFollowed(s), NEW i \in DOMAIN r, r[i] = "drop"
               PROVE  \E j \in DOMAIN r : i < j /\ r[j] \in Writes
    BY DEF DropsFollowed
  <2>1. i \in Nat /\ i + 1 \in DOMAIN s /\ s[i + 1] = "drop"
    BY <1>1
  <2>2. PICK j \in DOMAIN s : i + 1 < j /\ s[j] \in Writes
    BY <2>1 DEF DropsFollowed
  <2>3. j \in Nat /\ j # 1 /\ i < j - 1
    BY <2>1, <2>2, <1>1
  <2> QED BY <2>2, <2>3, <1>2
<1>5. DropsFollowed(s) /\ Head(s) = "drop" => HasWrite(r)
  <2> SUFFICES ASSUME DropsFollowed(s), Head(s) = "drop" PROVE HasWrite(r)
    OBVIOUS
  <2>1. 1 \in DOMAIN s /\ s[1] = "drop"
    BY <1>1
  <2>2. PICK j \in DOMAIN s : 1 < j /\ s[j] \in Writes
    BY <2>1 DEF DropsFollowed
  <2>3. j # 1
    BY <2>2
  <2> QED BY <2>2, <2>3, <1>2 DEF HasWrite
<1>6. HasWrite(r) => r # <<>>
  BY <1>1 DEF HasWrite
<1> QED BY <1>1, <1>3, <1>4, <1>5, <1>6 DEF r

\* The answer to a status is put in front of what is left.
LEMMA AnswerFirst ==
  ASSUME NEW s \in Seq(Steps), DropsFollowed(s), NEW m
  PROVE  LET r == <<Poll(m)>> \o s IN
         r \in Seq(Steps) /\ r # <<>> /\ HasWrite(r) /\ DropsFollowed(r)
<1> DEFINE e == Poll(m)
           r == <<e>> \o s
<1>1. e \in Writes /\ e \in Steps /\ e # "drop"
  BY DEF Poll, Writes, Polls, Steps
<1> HIDE DEF e
<1>2. /\ r \in Seq(Steps) /\ Len(r) = Len(s) + 1 /\ DOMAIN r = 1..Len(r) /\ r[1] = e
      /\ \A i \in 2..Len(r) : r[i] = s[i - 1]
      /\ Len(s) \in Nat /\ DOMAIN s = 1..Len(s)
  BY <1>1
<1> HIDE DEF r
<1>3. HasWrite(r) /\ r # <<>>
  BY <1>1, <1>2 DEF HasWrite
<1>4. DropsFollowed(r)
  <2> SUFFICES ASSUME NEW i \in DOMAIN r, r[i] = "drop"
               PROVE  \E j \in DOMAIN r : i < j /\ r[j] \in Writes
    BY DEF DropsFollowed
  <2>1. i \in 2..Len(r)
    BY <1>1, <1>2
  <2>2. i - 1 \in DOMAIN s /\ s[i - 1] = "drop"
    BY <2>1, <1>2
  <2>3. PICK j \in DOMAIN s : i - 1 < j /\ s[j] \in Writes
    BY <2>2
    DEF DropsFollowed
  <2>4. j + 1 \in DOMAIN r /\ i < j + 1 /\ r[j + 1] = s[j]
    BY <2>1, <2>3, <1>2
  <2> QED BY <2>3, <2>4
<1> QED BY <1>2, <1>3, <1>4 DEF r, e

-----------------------------------------------------------------------------
(* Types. *)

LEMMA TypesInit == Init => TypeInv
<1> SUFFICES ASSUME Init PROVE TypeInv
  OBVIOUS
<1>1. ci_max_cnt \in Nat \ {0}
  BY CiAssumption DEF CiAssumption, Init, AtLeastOne
<1>2. Types
  <2>1. cur_section \in Section
    BY PmtType DEF Init, Section
  <2>2. query \in Query
    BY PmtType DEF Init, Query, Idle, QueryPcs, Marks
  <2>3. loader \in [Loader -> Load]
    BY DEF Init, Load, NoLoad, LoadPcs
  <2>4. c2h \in Seq(SB \cup CardMsgs) /\ want \in Seq(Progs) /\ sent \in Seq(CaPmt)
    BY DEF Init
  <2>5. /\ send_pmt_en0 \in BOOLEAN /\ send_pmt_status0 \in BOOLEAN /\ init_pmt_setA \in BOOLEAN
        /\ cardasend \in BOOLEAN /\ ci_in_busy_sending \in BOOLEAN
        /\ card_status \in {"none", "exist", "ready"} /\ sys_ids \subseteq CardIds
        /\ boot \in {"apply", "detect", "size", "link", "done"}
    BY DEF Init
  <2> QED BY <2>1, <2>2, <2>3, <2>4, <2>5, <1>1 DEF Types
<1>3. LoadsFit
  BY PmtType DEF Init, LoadsFit, NoLoad
<1>4. BootFirst
  BY DEF Init, BootFirst
<1>5. HandFits /\ SystemsKnown
  BY DEF Init, HandFits, SystemsKnown, Idle
<1> QED BY <1>2, <1>3, <1>4, <1>5 DEF TypeInv

\* The query thread has nothing in hand.
LEMMA IdleType ==
  ASSUME NEW pc \in QueryPcs
  PROVE  /\ [Idle EXCEPT !.pc = pc] \in Query
         /\ [Idle EXCEPT !.pc = pc].pc = pc /\ [Idle EXCEPT !.pc = pc].idx = -1
<1>1. [Idle EXCEPT !.pc = pc] = [pc |-> pc, idx |-> -1, script |-> <<>>, prog |-> NoProg, mark |-> "none"]
  BY DEF Idle
<1>2. -1 \in -1..(Len(Pmt) - 1)
  BY PmtType
<1>3. <<>> \in Seq(Steps) /\ "none" \in Marks
  BY DEF Marks
<1> QED BY <1>1, <1>2, <1>3 DEF Query

\* A step of main.
LEMMA BootTypes ==
  ASSUME TypeInv, BootStep
  PROVE  TypeInv'
<1> USE DEF TypeInv, flags, state, calls, wire, record
<1>1. CASE BootApply
  <2>1. PICK sel \in Selections :
          /\ cur_section' = [cur_section EXCEPT !.programtotal = Len(AppliedList(sel)),
               !.section = [i \in Progs |-> IF i <= Len(AppliedList(sel)) THEN AppliedList(sel)[i] ELSE @[i]]]
          /\ want' = AppliedList(sel)
    BY <1>1 DEF BootApply
  <2> DEFINE list == AppliedList(sel)
  <2>2. list \in Seq(Progs) /\ Len(list) <= Len(Pmt)
    BY AppliedType
  <2>3. cur_section' = [cur_section EXCEPT !.programtotal = Len(list),
               !.section = [i \in Progs |-> IF i <= Len(list) THEN list[i] ELSE cur_section.section[i]]]
    BY <2>1 DEF Types, Section
  <2>4. want' = list
    BY <2>1
  <2> HIDE DEF list
  <2>5. cur_section' \in Section
    <3>1. [i \in Progs |-> IF i <= Len(list) THEN list[i] ELSE cur_section.section[i]]
            \in [Progs -> Progs \cup {NoProg}]
      BY <2>2, PmtType, SMTT(60) DEF Types, Section
    <3>2. Len(list) \in 0..Len(Pmt)
      BY <2>2, PmtType
    <3> QED BY <2>3, <3>1, <3>2 DEF Types, Section
  <2>6. cur_section'.index = cur_section.index
    BY <2>3 DEF Types, Section
  <2> QED BY <1>1, <2>2, <2>4, <2>5, <2>6 DEF BootApply, Types, LoadsFit, BootFirst, HandFits, SystemsKnown, Idle
<1>2. CASE BootDetect
  BY <1>2 DEF BootDetect, Types, LoadsFit, BootFirst, HandFits, SystemsKnown, Idle
<1>3. CASE BootSize
  BY <1>3 DEF BootSize, Types, LoadsFit, BootFirst, HandFits, SystemsKnown
<1>4. CASE BootLink
  <2>1. cur_section' \in Section /\ query' \in Query
    <3>1. cur_section \in Section /\ query \in Query
      BY DEF Types
    <3>2. CASE card.kind = "mute"
      BY <1>4, <3>1, <3>2 DEF BootLink
    <3>3. CASE card.kind # "mute"
      <4>1. [cur_section EXCEPT !.index = 0] \in Section
        BY <3>1, PmtType DEF Section
      <4>2. [Idle EXCEPT !.pc = "start"] \in Query
        BY IdleType DEF QueryPcs
      <4> QED BY <1>4, <3>3, <4>1, <4>2 DEF BootLink
    <3> QED BY <3>2, <3>3
  <2>2. query.pc = "off" /\ query'.pc \in {"off", "start"} /\ query'.idx = -1
    BY <1>4 DEF BootLink, BootFirst, Idle
  <2> QED BY <1>4, <2>1, <2>2 DEF BootLink, Types, LoadsFit, BootFirst, HandFits, SystemsKnown
<1> QED BY <1>1, <1>2, <1>3, <1>4 DEF BootStep

\* Once main is through, the first uses of the section no longer matter.
LEMMA BootOver ==
  ASSUME boot = "done", boot' = boot
  PROVE  BootFirst'
BY DEF BootFirst

\* A call of loadPMT.
LEMMA LoadTypes ==
  ASSUME TypeInv, NEW t \in Loader, LoadCall(t) \/ LoadStep(t)
  PROVE  TypeInv'
<1> USE DEF flags, state, calls, wire, record
<1>1. Types /\ LoadsFit /\ BootFirst /\ HandFits /\ SystemsKnown
  BY DEF TypeInv
<1>2. loader[t] \in Load /\ loader \in [Loader -> Load] /\ cur_section \in Section
  BY <1>1 DEF Types
<1>3. boot = "done"
  <2>1. boot # "done" => loader[t].pc = "idle"
    BY <1>1 DEF BootFirst, NoLoad
  <2> QED BY <2>1 DEF LoadCall, LoadStep, LoadStop, LoadClear, LoadSet, LoadCopy, LoadStart
<1> DEFINE Fit(l) == /\ Len(l.list) <= Len(Pmt)
                     /\ l.pc \in {"stop", "clear", "set"} => l.k = 1
                     /\ l.pc = "copy" => l.k \in 1..Len(l.list)
<1>4. Fit(loader[t]) /\ \A u \in Loader : Fit(loader[u])
  BY <1>1 DEF LoadsFit
<1>5. ASSUME NEW l \in Load, Fit(l), loader' = [loader EXCEPT ![t] = l], cur_section' \in Section,
             want' \in Seq(Progs), sent' \in Seq(CaPmt), c2h' \in Seq(SB \cup CardMsgs),
             send_pmt_en0' \in BOOLEAN, query.pc = "inc" => cur_section'.index < Len(Pmt),
             UNCHANGED <<send_pmt_status0, init_pmt_setA, cardasend, state, query, boot>>
      PROVE  TypeInv'
  <2>1. Types'
    BY <1>1, <1>5 DEF Types
  <2>2. LoadsFit'
    <3>1. \A u \in Loader : Fit(loader'[u])
      <4> HIDE DEF Fit
      <4> QED BY <1>2, <1>4, <1>5
    <3> QED BY <3>1 DEF LoadsFit
  <2>3. BootFirst'
    BY <1>3, <1>5, BootOver
  <2>4. HandFits' /\ SystemsKnown'
    BY <1>1, <1>5 DEF HandFits, SystemsKnown
  <2> QED BY <2>1, <2>2, <2>3, <2>4 DEF TypeInv
<1>6. /\ send_pmt_en0 \in BOOLEAN /\ want \in Seq(Progs) /\ sent \in Seq(CaPmt)
      /\ c2h \in Seq(SB \cup CardMsgs) /\ (query.pc = "inc" => cur_section.index < Len(Pmt))
  BY <1>1 DEF Types, HandFits
<1>7. /\ loader[t].list \in Seq(Progs) /\ loader[t].k \in Nat
      /\ \A p \in LoadPcs : [loader[t] EXCEPT !.pc = p] \in Load
      /\ \A p \in LoadPcs : [loader EXCEPT ![t].pc = p] = [loader EXCEPT ![t] = [loader[t] EXCEPT !.pc = p]]
  BY <1>2 DEF Load
<1>8. NoLoad \in Load /\ Fit(NoLoad)
  BY PmtType DEF NoLoad, Load, LoadPcs
<1>9. CASE LoadCall(t)
  <2>1. PICK sel \in Selections :
          loader' = [loader EXCEPT ![t] = [pc |-> "stop", list |-> AppliedList(sel), k |-> 1]]
    BY <1>9 DEF LoadCall
  <2> DEFINE l == [pc |-> "stop", list |-> AppliedList(sel), k |-> 1]
  <2>2. l \in Load /\ Fit(l)
    BY AppliedType DEF Load, LoadPcs
  <2>3. loader' = [loader EXCEPT ![t] = l]
    BY <2>1
  <2> HIDE DEF l, Fit
  <2>4. UNCHANGED <<cur_section, flags, state, query, boot, c2h, record>>
    BY <1>9 DEF LoadCall
  <2> QED BY <2>2, <2>3, <2>4, <1>2, <1>5, <1>6
<1>10. ASSUME NEW p \in LoadPcs, LoadTo(t, p), loader[t].pc \in {"stop", "clear", "set"},
              p = "copy" => loader[t].list # <<>>
       PROVE  \E l \in Load : Fit(l) /\ loader' = [loader EXCEPT ![t] = l]
  <2> DEFINE l == [loader[t] EXCEPT !.pc = p]
  <2>1. l \in Load /\ loader' = [loader EXCEPT ![t] = l]
    BY <1>7, <1>10 DEF LoadTo
  <2>2. l.pc = p /\ l.list = loader[t].list /\ l.k = loader[t].k /\ l.k = 1
    BY <1>2, <1>4, <1>10 DEF Load
  <2>3. p = "copy" => Len(loader[t].list) \in Nat \ {0}
    BY <1>7, <1>10
  <2>4. Fit(l)
    BY <2>2, <2>3, <1>4
  <2> QED BY <2>1, <2>4
<1>11. CASE LoadStop(t)
  <2>1. PICK l \in Load : Fit(l) /\ loader' = [loader EXCEPT ![t] = l]
    BY <1>11, <1>10 DEF LoadStop, LoadPcs
  <2>2. /\ want' = loader[t].list /\ sent' = <<>> /\ send_pmt_en0' = FALSE
        /\ UNCHANGED <<cur_section, send_pmt_status0, init_pmt_setA, cardasend, state, query, boot, c2h>>
    BY <1>11 DEF LoadStop
  <2>3. want' \in Seq(Progs) /\ sent' \in Seq(CaPmt) /\ send_pmt_en0' \in BOOLEAN
    <3>1. loader[t].list \in Seq(Progs) /\ <<>> \in Seq(CaPmt) /\ FALSE \in BOOLEAN
      BY <1>7
    <3> QED BY <2>2, <3>1
  <2> HIDE DEF Fit
  <2> QED BY <2>1, <2>2, <2>3, <1>2, <1>5, <1>6
<1>12. ASSUME NEW total \in 0..Len(Pmt),
              cur_section' = [cur_section EXCEPT !.index = 0, !.programtotal = total]
       PROVE  cur_section' \in Section /\ (query.pc = "inc" => cur_section'.index < Len(Pmt))
  <2>0. 0 \in 0..Len(Pmt)
    BY PmtType
  <2>1. cur_section' \in Section /\ cur_section'.index = 0
    BY <1>2, <1>12, <2>0 DEF Section
  <2>2. query.pc = "inc" => 0 < Len(Pmt)
    BY <1>2, <1>6, PmtType DEF Section
  <2> QED BY <2>1, <2>2
<1>13. CASE LoadClear(t)
  <2>1. PICK l \in Load : Fit(l) /\ loader' = [loader EXCEPT ![t] = l]
    BY <1>13, <1>10 DEF LoadClear, LoadPcs
  <2>2. cur_section' \in Section /\ (query.pc = "inc" => cur_section'.index < Len(Pmt))
    <3>1. 0 \in 0..Len(Pmt)
      BY PmtType
    <3> QED BY <1>13, <1>12, <3>1 DEF LoadClear
  <2>3. UNCHANGED <<flags, state, query, boot, c2h, want, sent>>
    BY <1>13 DEF LoadClear
  <2> HIDE DEF Fit
  <2> QED BY <2>1, <2>2, <2>3, <1>5, <1>6
<1>14. CASE LoadSet(t)
  <2>1. PICK l \in Load : Fit(l) /\ loader' = [loader EXCEPT ![t] = l]
    <3>1. CASE loader[t].list = <<>>
      BY <1>14, <1>10, <3>1 DEF LoadSet, LoadPcs
    <3>2. CASE loader[t].list # <<>>
      BY <1>14, <1>10, <3>2 DEF LoadSet, LoadPcs
    <3> QED BY <3>1, <3>2
  <2>2. cur_section' \in Section /\ (query.pc = "inc" => cur_section'.index < Len(Pmt))
    <3>1. Len(loader[t].list) \in 0..Len(Pmt)
      BY <1>4, <1>7, PmtType
    <3> QED BY <1>14, <1>12, <3>1 DEF LoadSet
  <2>3. UNCHANGED <<flags, state, query, boot, c2h, want, sent>>
    BY <1>14 DEF LoadSet
  <2> HIDE DEF Fit
  <2> QED BY <2>1, <2>2, <2>3, <1>5, <1>6
<1>15. CASE LoadCopy(t)
  <2> DEFINE o == loader[t]
             l == [o EXCEPT !.pc = IF o.k = Len(o.list) THEN "start" ELSE "copy", !.k = o.k + 1]
  <2>1. o.k \in 1..Len(o.list) /\ o.list \in Seq(Progs) /\ o \in Load
    BY <1>15, <1>2, <1>4 DEF LoadCopy, Load
  <2>2. l \in Load /\ Fit(l)
    <3> HIDE DEF o
    <3>1. Len(o.list) <= Len(Pmt)
      BY <1>4 DEF o
    <3>2. l.list = o.list /\ l.k = o.k + 1 /\ l.pc = IF o.k = Len(o.list) THEN "start" ELSE "copy"
      BY <2>1 DEF Load
    <3>3. o.k + 1 \in Nat
      BY <2>1
    <3>4. l \in Load
      BY <2>1, <3>3 DEF Load, LoadPcs
    <3>5. o.k # Len(o.list) => o.k + 1 \in 1..Len(o.list)
      BY <2>1
    <3> HIDE DEF l
    <3> QED BY <3>1, <3>2, <3>4, <3>5
  <2>3. loader' = [loader EXCEPT ![t] = l]
    BY <1>15, <1>2 DEF LoadCopy, Load
  <2>4. cur_section' \in Section /\ cur_section'.index = cur_section.index
    <3>1. cur_section' = [cur_section EXCEPT !.section = [cur_section.section EXCEPT ![o.k] = o.list[o.k]]]
      BY <1>15 DEF LoadCopy, Section
    <3>2. o.list[o.k] \in Progs
      <4> HIDE DEF o
      <4> QED BY <2>1
    <3> HIDE DEF o
    <3> QED BY <3>1, <3>2, <1>2 DEF Section
  <2>5. UNCHANGED <<flags, state, query, boot, c2h, want, sent>>
    BY <1>15 DEF LoadCopy
  <2> HIDE DEF l, Fit
  <2> QED BY <2>2, <2>3, <2>4, <2>5, <1>5, <1>6
<1>16. CASE LoadStart(t)
  <2>1. /\ loader' = [loader EXCEPT ![t] = NoLoad] /\ send_pmt_en0' = TRUE
        /\ UNCHANGED <<cur_section, send_pmt_status0, init_pmt_setA, cardasend, state, query, boot,
                       c2h, record>>
    BY <1>16 DEF LoadStart
  <2> HIDE DEF Fit
  <2> QED BY <2>1, <1>2, <1>5, <1>6, <1>8
<1> QED BY <1>9, <1>11, <1>13, <1>14, <1>15, <1>16 DEF LoadStep

\* A step of the query thread.
LEMMA QueryTypes ==
  ASSUME TypeInv, QueryStep
  PROVE  TypeInv'
<1> USE DEF flags, state, calls, wire, record
<1>1. Types /\ LoadsFit /\ BootFirst /\ HandFits /\ SystemsKnown
  BY DEF TypeInv
<1>2. query \in Query /\ cur_section \in Section /\ query.pc \in QueryPcs /\ query.script \in Seq(Steps)
  BY <1>1 DEF Types, Query
<1>3. query.pc # "off" => boot = "done"
  BY <1>1 DEF BootFirst, Idle
<1>4. query.pc # "off"
  BY DEF QueryStep, At, Doing, Start, Top, GetPmt, GetPmtIndex, GotPmt, FirstPoll, Read, HandleWrite,
         HandleRead, HandleReady, HandleEnable, Send, TryToDcas, DropBeforeFrame, WriteFrame
<1>5. ASSUME query' \in Query, cur_section' \in Section, c2h' \in Seq(SB \cup CardMsgs),
             UNCHANGED <<ci_max_cnt, calls, want>>,
             sent' \in Seq(CaPmt), send_pmt_en0' \in BOOLEAN, send_pmt_status0' \in BOOLEAN,
             init_pmt_setA' \in BOOLEAN, cardasend' \in BOOLEAN, ci_in_busy_sending' \in BOOLEAN,
             card_status' \in {"none", "exist", "ready"}, sys_ids' \subseteq CardIds,
             HandFits', SystemsKnown'
      PROVE  TypeInv'
  <2>1. Types'
    BY <1>1, <1>5 DEF Types
  <2>2. LoadsFit'
    BY <1>1, <1>5 DEF LoadsFit
  <2>3. BootFirst'
    BY <1>3, <1>4, <1>5, BootOver
  <2> QED BY <2>1, <2>2, <2>3, <1>5 DEF TypeInv
<1>6. ASSUME NEW p \in QueryPcs
      PROVE  LET q == [query EXCEPT !.pc = p] IN
             q \in Query /\ q.pc = p /\ q.idx = query.idx /\ q.script = query.script /\ q.mark = query.mark
  BY <1>2 DEF Query
<1>7. /\ c2h \in Seq(SB \cup CardMsgs) /\ sent \in Seq(CaPmt) /\ send_pmt_en0 \in BOOLEAN
      /\ send_pmt_status0 \in BOOLEAN /\ init_pmt_setA \in BOOLEAN /\ cardasend \in BOOLEAN
      /\ ci_in_busy_sending \in BOOLEAN /\ card_status \in {"none", "exist", "ready"}
      /\ sys_ids \subseteq CardIds
  BY <1>1 DEF Types
\* The lists that c2h becomes.
<1>8. ASSUME NEW x, CardAnswer(x) PROVE c2h' \in Seq(SB \cup CardMsgs)
  <2>1. \A c : Due(c) \subseteq CardMsgs
    BY DEF Due
  <2>2. \E m \in SB \cup CardMsgs : c2h' = Append(c2h, m)
    BY <1>8, <2>1 DEF CardAnswer, SB
  <2> QED BY <2>2, <1>7
<1>9. ASSUME NEW x, Written(x) PROVE c2h' \in Seq(SB \cup CardMsgs)
  BY <1>7, <1>8, <1>9 DEF Written, Write, GiveUp
<1>10. \A m \in Range(c2h) : m \in SB \cup CardMsgs
  BY <1>7 DEF Range
<1>11. ASSUME NEW m \in Range(c2h), ReadMsg(m) PROVE c2h' \in Seq(SB \cup CardMsgs)
  BY <1>7, <1>11 DEF ReadMsg
<1>12. ASSUME ReadNothing PROVE c2h' = c2h
  BY <1>12 DEF ReadNothing
\* The states of the query thread that the steps lead to.
<1>13. ASSUME NEW p \in {"get", "poll", "read", "send", "top"}, QueryTo(p),
              p = "get" => query.idx = -1, p = "top" => query.idx = -1
       PROVE  /\ query' \in Query /\ query'.pc = p /\ query'.idx = query.idx
              /\ UNCHANGED <<card_status, sys_ids>> => HandFits' /\ SystemsKnown'
  <2>1. query' \in Query /\ query'.pc = p /\ query'.idx = query.idx
    BY <1>6, <1>13 DEF QueryTo, QueryPcs
  <2> QED BY <2>1, <1>1, <1>13 DEF HandFits, SystemsKnown
<1>14. ASSUME ToTop
       PROVE  /\ query' \in Query /\ query'.pc = "top"
              /\ UNCHANGED <<card_status, sys_ids>> => HandFits' /\ SystemsKnown'
  <2>1. query' \in Query /\ query'.pc = "top" /\ query'.idx = -1
    BY <1>14, IdleType DEF ToTop, QueryPcs
  <2> QED BY <2>1, <1>1 DEF HandFits, SystemsKnown
<1>15. ASSUME NEW s \in Seq(Steps), ToDo(s)
       PROVE  /\ query' \in Query /\ query'.pc \in {"send", "handle"} /\ query'.script = s
              /\ query'.pc = "handle" => s # <<>>
              /\ HandFits'
              /\ (card_status' = "ready" => sys_ids' = CardIds) => SystemsKnown'
  <2>1. /\ query' \in Query /\ query'.pc \in {"send", "handle"} /\ query'.script = s
        /\ query'.pc = "handle" => s # <<>>
    BY <1>2, <1>15 DEF ToDo, Query, QueryPcs
  <2> QED BY <2>1 DEF HandFits, SystemsKnown
<1>16. ASSUME At("handle") PROVE /\ query.script # <<>> /\ Rest \in Seq(Steps)
  <2>1. query.script # <<>>
    BY <1>1, <1>16 DEF At, HandFits
  <2> QED BY <2>1, <1>2, RestOfHandler DEF Rest
<1>17. ToPoll \in {"read", "poll"}
  BY DEF ToPoll
<1>20. CASE Start
  <2>1. query' \in Query /\ HandFits' /\ SystemsKnown'
    BY <1>1, <1>13, <1>20 DEF Start, At, HandFits
  <2> QED BY <2>1, <1>2, <1>5, <1>7, <1>20 DEF Start
<1>21. CASE Top
  <2>1. query' \in Query /\ HandFits' /\ SystemsKnown'
    <3>1. query.idx = -1
      BY <1>1, <1>21 DEF Top, At, HandFits
    <3> QED BY <3>1, <1>13, <1>17, <1>21 DEF Top
  <2>2. send_pmt_status0' \in BOOLEAN /\ init_pmt_setA' \in BOOLEAN
    BY <1>21 DEF Top
  <2> QED BY <2>1, <2>2, <1>2, <1>5, <1>7, <1>21 DEF Top
<1>22. CASE GetPmt
  <2> DEFINE i == cur_section.index
  <2>1. query' \in Query /\ HandFits' /\ SystemsKnown' /\ send_pmt_status0' \in BOOLEAN
    <3>0. query.idx = -1
      BY <1>1, <1>22 DEF GetPmt, At, HandFits
    <3>1. CASE i < cur_section.programtotal
      <4>1. query' = [query EXCEPT !.pc = "inc", !.prog = cur_section.section[i + 1]]
            /\ send_pmt_status0' = send_pmt_status0
        BY <3>1, <1>22 DEF GetPmt
      <4>2. i + 1 \in Progs /\ i < Len(Pmt)
        BY <3>1, <1>2, PmtType DEF Section
      <4>3. cur_section.section[i + 1] \in Progs \cup {NoProg}
        BY <4>2, <1>2 DEF Section
      <4>4. query' \in Query /\ query'.pc = "inc" /\ query'.idx = query.idx
        BY <4>1, <4>3, <1>2 DEF Query, QueryPcs
      <4>5. UNCHANGED <<cur_section, card_status, sys_ids>>
        BY <1>22 DEF GetPmt
      <4> QED BY <4>1, <4>2, <4>4, <4>5, <3>0, <1>1, <1>7 DEF HandFits, SystemsKnown
    <3>2. CASE ~(i < cur_section.programtotal)
      BY <3>0, <3>2, <1>13, <1>17, <1>22 DEF GetPmt
    <3> QED BY <3>1, <3>2
  <2> QED BY <2>1, <1>2, <1>5, <1>7, <1>22 DEF GetPmt
<1>23. CASE GetPmtIndex
  <2>1. query' = [query EXCEPT !.pc = "got", !.idx = cur_section.index]
        /\ UNCHANGED <<cur_section, card_status, sys_ids>>
    BY <1>23 DEF GetPmtIndex
  <2>2. cur_section.index \in -1..(Len(Pmt) - 1) /\ cur_section.index # -1
    BY <1>1, <1>2, <1>23, PmtType DEF GetPmtIndex, At, HandFits, Section
  <2>3. query' \in Query /\ query'.pc = "got" /\ query'.idx = cur_section.index
    BY <2>1, <2>2, <1>2 DEF Query, QueryPcs
  <2>4. HandFits' /\ SystemsKnown'
    BY <2>1, <2>2, <2>3, <1>1 DEF HandFits, SystemsKnown
  <2> QED BY <2>3, <2>4, <1>2, <1>5, <1>7, <1>23 DEF GetPmtIndex
<1>24. CASE GotPmt
  <2>1. query' \in Query /\ HandFits' /\ SystemsKnown'
    BY <1>13, <1>17, <1>24 DEF GotPmt
  <2>2. cur_section' \in Section
    <3>1. query.idx + 1 \in 0..Len(Pmt)
      BY <1>2, PmtType DEF Query
    <3>2. cur_section' = [cur_section EXCEPT !.index = query.idx + 1]
      BY <1>24 DEF GotPmt
    <3> QED BY <3>1, <3>2, <1>2 DEF Section
  <2> QED BY <2>1, <2>2, <1>5, <1>7, <1>24 DEF GotPmt
<1>25. CASE FirstPoll
  <2>1. query' \in Query /\ HandFits' /\ SystemsKnown'
    BY <1>13, <1>25 DEF FirstPoll
  <2> QED BY <2>1, <1>2, <1>5, <1>7, <1>9, <1>25 DEF FirstPoll
<1>26. CASE Read
  <2>0. UNCHANGED <<cur_section, flags, state, calls, want, sent>>
    BY <1>26 DEF Read
  <2>1. query' \in Query /\ HandFits' /\ SystemsKnown' /\ c2h' \in Seq(SB \cup CardMsgs)
    <3>1. ASSUME NEW m \in Range(c2h), ReadMsg(m), ToDo(Handle(m))
          PROVE  query' \in Query /\ HandFits' /\ SystemsKnown' /\ c2h' \in Seq(SB \cup CardMsgs)
      <4>1. Handle(m) \in Seq(Steps)
        BY <1>10, HandlerWrites
      <4>2. query' \in Query /\ HandFits' /\ SystemsKnown'
        BY <4>1, <3>1, <2>0, <1>1, <1>15 DEF SystemsKnown
      <4> QED BY <4>2, <3>1, <1>11
    <3>2. ASSUME ReadNothing, QueryTo("send")
          PROVE  query' \in Query /\ HandFits' /\ SystemsKnown' /\ c2h' \in Seq(SB \cup CardMsgs)
      BY <3>2, <2>0, <1>7, <1>12, <1>13
    <3> QED BY <3>1, <3>2, <1>26 DEF Read
  <2> QED BY <2>0, <2>1, <1>2, <1>5, <1>7
<1>27. CASE HandleWrite
  <2>0. UNCHANGED <<cur_section, flags, state, calls, want, sent>> /\ ToDo(Rest) /\ At("handle")
    BY <1>27 DEF HandleWrite, Doing
  <2>1. c2h' \in Seq(SB \cup CardMsgs)
    BY <1>9, <1>27 DEF HandleWrite
  <2>2. query' \in Query /\ HandFits' /\ SystemsKnown'
    BY <2>0, <1>1, <1>15, <1>16 DEF SystemsKnown
  <2> QED BY <2>0, <2>1, <2>2, <1>2, <1>5, <1>7
<1>28. CASE HandleRead
  <2>0. UNCHANGED <<cur_section, flags, state, calls, want, sent>> /\ At("handle")
    BY <1>28 DEF HandleRead, Doing
  <2>1. c2h' \in Seq(SB \cup CardMsgs)
    BY <1>7, <1>11, <1>12, <1>28 DEF HandleRead
  <2>2. \E s \in Seq(Steps) : ToDo(s)
    <3>1. \A m : <<Poll(m)>> \in Seq(Steps)
      BY DEF Poll, Steps, Writes, Polls
    <3>2. \A m : <<Poll(m)>> \o Rest \in Seq(Steps)
      BY <3>1, <2>0, <1>16
    <3> QED BY <3>2, <2>0, <1>16, <1>28 DEF HandleRead
  <2>3. query' \in Query /\ HandFits' /\ SystemsKnown'
    BY <2>0, <2>2, <1>1, <1>15 DEF SystemsKnown
  <2> QED BY <2>0, <2>1, <2>3, <1>2, <1>5, <1>7
<1>29. CASE HandleReady
  <2>0. /\ ToDo(Rest) /\ At("handle") /\ card_status' = "ready" /\ sys_ids' = CardIds
        /\ UNCHANGED <<cur_section, flags, ci_max_cnt, ci_in_busy_sending, calls, wire, record>>
    BY <1>29 DEF HandleReady, Doing
  <2>1. query' \in Query /\ HandFits' /\ SystemsKnown'
    BY <2>0, <1>15, <1>16
  <2> QED BY <2>0, <2>1, <1>2, <1>5, <1>7
<1>30. CASE HandleEnable
  <2>0. /\ ToDo(Rest) /\ At("handle") /\ send_pmt_en0' = TRUE
        /\ UNCHANGED <<cur_section, send_pmt_status0, init_pmt_setA, cardasend, state, calls, wire, record>>
    BY <1>30 DEF HandleEnable, Doing
  <2>1. query' \in Query /\ HandFits' /\ SystemsKnown'
    BY <2>0, <1>1, <1>15, <1>16 DEF SystemsKnown
  <2> QED BY <2>0, <2>1, <1>2, <1>5, <1>7
<1>31. CASE Send
  <2>0. UNCHANGED <<cur_section, flags, card_status, sys_ids, ci_max_cnt, calls, wire, want, sent>>
    BY <1>31 DEF Send
  <2>1. CASE ToTop
    <3>1. ci_in_busy_sending' \in BOOLEAN
      BY <1>7, <1>31 DEF Send
    <3> QED BY <2>0, <2>1, <3>1, <1>2, <1>5, <1>7, <1>14
  <2>2. CASE ~ToTop
    <3>1. /\ QueryTo("dcas") /\ ci_in_busy_sending' = TRUE /\ query.idx # -1 /\ card_status = "ready"
      BY <1>31, <2>2 DEF Send
    <3>2. query' \in Query /\ query'.pc = "dcas" /\ query'.idx = query.idx
      BY <3>1, <1>6 DEF QueryTo, QueryPcs
    <3>3. HandFits' /\ SystemsKnown'
      BY <2>0, <3>1, <3>2, <1>1 DEF HandFits, SystemsKnown
    <3> QED BY <2>0, <3>1, <3>2, <3>3, <1>2, <1>5, <1>7
  <2> QED BY <2>1, <2>2
<1>32. CASE TryToDcas
  <2>0. UNCHANGED <<cur_section, flags, card_status, sys_ids, ci_max_cnt, calls, wire, record>> /\ At("dcas")
    BY <1>32 DEF TryToDcas
  <2>1. CASE ToTop
    <3>1. ci_in_busy_sending' \in BOOLEAN
      BY <1>7, <1>32 DEF TryToDcas
    <3> QED BY <2>0, <2>1, <3>1, <1>2, <1>5, <1>7, <1>14
  <2>2. CASE ~ToTop
    <3> DEFINE mk == ListMark(query.idx, cur_section.programtotal)
    <3>1. query' = [query EXCEPT !.pc = "frame", !.mark = mk] /\ ci_in_busy_sending' = ci_in_busy_sending
      BY <1>32, <2>2 DEF TryToDcas
    <3>2. mk \in Marks /\ mk # "none"
      BY DEF ListMark, Marks
    <3> HIDE DEF mk
    <3>3. query' \in Query /\ query'.pc = "frame" /\ query'.idx = query.idx /\ query'.mark # "none"
      BY <3>1, <3>2, <1>2 DEF Query, QueryPcs
    <3>4. HandFits' /\ SystemsKnown'
      BY <2>0, <3>3, <1>1 DEF HandFits, SystemsKnown, At
    <3> QED BY <2>0, <3>1, <3>3, <3>4, <1>2, <1>5, <1>7
  <2> QED BY <2>1, <2>2
<1>33. CASE DropBeforeFrame
  <2>0. /\ QueryTo("write") /\ At("frame")
        /\ UNCHANGED <<cur_section, flags, state, calls, want, sent>>
    BY <1>33 DEF DropBeforeFrame
  <2>1. c2h' \in Seq(SB \cup CardMsgs)
    BY <1>7, <1>11, <1>12, <1>33 DEF DropBeforeFrame
  <2>2. query' \in Query /\ query'.pc = "write" /\ query'.idx = query.idx /\ query'.mark = query.mark
    BY <2>0, <1>6 DEF QueryTo, QueryPcs
  <2>3. HandFits' /\ SystemsKnown'
    BY <2>0, <2>2, <1>1 DEF HandFits, SystemsKnown, At
  <2> QED BY <2>0, <2>1, <2>2, <2>3, <1>2, <1>5, <1>7
<1>34. CASE WriteFrame
  <2>0. /\ ToTop /\ At("write") /\ query.prog # NoProg /\ ci_in_busy_sending' = FALSE
        /\ UNCHANGED <<cur_section, flags, card_status, sys_ids, ci_max_cnt, calls, want>>
    BY <1>34 DEF WriteFrame
  <2>1. c2h' \in Seq(SB \cup CardMsgs)
    BY <1>7, <1>8, <1>34 DEF WriteFrame, Write, GiveUp
  <2>2. sent' \in Seq(CaPmt)
    <3>1. query.prog \in Progs /\ query.mark \in Marks \ {"none"}
      BY <2>0, <1>1, <1>2 DEF HandFits, Query, At
    <3>2. Generate_CA_PMT(query.prog, query.mark) \in CaPmt
      BY <3>1, CaPmtType
    <3>3. sent' = Append(sent, Generate_CA_PMT(query.prog, query.mark)) \/ sent' = sent
      BY <1>34 DEF WriteFrame
    <3> QED BY <3>2, <3>3, <1>7
  <2> QED BY <2>0, <2>1, <2>2, <1>2, <1>5, <1>7, <1>14
<1> QED BY <1>20, <1>21, <1>22, <1>23, <1>24, <1>25, <1>26, <1>27, <1>28, <1>29, <1>30, <1>31, <1>32,
           <1>33, <1>34 DEF QueryStep

LEMMA TypeStep ==
  ASSUME TypeInv, [Next]_vars
  PROVE  TypeInv'
<1>1. CASE InfoUpdate
  <2>1. PICK n \in MaxCnts : ci_max_cnt' = AtLeastOne(n)
    BY <1>1 DEF InfoUpdate
  <2>2. ci_max_cnt' \in Nat \ {0}
    BY <2>1, CiAssumption DEF CiAssumption, AtLeastOne
  <2> QED BY <1>1, <2>2 DEF InfoUpdate, flags, TypeInv, Types, LoadsFit, BootFirst, HandFits, SystemsKnown
<1>2. CASE UNCHANGED vars
  BY <1>2 DEF vars, flags, state, calls, wire, record, TypeInv, Types, LoadsFit, BootFirst, HandFits, SystemsKnown
<1> QED BY <1>1, <1>2, BootTypes, QueryTypes, LoadTypes DEF Next

-----------------------------------------------------------------------------
(* The polling. *)

LEMMA PollInit == Init => PollInv
<1> SUFFICES ASSUME Init PROVE PollInv
  OBVIOUS
<1>1. query.pc = "off" /\ cardasend = FALSE
  BY DEF Init, Idle
<1> QED BY <1>1 DEF PollInv

\* What a write leads to: a message of the card is on its way, or the write was
\* given up.
LEMMA WriteAnswered ==
  ASSUME Types, NEW x, Written(x)
  PROVE  /\ hist \subseteq hist'
         /\ hist' \cap Lasting = {} => c2h' # <<>> /\ hist' = hist
<1>1. c2h \in Seq(SB \cup CardMsgs)
  BY DEF Types
<1>2. CardAnswer(x) => \E m : c2h' = Append(c2h, m)
  BY DEF CardAnswer
<1>3. \A m : Append(c2h, m) # <<>>
  BY <1>1
<1> QED BY <1>2, <1>3 DEF Written, Write, GiveUp, Lasting

\* A message that is read and not answered is not a status, or was dropped.
LEMMA ReadLeft ==
  ASSUME NEW m, Unanswered(m)
  PROVE  /\ hist \subseteq hist'
         /\ hist' \cap Lasting = {} => m \in SB /\ hist' = hist
BY DEF Unanswered, Lasting

LEMMA PollStep ==
  ASSUME TypeInv, PollInv, [Next]_vars
  PROVE  PollInv'
<1> USE DEF flags, state, calls, wire, record
<1>1. Types /\ HandFits /\ BootFirst
  BY DEF TypeInv
<1>2. query \in Query /\ query.script \in Seq(Steps) /\ c2h \in Seq(SB \cup CardMsgs)
  BY <1>1 DEF Types, Query
\* What other threads do neither takes a message away nor removes a lasting mark.
<1>3. ASSUME UNCHANGED <<query, cardasend, c2h>>, hist \cap Lasting \subseteq hist'
      PROVE  PollInv'
  BY <1>3 DEF PollInv
<1>4. CASE InfoUpdate
  BY <1>3, <1>4 DEF InfoUpdate
<1>5. CASE UNCHANGED vars
  BY <1>3, <1>5 DEF vars
<1>6. CASE BootStep
  <2>1. CASE BootLink
    <3>1. query.pc = "off"
      BY <2>1, <1>1 DEF BootLink, BootFirst, Idle
    <3>2. query'.pc \in {"off", "start"} /\ UNCHANGED cardasend
      BY <2>1, <3>1 DEF BootLink, Idle
    <3>3. ~cardasend'
      BY <3>1, <3>2 DEF PollInv
    <3> QED BY <3>2, <3>3 DEF PollInv
  <2>2. CASE BootApply
    BY <2>2, <1>3 DEF BootApply
  <2>3. CASE BootDetect
    BY <2>3, <1>3 DEF BootDetect
  <2>4. CASE BootSize
    BY <2>4, <1>3 DEF BootSize
  <2> QED BY <2>1, <2>2, <2>3, <2>4, <1>6 DEF BootStep
<1>7. ASSUME NEW t \in Loader, LoadCall(t) \/ LoadStep(t) PROVE PollInv'
  <2>1. UNCHANGED <<query, cardasend, c2h>> /\ hist \cap Lasting \subseteq hist'
    BY <1>7 DEF LoadStep, LoadCall, LoadStop, LoadClear, LoadSet, LoadCopy, LoadStart
  <2> QED BY <2>1, <1>3
\* The query thread.
<1>8. ASSUME NEW p \in {"top", "get", "inc", "got", "poll", "read", "send", "dcas", "frame"},
             query'.pc = p, p = "read" => cardasend',
             hist' \cap Lasting = {} => (cardasend' /\ p # "poll" => c2h' # <<>>)
      PROVE  PollInv'
  BY <1>8 DEF PollInv
<1>9. ASSUME NEW p \in {"top", "get", "inc", "got", "poll", "read", "send", "dcas", "frame"},
             query'.pc = p, p = "read" => cardasend,
             UNCHANGED <<cardasend, c2h>>, hist \subseteq hist',
             query.pc \in {"top", "get", "inc", "got", "read", "send", "dcas", "frame"}
      PROVE  PollInv'
  <2>1. hist' \cap Lasting = {} => (cardasend => c2h # <<>>)
    BY <1>9 DEF PollInv
  <2> QED BY <2>1, <1>8, <1>9
<1>10. \A p \in QueryPcs : [query EXCEPT !.pc = p].pc = p
  BY <1>2 DEF Query
<1>11. ToTop => query'.pc = "top"
  BY DEF ToTop, Idle
<1>12. ToPoll \in {"read", "poll"} /\ (ToPoll = "read" => cardasend)
  BY DEF ToPoll
<1>13. ASSUME NEW s \in Seq(Steps), ToDo(s), UNCHANGED cardasend,
              DropsFollowed(s), hist' \cap Lasting = {} => c2h' # <<>> \/ HasWrite(s)
       PROVE  PollInv'
  <2>1. query'.pc = IF s = <<>> THEN "send" ELSE "handle"
    BY <1>2, <1>13 DEF ToDo, Query
  <2>2. query'.script = s
    BY <1>2, <1>13 DEF ToDo, Query
  <2>3. HasWrite(s) => s # <<>>
    BY DEF HasWrite
  <2> QED BY <2>1, <2>2, <2>3, <1>13 DEF PollInv
<1>14. ASSUME At("handle")
       PROVE  /\ query.script # <<>> /\ DropsFollowed(query.script) /\ Rest \in Seq(Steps)
              /\ DropsFollowed(Rest) /\ (Doing("drop") => HasWrite(Rest))
              /\ HasWrite(query.script) /\ Head(query.script) \notin Writes => HasWrite(Rest)
              /\ hist \cap Lasting = {} => c2h # <<>> \/ HasWrite(query.script)
  <2>1. query.script # <<>> /\ DropsFollowed(query.script)
    BY <1>1, <1>14 DEF HandFits, PollInv, At
  <2>2. hist \cap Lasting = {} => c2h # <<>> \/ HasWrite(query.script)
    BY <1>14 DEF PollInv, At
  <2> QED BY <2>1, <2>2, <1>2, RestOfHandler DEF Rest, Doing
<1>20. CASE Start
  <2>1. query'.pc = "top" /\ ~cardasend /\ cardasend' = cardasend
    BY <1>10, <1>20 DEF Start, QueryTo, QueryPcs, At, PollInv
  <2> QED BY <2>1, <1>8
<1>21. CASE Top
  <2>1. query'.pc \in {"get", ToPoll}
    BY <1>10, <1>12, <1>21 DEF Top, QueryTo, QueryPcs
  <2> QED BY <2>1, <1>9, <1>12, <1>21 DEF Top, At
<1>22. CASE GetPmt
  <2>0. \A x : [query EXCEPT !.pc = "inc", !.prog = x].pc = "inc"
    BY <1>2 DEF Query
  <2>1. query'.pc \in {"inc", ToPoll}
    <3>1. (\E x : query' = [query EXCEPT !.pc = "inc", !.prog = x]) \/ QueryTo(ToPoll)
      BY <1>22 DEF GetPmt
    <3>2. QueryTo(ToPoll) => query'.pc = ToPoll
      BY <1>10, <1>12 DEF QueryTo, QueryPcs
    <3> QED BY <2>0, <3>1, <3>2
  <2> QED BY <2>1, <1>9, <1>12, <1>22 DEF GetPmt, At
<1>23. CASE GetPmtIndex
  <2>1. query'.pc = "got"
    BY <1>2, <1>23 DEF GetPmtIndex, Query
  <2> QED BY <2>1, <1>9, <1>23 DEF GetPmtIndex, At
<1>24. CASE GotPmt
  <2>1. query'.pc = ToPoll
    BY <1>10, <1>12, <1>24 DEF GotPmt, QueryTo, QueryPcs
  <2> QED BY <2>1, <1>9, <1>12, <1>24 DEF GotPmt, At
<1>25. CASE FirstPoll
  <2>1. query'.pc = "read" /\ cardasend' = TRUE
    BY <1>10, <1>25 DEF FirstPoll, QueryTo, QueryPcs
  <2>2. hist' \cap Lasting = {} => c2h' # <<>>
    BY <1>1, <1>25, WriteAnswered DEF FirstPoll
  <2> QED BY <2>1, <2>2, <1>8
<1>26. CASE Read
  <2>0. UNCHANGED <<cur_section, flags, state, calls, want, sent>> /\ query.pc = "read"
    BY <1>26 DEF Read, At
  <2>1. ASSUME NEW m \in Range(c2h), ToDo(Handle(m)),
               IF Handle(m) = <<>> THEN Unanswered(m) ELSE UNCHANGED hist
        PROVE  PollInv'
    <3>1. /\ Handle(m) \in Seq(Steps) /\ DropsFollowed(Handle(m))
          /\ Handle(m) # <<>> => HasWrite(Handle(m))
          /\ m \in SB => Handle(m) # <<>>
      <4>1. m \in SB \cup CardMsgs
        BY <1>2 DEF Range
      <4> QED BY <4>1, HandlerWrites
    <3>2. hist' \cap Lasting = {} => HasWrite(Handle(m))
      BY <2>1, <3>1, ReadLeft
    <3> QED BY <2>0, <2>1, <3>1, <3>2, <1>13
  <2>2. ASSUME ReadNothing, QueryTo("send"), UNCHANGED hist
        PROVE  PollInv'
    <3>1. query'.pc = "send" /\ c2h' = c2h
      BY <2>2, <1>10 DEF QueryTo, QueryPcs, ReadNothing
    <3> QED BY <2>0, <2>2, <3>1, <1>9
  <2> QED BY <2>1, <2>2, <1>26 DEF Read
<1>27. CASE HandleWrite
  <2>1. PICK x : Doing(x) /\ Written(x)
    BY <1>27 DEF HandleWrite
  <2>2. ToDo(Rest) /\ UNCHANGED cardasend /\ At("handle")
    BY <1>27, <2>1 DEF HandleWrite, Doing
  <2>3. hist' \cap Lasting = {} => c2h' # <<>>
    BY <2>1, <1>1, WriteAnswered
  <2> QED BY <2>2, <2>3, <1>13, <1>14
<1>28. CASE HandleRead
  <2>0. UNCHANGED <<cur_section, flags, state, calls, want, sent>> /\ At("handle")
        /\ (Doing("drop") \/ Doing("answer"))
    BY <1>28 DEF HandleRead, Doing
  <2>1. ASSUME NEW m, Doing("answer"), m \in SB, ToDo(<<Poll(m)>> \o Rest), UNCHANGED hist
        PROVE  PollInv'
    <3>1. LET r == <<Poll(m)>> \o Rest IN r \in Seq(Steps) /\ HasWrite(r) /\ DropsFollowed(r)
      BY <2>0, <1>14, AnswerFirst
    <3> QED BY <2>0, <2>1, <3>1, <1>13
  <2>2. ASSUME NEW m, ~(Doing("answer") /\ m \in SB), ToDo(Rest), Unanswered(m)
        PROVE  PollInv'
    <3>1. hist' \cap Lasting = {} => HasWrite(Rest)
      BY <2>0, <2>2, <1>14, ReadLeft
    <3> QED BY <2>0, <2>2, <3>1, <1>13, <1>14
  <2>3. ASSUME ReadNothing, ToDo(Rest), UNCHANGED hist
        PROVE  PollInv'
    <3>1. c2h' = c2h
      BY <2>3 DEF ReadNothing
    <3>2. Head(query.script) \notin Writes
      BY <2>0 DEF Doing, Writes, Polls, SessionTpdus, Enquiries, Replies
    <3>3. hist' \cap Lasting = {} => c2h' # <<>> \/ HasWrite(Rest)
      BY <2>0, <2>3, <3>1, <3>2, <1>14
    <3> QED BY <2>0, <2>3, <3>3, <1>13, <1>14
  <2> QED BY <2>1, <2>2, <2>3, <1>28 DEF HandleRead
<1>29. CASE HandleReady \/ HandleEnable
  <2>0. /\ ToDo(Rest) /\ At("handle") /\ UNCHANGED <<cardasend, wire, hist>>
        /\ (Doing("ready") \/ Doing("enable"))
    BY <1>29 DEF HandleReady, HandleEnable, Doing
  <2>1. Head(query.script) \notin Writes
    BY <2>0 DEF Doing, Writes, Polls, SessionTpdus, Enquiries, Replies
  <2>2. hist' \cap Lasting = {} => c2h' # <<>> \/ HasWrite(Rest)
    BY <2>0, <2>1, <1>14
  <2> QED BY <2>0, <2>2, <1>13, <1>14
<1>30. CASE Send
  <2>1. query'.pc \in {"dcas", "top"}
    BY <1>10, <1>11, <1>30 DEF Send, QueryTo, QueryPcs
  <2>2. hist \subseteq hist'
    BY <1>30 DEF Send
  <2> QED BY <2>1, <2>2, <1>9, <1>30 DEF Send, At
<1>31. CASE TryToDcas
  <2>1. query'.pc \in {"frame", "top"}
    BY <1>2, <1>11, <1>31 DEF TryToDcas, Query
  <2> QED BY <2>1, <1>9, <1>31 DEF TryToDcas, At
<1>32. CASE DropBeforeFrame
  <2>1. query'.pc = "write"
    BY <1>10, <1>32 DEF DropBeforeFrame, QueryTo, QueryPcs
  <2> QED BY <2>1 DEF PollInv
<1>33. CASE WriteFrame
  <2>1. query'.pc = "top"
    BY <1>11, <1>33 DEF WriteFrame
  <2>2. hist' \cap Lasting = {} => c2h' # <<>>
    <3>1. Write("ca_pmt") => c2h' # <<>>
      <4>1. CardAnswer("ca_pmt") => \E m : c2h' = Append(c2h, m)
        BY DEF CardAnswer
      <4> QED BY <4>1, <1>2 DEF Write
    <3> QED BY <3>1, <1>33 DEF WriteFrame, Lasting
  <2> QED BY <2>1, <2>2, <1>8
<1> QED BY <1>4, <1>5, <1>6, <1>7, <1>20, <1>21, <1>22, <1>23, <1>24, <1>25, <1>26, <1>27, <1>28, <1>29,
           <1>30, <1>31, <1>32, <1>33 DEF Next, QueryStep

-----------------------------------------------------------------------------
(* The order. *)

\* What is kept by a step that moves neither the list nor what is sent of it.
LEMMA OrderFrame ==
  ASSUME OrderInv, HandFits,
         UNCHANGED <<cur_section, loader, ci_max_cnt, want, sent>>, hist \subseteq hist',
         query'.idx = query.idx, query'.idx # -1 => query'.prog = query.prog,
         query.pc \notin {"inc", "got"}, query'.pc \notin {"inc", "got"},
         query'.pc \in {"frame", "write"} => query.pc \in {"frame", "write"} \/ query.idx + 1 < ci_max_cnt,
         query'.pc = "get" \/ query.idx # -1 =>
           (send_pmt_en0 => send_pmt_en0') /\ (query'.pc = "get" => send_pmt_en0')
  PROVE  OrderInv'
<1>1. Clean' => Clean
  BY DEF Clean
<1>2. EnabledInv'
  <2> SUFFICES ASSUME Clean', InGetPmt' \/ query'.idx # -1 PROVE send_pmt_en0'
    BY DEF EnabledInv
  <2>1. query'.pc = "get" \/ query.idx # -1
    BY DEF InGetPmt
  <2>2. CASE query'.pc = "get"
    BY <2>2
  <2>3. CASE query.idx # -1
    BY <2>3, <1>1 DEF OrderInv, EnabledInv
  <2> QED BY <2>1, <2>2, <2>3
<1>3. LoadInv'
  <2> SUFFICES ASSUME Clean', NEW t \in Loader, Loading(t)' PROVE Copied(t)'
    BY DEF LoadInv
  <2>1. Loading(t) /\ Clean
    BY <1>1 DEF Loading
  <2>2. Copied(t)
    BY <2>1 DEF OrderInv, LoadInv
  <2> QED BY <2>2 DEF Copied, Loading
<1>4. ListInv'
  <2> SUFFICES ASSUME Clean', ~LoadUnderWay' PROVE Listed'
    BY DEF ListInv
  <2>1. Listed
    BY <1>1 DEF OrderInv, ListInv, LoadUnderWay
  <2>2. Taken' = Taken
    BY DEF Taken
  <2> QED BY <2>1, <2>2 DEF Listed
<1> QED BY <1>2, <1>3, <1>4 DEF OrderInv

LEMMA OrderInit == Init => OrderInv
<1> SUFFICES ASSUME Init PROVE OrderInv
  OBVIOUS
<1>1. /\ query.idx = -1 /\ query.pc = "off" /\ \A t \in Loader : loader[t].pc = "idle"
      /\ cur_section.index = 0 /\ cur_section.programtotal = 0 /\ want = <<>> /\ sent = <<>>
  BY DEF Init, Idle, NoLoad
<1>2. EnabledInv /\ LoadInv
  BY <1>1 DEF EnabledInv, LoadInv, InGetPmt, Loading
<1>3. Listed
  <2>1. ci_max_cnt \in Nat \ {0}
    BY TypesInit DEF TypeInv, Types
  <2>2. Taken = 0
    BY <1>1 DEF Taken
  <2> QED BY <1>1, <2>1, <2>2 DEF Listed
<1> QED BY <1>2, <1>3 DEF OrderInv, ListInv

LEMMA BootOrder ==
  ASSUME TypeInv, OrderInv, BootStep
  PROVE  OrderInv'
<1> USE DEF flags, state, calls, wire, record
<1>1. Types /\ HandFits /\ BootFirst
  BY DEF TypeInv
<1>2. /\ boot # "done" /\ query = Idle /\ loader = [t \in Loader |-> NoLoad]
      /\ cur_section.index = 0 /\ sent = <<>> /\ cur_section \in Section
      /\ query.pc = "off" /\ query.idx = -1
  <2>1. boot # "done"
    BY DEF BootStep, BootApply, BootDetect, BootSize, BootLink
  <2>2. query = Idle /\ loader = [t \in Loader |-> NoLoad] /\ cur_section.index = 0 /\ sent = <<>>
    BY <2>1, <1>1 DEF BootFirst
  <2>3. cur_section \in Section
    BY <1>1 DEF Types
  <2> QED BY <2>1, <2>2, <2>3 DEF Idle
<1>3. CASE BootApply
  <2>1. PICK sel \in Selections :
          /\ cur_section' = [cur_section EXCEPT !.programtotal = Len(AppliedList(sel)),
               !.section = [i \in Progs |-> IF i <= Len(AppliedList(sel)) THEN AppliedList(sel)[i] ELSE @[i]]]
          /\ want' = AppliedList(sel)
    BY <1>3 DEF BootApply
  <2> DEFINE list == AppliedList(sel)
  <2>2. list \in Seq(Progs) /\ Len(list) <= Len(Pmt)
    BY AppliedType
  <2>3. cur_section' = [cur_section EXCEPT !.programtotal = Len(list),
               !.section = [i \in Progs |-> IF i <= Len(list) THEN list[i] ELSE cur_section.section[i]]]
    BY <2>1, <1>2 DEF Section
  <2>4. want' = list
    BY <2>1
  <2>5. /\ UNCHANGED <<query, loader, sent, hist, ci_max_cnt>>
    BY <1>3 DEF BootApply
  <2> HIDE DEF list
  <2>6. /\ cur_section'.index = 0 /\ cur_section'.programtotal = Len(list)
        /\ \A j \in 1..Len(list) : cur_section'.section[j] = list[j]
    <3>1. \A j \in 1..Len(list) : j \in Progs
      BY <2>2, PmtType
    <3> QED BY <2>3, <3>1, <1>2 DEF Section
  <2>7. EnabledInv' /\ LoadInv'
    BY <2>5, <1>2 DEF EnabledInv, LoadInv, InGetPmt, Loading, NoLoad
  <2>8. Listed'
    <3>1. ci_max_cnt' \in Nat \ {0} /\ Len(list) \in Nat
      BY <2>2, <2>5, <1>1 DEF Types
    <3>2. Taken' = 0
      BY <2>5, <2>6, <1>2 DEF Taken
    <3> QED BY <2>4, <2>5, <2>6, <3>1, <3>2, <1>2 DEF Listed
  <2> QED BY <2>7, <2>8 DEF OrderInv, ListInv
<1>4. CASE BootDetect \/ BootSize
  <2>1. UNCHANGED <<cur_section, query, loader, ci_max_cnt, want, sent, hist, send_pmt_en0>>
    BY <1>4 DEF BootDetect, BootSize
  <2> QED BY <2>1, <1>1, <1>2, OrderFrame
<1>5. CASE BootLink
  <2>1. UNCHANGED <<loader, ci_max_cnt, want, sent, hist, send_pmt_en0>>
    BY <1>5 DEF BootLink
  <2>2. cur_section' = cur_section
    <3>1. [cur_section EXCEPT !.index = 0] = cur_section
      BY <1>2 DEF Section
    <3> QED BY <3>1, <1>5 DEF BootLink
  <2>3. query'.pc \in {"off", "start"} /\ query'.idx = -1
    BY <1>2, <1>5 DEF BootLink, Idle
  <2> QED BY <2>1, <2>2, <2>3, <1>1, <1>2, OrderFrame
<1> QED BY <1>3, <1>4, <1>5 DEF BootStep

\* What a step of a load did not disturb.
LEMMA Undisturbed ==
  ASSUME NEW t \in Loader, Disturbed(t) \subseteq hist', Clean'
  PROVE  /\ query.idx = -1 /\ query.pc \notin {"get", "inc", "got"}
         /\ \A u \in Loader \ {t} : ~Loading(u)
<1>1. "raced" \notin hist'
  BY DEF Clean
<1>2. ~Holding /\ Alone(t)
  BY <1>1 DEF Disturbed
<1> QED BY <1>2 DEF Holding, InGetPmt, Alone, Loading

LEMMA LoadOrder ==
  ASSUME TypeInv, OrderInv, NEW t \in Loader, LoadCall(t) \/ LoadStep(t)
  PROVE  OrderInv'
<1> USE DEF flags, state, calls, wire, record
<1>1. Types /\ LoadsFit /\ HandFits
  BY DEF TypeInv
<1>2. /\ loader \in [Loader -> Load] /\ loader[t] \in Load /\ cur_section \in Section
      /\ loader[t].list \in Seq(Progs) /\ loader[t].k \in Nat /\ Len(loader[t].list) <= Len(Pmt)
  BY <1>1 DEF Types, LoadsFit, Load
\* While t copies its list.
<1>3. ASSUME Clean' => Copied(t)', Loading(t)', UNCHANGED query,
             \A u \in Loader \ {t} : loader'[u] = loader[u], Disturbed(t) \subseteq hist'
      PROVE  OrderInv'
  <2>1. EnabledInv'
    BY <1>3, Undisturbed DEF EnabledInv, InGetPmt
  <2>2. LoadInv'
    <3> SUFFICES ASSUME Clean', NEW u \in Loader, Loading(u)' PROVE Copied(u)'
      BY DEF LoadInv
    <3>1. u # t => ~Loading(u)
      BY <1>3, Undisturbed
    <3>2. u = t
      BY <3>1, <1>3 DEF Loading
    <3> QED BY <3>2, <1>3
  <2>3. ListInv'
    BY <1>3 DEF ListInv, LoadUnderWay, Loading
  <2> QED BY <2>1, <2>2, <2>3 DEF OrderInv
<1>4. ASSUME NEW p, LoadTo(t, p)
      PROVE  /\ loader'[t].pc = p /\ loader'[t].list = loader[t].list /\ loader'[t].k = loader[t].k
             /\ \A u \in Loader \ {t} : loader'[u] = loader[u]
  BY <1>2, <1>4 DEF LoadTo, Load
<1>5. ASSUME \A u \in Loader \ {t} : ~Loading(u) /\ loader'[u] = loader[u]
      PROVE  \A u \in Loader \ {t} : ~Loading(u)'
  BY <1>5 DEF Loading
<1>6. CASE LoadCall(t)
  <2>1. PICK sel : loader' = [loader EXCEPT ![t] = [pc |-> "stop", list |-> AppliedList(sel), k |-> 1]]
    BY <1>6 DEF LoadCall
  <2>2. /\ \A u \in Loader : Loading(u)' <=> Loading(u)
        /\ \A u \in Loader : Loading(u) => loader'[u] = loader[u]
    BY <2>1, <1>2, <1>6 DEF Loading, LoadCall
  <2>3. UNCHANGED <<cur_section, query, ci_max_cnt, want, sent, hist, send_pmt_en0>>
    BY <1>6 DEF LoadCall
  <2>4. EnabledInv'
    BY <2>3 DEF OrderInv, EnabledInv, Clean, InGetPmt
  <2>5. LoadInv'
    <3> SUFFICES ASSUME Clean', NEW u \in Loader, Loading(u)' PROVE Copied(u)'
      BY DEF LoadInv
    <3>1. Copied(u) /\ loader'[u] = loader[u]
      BY <2>2, <2>3 DEF OrderInv, LoadInv, Clean
    <3>2. \A v \in Loader \ {u} : ~Loading(v)'
      BY <3>1, <2>2 DEF Copied
    <3> QED BY <3>1, <3>2, <2>3 DEF Copied
  <2>6. ListInv'
    <3>1. LoadUnderWay' <=> LoadUnderWay
      BY <2>2 DEF LoadUnderWay, Loading
    <3>2. Listed => Listed'
      BY <2>3 DEF Listed, Taken
    <3> QED BY <3>1, <3>2, <2>3 DEF OrderInv, ListInv, Clean
  <2> QED BY <2>4, <2>5, <2>6 DEF OrderInv
<1>7. CASE LoadStop(t)
  <2>1. LoadTo(t, "clear") /\ want' = loader[t].list /\ sent' = <<>> /\ UNCHANGED <<query, cur_section>>
        /\ Disturbed(t) \subseteq hist'
    BY <1>7 DEF LoadStop
  <2>2. Loading(t)'
    BY <2>1, <1>4 DEF Loading
  <2>3. ASSUME Clean' PROVE Copied(t)'
    <3>1. /\ query.idx = -1 /\ query.pc \notin {"get", "inc", "got"}
          /\ \A u \in Loader \ {t} : ~Loading(u)
      BY <2>1, <2>3, Undisturbed
    <3>2. \A u \in Loader \ {t} : ~Loading(u)'
      BY <3>1, <2>1, <1>4, <1>5
    <3> QED BY <3>1, <3>2, <2>1, <1>4 DEF Copied
  <2> QED BY <2>1, <2>2, <2>3, <1>3, <1>4
\* The three steps that follow: t was alone, and still is.
<1>8. ASSUME Loading(t), UNCHANGED <<query, want, sent>>, Disturbed(t) \subseteq hist',
             hist \subseteq hist', Clean', \A u \in Loader \ {t} : loader'[u] = loader[u]
      PROVE  /\ query'.idx = -1 /\ query'.pc \notin {"inc", "got"} /\ Copied(t)
             /\ \A u \in Loader \ {t} : ~Loading(u)'
             /\ want' = loader[t].list /\ sent' = <<>>
  <2>1. Clean
    BY <1>8 DEF Clean
  <2>2. Copied(t)
    BY <2>1, <1>8 DEF OrderInv, LoadInv
  <2>3. \A u \in Loader \ {t} : ~Loading(u)'
    BY <2>2, <1>5, <1>8 DEF Copied
  <2> QED BY <2>2, <2>3, <1>8 DEF Copied
<1>9. CASE LoadClear(t)
  <2>1. /\ LoadTo(t, "set") /\ cur_section' = [cur_section EXCEPT !.index = 0, !.programtotal = 0]
        /\ UNCHANGED <<query, want, sent>> /\ hist' = hist \cup Disturbed(t) /\ Loading(t)
    BY <1>9 DEF LoadClear, Loading
  <2>2. Loading(t)' /\ cur_section'.index = 0
    BY <2>1, <1>2, <1>4 DEF Loading, Section
  <2>3. ASSUME Clean' PROVE Copied(t)'
    BY <2>1, <2>2, <2>3, <1>4, <1>8 DEF Copied
  <2> QED BY <2>1, <2>2, <2>3, <1>3, <1>4
<1>10. CASE LoadSet(t)
  <2> DEFINE p == IF loader[t].list = <<>> THEN "start" ELSE "copy"
  <2>1. /\ LoadTo(t, p)
        /\ cur_section' = [cur_section EXCEPT !.index = 0, !.programtotal = Len(loader[t].list)]
        /\ UNCHANGED <<query, want, sent>> /\ hist' = hist \cup Disturbed(t) /\ loader[t].pc = "set"
    BY <1>10 DEF LoadSet
  <2>2. /\ loader'[t].pc = p /\ loader'[t].list = loader[t].list /\ loader'[t].k = loader[t].k
        /\ \A u \in Loader \ {t} : loader'[u] = loader[u]
    BY <2>1, <1>4
  <2>3. Loading(t)' /\ Loading(t) /\ cur_section'.index = 0 /\ cur_section'.programtotal = Len(loader[t].list)
    BY <2>1, <2>2, <1>2 DEF Loading, Section
  <2>4. loader[t].k = 1
    BY <2>1, <1>1 DEF LoadsFit
  <2>5. ASSUME Clean' PROVE Copied(t)'
    <3>1. /\ query'.idx = -1 /\ query'.pc \notin {"inc", "got"}
          /\ \A u \in Loader \ {t} : ~Loading(u)'
          /\ want' = loader[t].list /\ sent' = <<>>
      BY <2>1, <2>2, <2>3, <2>5, <1>8
    <3>2. \A j \in 1..(loader'[t].k - 1) : FALSE
      BY <2>2, <2>4
    <3>3. p = "start" => \A j \in 1..Len(loader'[t].list) : FALSE
      BY <2>2
    <3> QED BY <3>1, <3>2, <3>3, <2>2, <2>3 DEF Copied
  <2> QED BY <2>1, <2>2, <2>3, <2>5, <1>3
<1>11. CASE LoadCopy(t)
  <2> DEFINE o == loader[t]
             p == IF o.k = Len(o.list) THEN "start" ELSE "copy"
  <2>1. /\ loader' = [loader EXCEPT ![t].pc = p, ![t].k = o.k + 1]
        /\ cur_section' = [cur_section EXCEPT !.section[o.k] = o.list[o.k]]
        /\ UNCHANGED <<query, want, sent>> /\ hist' = hist \cup Disturbed(t) /\ o.pc = "copy"
    BY <1>11 DEF LoadCopy
  <2>2. /\ loader'[t].pc = p /\ loader'[t].list = o.list /\ loader'[t].k = o.k + 1
        /\ \A u \in Loader \ {t} : loader'[u] = loader[u]
    BY <2>1, <1>2 DEF Load
  <2>3. o.k \in 1..Len(o.list) /\ Len(o.list) \in Nat
    BY <2>1, <1>1, <1>2 DEF LoadsFit
  <2>4. /\ cur_section'.index = cur_section.index /\ cur_section'.programtotal = cur_section.programtotal
        /\ cur_section'.section = [cur_section.section EXCEPT ![o.k] = o.list[o.k]]
        /\ cur_section.section \in [Progs -> Progs \cup {NoProg}]
    BY <2>1, <1>2 DEF Section
  <2>5. \A j \in 1..Len(o.list) : j \in Progs
    BY <1>2, PmtType
  <2>6. Loading(t)' /\ Loading(t)
    BY <2>1, <2>2 DEF Loading
  <2>7. ASSUME Clean' PROVE Copied(t)'
    <3>1. /\ query'.idx = -1 /\ query'.pc \notin {"inc", "got"} /\ Copied(t)
          /\ \A u \in Loader \ {t} : ~Loading(u)'
          /\ want' = o.list /\ sent' = <<>>
      BY <2>1, <2>2, <2>6, <2>7, <1>8
    <3>2. /\ cur_section.index = 0 /\ cur_section.programtotal = Len(o.list)
          /\ \A j \in 1..(o.k - 1) : cur_section.section[j] = o.list[j]
      BY <2>1, <3>1 DEF Copied
    <3> HIDE DEF o
    <3>3. \A j \in 1..o.k : cur_section'.section[j] = o.list[j]
      <4> SUFFICES ASSUME NEW j \in 1..o.k PROVE cur_section'.section[j] = o.list[j]
        OBVIOUS
      <4>1. CASE j = o.k
        BY <4>1, <2>3, <2>4, <2>5
      <4>2. CASE j # o.k
        BY <4>2, <2>3, <2>4, <2>5, <3>2
      <4> QED BY <4>1, <4>2
    <3>4. loader'[t].k - 1 = o.k /\ (p = "start" => o.k = Len(o.list))
      BY <2>2, <2>3
    <3>5. /\ p = "copy" => \A j \in 1..(loader'[t].k - 1) : cur_section'.section[j] = o.list[j]
          /\ p = "start" => \A j \in 1..Len(o.list) : cur_section'.section[j] = o.list[j]
      BY <3>3, <3>4
    <3> HIDE DEF p
    <3> QED BY <3>1, <3>2, <3>5, <2>2, <2>4 DEF Copied
  <2> QED BY <2>1, <2>2, <2>6, <2>7, <1>3
<1>12. CASE LoadStart(t)
  <2>1. /\ loader' = [loader EXCEPT ![t] = NoLoad] /\ send_pmt_en0' = TRUE
        /\ UNCHANGED <<cur_section, query, ci_max_cnt, want, sent, hist>> /\ loader[t].pc = "start"
    BY <1>12 DEF LoadStart
  <2>2. EnabledInv'
    BY <2>1 DEF EnabledInv
  <2>3. Clean => Copied(t)
    BY <2>1 DEF OrderInv, LoadInv, Loading
  <2>4. Clean' <=> Clean
    BY <2>1 DEF Clean
  <2>5. Clean => \A u \in Loader : ~Loading(u)'
    BY <2>1, <2>3, <1>2 DEF Copied, Loading, NoLoad
  <2>6. LoadInv'
    BY <2>4, <2>5 DEF LoadInv
  <2>7. ListInv'
    <3> SUFFICES ASSUME Clean PROVE Listed'
      BY <2>4 DEF ListInv
    <3>1. /\ query.idx = -1 /\ query.pc \notin {"inc", "got"} /\ want = loader[t].list /\ sent = <<>>
          /\ cur_section.index = 0 /\ cur_section.programtotal = Len(want)
          /\ \A j \in 1..Len(want) : cur_section.section[j] = want[j]
      BY <2>1, <2>3 DEF Copied
    <3>2. query.pc \notin {"frame", "write"}
      BY <3>1, <1>1 DEF HandFits
    <3>3. ci_max_cnt \in Nat \ {0} /\ Len(want) \in Nat
      BY <1>1 DEF Types
    <3>4. Taken' = 0
      BY <3>1, <2>1 DEF Taken
    <3> QED BY <3>1, <3>2, <3>3, <3>4, <2>1 DEF Listed
  <2> QED BY <2>2, <2>6, <2>7 DEF OrderInv
<1> QED BY <1>6, <1>7, <1>9, <1>10, <1>11, <1>12 DEF LoadStep

\* What is sent of the list when the program in hand is dealt with and not sent:
\* it was already beyond the maximum.
LEMMA OrderPassed ==
  ASSUME TypeInv, OrderInv, ToTop, query.idx # -1,
         UNCHANGED <<cur_section, loader, ci_max_cnt, want, send_pmt_en0>>, hist \subseteq hist',
         query.pc \notin {"inc", "got"},
         Clean' => IF query.idx + 1 < ci_max_cnt
                   THEN \E c : sent' = Append(sent, c) /\ c.prog = query.prog
                   ELSE sent' = sent
  PROVE  OrderInv'
<1>1. query'.pc = "top" /\ query'.idx = -1
  BY DEF ToTop, Idle
<1>2. Clean' => Clean
  BY DEF Clean
<1>3. EnabledInv'
  BY <1>1 DEF EnabledInv, InGetPmt
<1>4. Clean => ~LoadUnderWay
  <2> SUFFICES ASSUME Clean, NEW t \in Loader, Loading(t) PROVE FALSE
    BY DEF LoadUnderWay, Loading
  <2> QED BY DEF OrderInv, LoadInv, Copied
<1>5. LoadInv'
  BY <1>2, <1>4 DEF LoadInv, Loading, LoadUnderWay
<1>6. ASSUME Clean' PROVE Listed'
  <2>1. Listed
    BY <1>2, <1>4, <1>6 DEF OrderInv, ListInv
  <2>2. Taken = query.idx /\ Taken' = query.idx + 1 /\ cur_section.index = query.idx + 1
    BY <2>1, <1>1 DEF Listed, Taken
  <2>3. /\ query.idx \in Nat /\ ci_max_cnt \in Nat \ {0} /\ want \in Seq(Progs) /\ sent \in Seq(CaPmt)
    BY DEF TypeInv, Types, Query
  <2>4. /\ Len(sent) = IF query.idx < ci_max_cnt - 1 THEN query.idx ELSE ci_max_cnt - 1
        /\ \A i \in 1..Len(sent) : sent[i].prog = want[i]
        /\ query.idx < Len(want) /\ query.prog = want[query.idx + 1]
    BY <2>1, <2>2 DEF Listed
  <2>5. /\ Len(sent') = IF query.idx + 1 < ci_max_cnt - 1 THEN query.idx + 1 ELSE ci_max_cnt - 1
        /\ \A i \in 1..Len(sent') : sent'[i].prog = want[i]
    <3>1. CASE query.idx + 1 < ci_max_cnt
      <4>1. PICK c : sent' = Append(sent, c) /\ c.prog = query.prog
        BY <3>1, <1>6
      <4>2. Len(sent) = query.idx
        BY <3>1, <2>3, <2>4
      <4>3. /\ Len(sent') = query.idx + 1 /\ sent'[query.idx + 1] = c
            /\ \A i \in 1..query.idx : sent'[i] = sent[i]
        BY <4>1, <4>2, <2>3
      <4>4. \A i \in 1..(query.idx + 1) : i = query.idx + 1 \/ i \in 1..query.idx
        BY <2>3
      <4>5. \A i \in 1..Len(sent') : sent'[i].prog = want[i]
        BY <4>1, <4>2, <4>3, <4>4, <2>4
      <4>6. Len(sent') = IF query.idx + 1 < ci_max_cnt - 1 THEN query.idx + 1 ELSE ci_max_cnt - 1
        BY <4>3, <3>1, <2>3
      <4> QED BY <4>5, <4>6
    <3>2. CASE ~(query.idx + 1 < ci_max_cnt)
      <4>1. sent' = sent
        BY <3>2, <1>6
      <4>2. Len(sent) = ci_max_cnt - 1 /\ ~(query.idx + 1 < ci_max_cnt - 1)
        BY <3>2, <2>3, <2>4
      <4> QED BY <4>1, <4>2, <2>4
    <3> QED BY <3>1, <3>2
  <2>6. query.idx + 1 <= Len(want) /\ query'.idx < Len(want)
    BY <1>1, <2>3, <2>4
  <2> QED BY <1>1, <2>1, <2>2, <2>5, <2>6 DEF Listed
<1> QED BY <1>3, <1>5, <1>6 DEF OrderInv, ListInv

LEMMA QueryOrder ==
  ASSUME TypeInv, OrderInv, QueryStep
  PROVE  OrderInv'
<1> USE DEF flags, state, calls, wire, record
<1>1. Types /\ HandFits /\ SystemsKnown
  BY DEF TypeInv
<1>2. query \in Query /\ cur_section \in Section
  BY <1>1 DEF Types
<1>3. ASSUME NEW p \in QueryPcs, QueryTo(p)
      PROVE  query'.pc = p /\ query'.idx = query.idx /\ query'.prog = query.prog
  BY <1>2, <1>3 DEF QueryTo, Query
<1>4. ASSUME NEW s, ToDo(s)
      PROVE  query'.pc \in {"send", "handle"} /\ query'.idx = query.idx /\ query'.prog = query.prog
  BY <1>2, <1>4 DEF ToDo, Query
<1>5. ToPoll \in {"read", "poll"}
  BY DEF ToPoll
<1>6. ToTop => query'.pc = "top" /\ query'.idx = -1
  BY DEF ToTop, Idle
\* The steps that leave the list and what is sent alone.
<1>7. ASSUME query'.pc \in {"top", "poll", "read", "handle", "send", "dcas"}, query'.idx = query.idx,
             query'.idx # -1 => query'.prog = query.prog, query.pc \notin {"inc", "got"},
             UNCHANGED <<cur_section, loader, ci_max_cnt, want, sent>>, hist \subseteq hist',
             query.idx # -1 => (send_pmt_en0 => send_pmt_en0')
      PROVE  OrderInv'
  BY <1>1, <1>7, OrderFrame
<1>8. Clean /\ (query.idx # -1 \/ query.pc \in {"inc", "got"}) => ~LoadUnderWay
  BY DEF OrderInv, LoadInv, Copied, LoadUnderWay, Loading
<1>20. CASE Start
  <2>1. query'.pc = "top" /\ query'.idx = query.idx /\ query.idx = -1 /\ query.pc = "start"
    BY <1>1, <1>3, <1>20 DEF Start, At, HandFits, QueryPcs
  <2> QED BY <2>1, <1>7, <1>20 DEF Start
<1>21. CASE Top
  <2>1. /\ query.idx = -1 /\ query.pc = "top"
        /\ UNCHANGED <<cur_section, send_pmt_en0, loader, ci_max_cnt, want, sent, hist>>
    BY <1>1, <1>21 DEF Top, At, HandFits
  <2>2. CASE QueryTo(ToPoll)
    <3>1. query'.pc \in {"read", "poll"} /\ query'.idx = query.idx
      BY <2>2, <1>3, <1>5 DEF QueryPcs
    <3> QED BY <2>1, <3>1, <1>7
  <2>3. CASE QueryTo("get") /\ send_pmt_en0
    <3>1. query'.pc = "get" /\ query'.idx = query.idx
      BY <2>3, <1>3 DEF QueryPcs
    <3> QED BY <2>1, <2>3, <3>1, <1>1, OrderFrame
  <2> QED BY <2>2, <2>3, <1>21 DEF Top
<1>22. CASE GetPmt
  <2> DEFINE i == cur_section.index
  <2>1. /\ query.idx = -1 /\ query.pc = "get" /\ hist \subseteq hist'
        /\ UNCHANGED <<cur_section, send_pmt_en0, loader, ci_max_cnt, want, sent>>
    BY <1>1, <1>22 DEF GetPmt, At, HandFits
  <2>2. CASE i < cur_section.programtotal
    <3>1. query' = [query EXCEPT !.pc = "inc", !.prog = cur_section.section[i + 1]]
      BY <1>22, <2>2 DEF GetPmt
    <3>2. query'.pc = "inc" /\ query'.idx = -1 /\ query'.prog = cur_section.section[i + 1]
      BY <2>1, <3>1, <1>2 DEF Query
    <3>3. Clean' => Clean /\ ~LoadUnderWay
      BY <2>1, <1>22 DEF GetPmt, Clean
    <3>4. EnabledInv'
      <4>1. Clean => send_pmt_en0
        BY <2>1 DEF OrderInv, EnabledInv, InGetPmt
      <4> QED BY <2>1, <3>3, <4>1 DEF EnabledInv
    <3>5. LoadInv'
      BY <2>1, <3>3 DEF LoadInv, LoadUnderWay, Loading
    <3>6. ASSUME Clean' PROVE Listed'
      <4>1. Listed
        BY <3>3, <3>6 DEF OrderInv, ListInv
      <4>2. Taken = i /\ Taken' = i
        BY <2>1, <3>2 DEF Taken
      <4>3. i < Len(want) /\ i + 1 \in 1..Len(want)
        BY <2>2, <4>1, <1>1, <1>2 DEF Listed, Types, Section
      <4>4. query'.prog = want[i + 1]
        BY <3>2, <4>1, <4>3 DEF Listed
      <4> QED BY <2>1, <3>2, <4>1, <4>2, <4>3, <4>4 DEF Listed
    <3> QED BY <3>4, <3>5, <3>6 DEF OrderInv, ListInv
  <2>3. CASE ~(i < cur_section.programtotal)
    <3>1. QueryTo(ToPoll)
      BY <1>22, <2>3 DEF GetPmt
    <3>2. query'.pc \in {"read", "poll"} /\ query'.idx = query.idx
      BY <3>1, <1>3, <1>5 DEF QueryPcs
    <3> QED BY <2>1, <3>2, <1>7
  <2> QED BY <2>2, <2>3
<1>23. CASE GetPmtIndex
  <2>1. /\ query' = [query EXCEPT !.pc = "got", !.idx = cur_section.index] /\ query.pc = "inc"
        /\ UNCHANGED <<cur_section, send_pmt_en0, loader, ci_max_cnt, want, sent, hist>> /\ query.idx = -1
    BY <1>1, <1>23 DEF GetPmtIndex, At, HandFits
  <2>2. query'.pc = "got" /\ query'.idx = cur_section.index /\ query'.prog = query.prog
    BY <2>1, <1>2 DEF Query
  <2>3. Clean' => Clean /\ ~LoadUnderWay /\ send_pmt_en0
    BY <2>1, <1>8 DEF Clean, OrderInv, EnabledInv, InGetPmt
  <2>4. EnabledInv'
    BY <2>1, <2>3 DEF EnabledInv
  <2>5. LoadInv'
    BY <2>1, <2>3 DEF LoadInv, LoadUnderWay, Loading
  <2>6. ASSUME Clean' PROVE Listed'
    <3>1. Listed
      BY <2>3, <2>6 DEF OrderInv, ListInv
    <3>2. Taken = cur_section.index /\ Taken' = cur_section.index
      BY <2>1, <2>2 DEF Taken
    <3> QED BY <2>1, <2>2, <3>1, <3>2 DEF Listed
  <2> QED BY <2>4, <2>5, <2>6 DEF OrderInv, ListInv
<1>24. CASE GotPmt
  <2>1. /\ query.pc = "got" /\ query.idx # -1 /\ cur_section' = [cur_section EXCEPT !.index = query.idx + 1]
        /\ UNCHANGED <<send_pmt_en0, loader, ci_max_cnt, want, sent, hist>>
    BY <1>1, <1>24 DEF GotPmt, At, HandFits
  <2>2. query'.pc \in {"read", "poll"} /\ query'.idx = query.idx /\ query'.prog = query.prog
    BY <1>3, <1>5, <1>24 DEF GotPmt, QueryPcs
  <2>3. /\ cur_section'.index = query.idx + 1 /\ cur_section'.programtotal = cur_section.programtotal
        /\ cur_section'.section = cur_section.section
    BY <2>1, <1>2 DEF Section
  <2>4. Clean' => Clean /\ ~LoadUnderWay /\ send_pmt_en0
    BY <2>1, <1>8 DEF Clean, OrderInv, EnabledInv, InGetPmt
  <2>5. EnabledInv'
    BY <2>1, <2>4 DEF EnabledInv
  <2>6. LoadInv'
    BY <2>1, <2>4 DEF LoadInv, LoadUnderWay, Loading
  <2>7. ASSUME Clean' PROVE Listed'
    <3>1. Listed
      BY <2>4, <2>7 DEF OrderInv, ListInv
    <3>2. Taken = query.idx /\ Taken' = query.idx
      BY <2>1, <2>2 DEF Taken
    <3>3. query.idx < Len(want) /\ query.idx + 1 <= Len(want)
      BY <3>1, <1>1, <1>2 DEF Listed, Types, Query
    <3> QED BY <2>1, <2>2, <2>3, <3>1, <3>2, <3>3 DEF Listed
  <2> QED BY <2>5, <2>6, <2>7 DEF OrderInv, ListInv
<1>25. CASE FirstPoll
  <2>1. query'.pc = "read" /\ query'.idx = query.idx /\ query'.prog = query.prog
    BY <1>3, <1>25 DEF FirstPoll, QueryPcs
  <2>2. hist \subseteq hist'
    BY <1>25 DEF FirstPoll, Written
  <2> QED BY <2>1, <2>2, <1>7, <1>25 DEF FirstPoll, At
<1>26. CASE Read
  <2>1. /\ UNCHANGED <<cur_section, flags, state, calls, want, sent>> /\ query.pc = "read"
        /\ hist \subseteq hist'
    BY <1>26 DEF Read, At, Unanswered
  <2>2. QueryTo("send") \/ \E s : ToDo(s)
    BY <1>26 DEF Read
  <2>3. query'.pc \in {"send", "handle"} /\ query'.idx = query.idx /\ query'.prog = query.prog
    BY <2>2, <1>3, <1>4 DEF QueryPcs
  <2> QED BY <2>1, <2>3, <1>7
<1>27. CASE HandleWrite \/ HandleRead \/ HandleReady \/ HandleEnable
  <2>1. query.pc = "handle"
    BY <1>27 DEF HandleWrite, HandleRead, HandleReady, HandleEnable, Doing, At
  <2>2. UNCHANGED <<cur_section, loader, ci_max_cnt, want, sent>>
    BY <1>27 DEF HandleWrite, HandleRead, HandleReady, HandleEnable
  <2>3. send_pmt_en0 => send_pmt_en0'
    BY <1>27 DEF HandleWrite, HandleRead, HandleReady, HandleEnable
  <2>4. hist \subseteq hist'
    BY <1>27 DEF HandleWrite, HandleRead, HandleReady, HandleEnable, Unanswered, Written
  <2>5. \E s : ToDo(s)
    BY <1>27 DEF HandleWrite, HandleRead, HandleReady, HandleEnable
  <2> QED BY <2>1, <2>2, <2>3, <2>4, <2>5, <1>4, <1>7
<1>28. CASE Send
  <2>1. /\ UNCHANGED <<cur_section, flags, card_status, sys_ids, ci_max_cnt, calls, wire, want, sent>>
        /\ query.pc = "send" /\ hist \subseteq hist'
    BY <1>28 DEF Send, At
  <2>2. CASE QueryTo("dcas")
    <3>1. query'.pc = "dcas" /\ query'.idx = query.idx /\ query'.prog = query.prog
      BY <2>2, <1>3 DEF QueryPcs
    <3> QED BY <2>1, <3>1, <1>7
  <2>3. CASE ToTop /\ query.idx = -1
    BY <2>1, <2>3, <1>6, <1>7
  <2>4. CASE ToTop /\ query.idx # -1 /\ ~QueryTo("dcas")
    <3>1. ASSUME Clean' PROVE ~(query.idx + 1 < ci_max_cnt)
      <4>1. Clean
        BY <2>1, <3>1 DEF Clean
      <4>2. send_pmt_en0
        BY <4>1, <2>4 DEF OrderInv, EnabledInv
      <4>3. card_status = "ready"
        BY <3>1, <4>2, <2>4, <1>28 DEF Send, Clean
      <4>4. ~(query.idx < ci_max_cnt /\ query.idx < cur_section.programtotal)
        BY <4>2, <4>3, <2>4, <1>28 DEF Send
      <4>5. query.idx < cur_section.programtotal
        BY <4>1, <2>4, <1>8 DEF OrderInv, ListInv, Listed
      <4>6. query.idx \in Nat /\ ci_max_cnt \in Nat
        BY <2>4, <1>1, <1>2 DEF Types, Query
      <4> QED BY <4>4, <4>5, <4>6
    <3> QED BY <2>1, <2>4, <3>1, OrderPassed
  <2> QED BY <2>2, <2>3, <2>4, <1>28 DEF Send
<1>29. CASE TryToDcas
  <2>1. /\ UNCHANGED <<cur_section, flags, card_status, sys_ids, ci_max_cnt, calls, wire, record>>
        /\ query.pc = "dcas" /\ query.idx # -1
    BY <1>1, <1>29 DEF TryToDcas, At, HandFits
  <2>2. CASE send_pmt_en0 /\ query.idx + 1 < ci_max_cnt
    <3>1. query'.pc = "frame" /\ query'.idx = query.idx /\ query'.prog = query.prog
      <4>1. \A x : LET q == [query EXCEPT !.pc = "frame", !.mark = x] IN
                   q.pc = "frame" /\ q.idx = query.idx /\ q.prog = query.prog
        BY <1>2 DEF Query
      <4> QED BY <2>2, <4>1, <1>29 DEF TryToDcas
    <3> QED BY <2>1, <2>2, <3>1, <1>1, OrderFrame
  <2>3. CASE ~(send_pmt_en0 /\ query.idx + 1 < ci_max_cnt)
    <3>1. ToTop
      BY <2>3, <1>29 DEF TryToDcas
    <3>2. ASSUME Clean' PROVE ~(query.idx + 1 < ci_max_cnt)
      <4>1. send_pmt_en0
        BY <2>1, <3>2 DEF OrderInv, EnabledInv, Clean
      <4> QED BY <2>3, <4>1
    <3> QED BY <2>1, <3>1, <3>2, OrderPassed
  <2> QED BY <2>2, <2>3
<1>30. CASE DropBeforeFrame
  <2>1. /\ UNCHANGED <<cur_section, flags, state, calls, want, sent>> /\ query.pc = "frame"
        /\ hist \subseteq hist'
    BY <1>30 DEF DropBeforeFrame, At, Unanswered
  <2>2. query'.pc = "write" /\ query'.idx = query.idx /\ query'.prog = query.prog
    BY <1>3, <1>30 DEF DropBeforeFrame, QueryPcs
  <2> QED BY <2>1, <2>2, <1>1, OrderFrame
<1>31. CASE WriteFrame
  <2>1. /\ UNCHANGED <<cur_section, flags, card_status, sys_ids, ci_max_cnt, calls, want>> /\ ToTop
        /\ query.pc = "write" /\ query.idx # -1 /\ hist \subseteq hist'
    BY <1>1, <1>31 DEF WriteFrame, At, HandFits
  <2>2. ASSUME Clean'
        PROVE  /\ query.idx + 1 < ci_max_cnt
               /\ \E c : sent' = Append(sent, c) /\ c.prog = query.prog
    <3>1. query.idx + 1 < ci_max_cnt
      <4>1. Clean
        BY <2>1, <2>2 DEF Clean
      <4> QED BY <4>1, <2>1, <1>8 DEF OrderInv, ListInv, Listed
    <3>2. sent' = Append(sent, Generate_CA_PMT(query.prog, query.mark))
      BY <2>2, <1>31 DEF WriteFrame, Clean
    <3>3. Generate_CA_PMT(query.prog, query.mark).prog = query.prog
      BY DEF Generate_CA_PMT
    <3> QED BY <3>1, <3>2, <3>3
  <2> QED BY <2>1, <2>2, OrderPassed
<1> QED BY <1>20, <1>21, <1>22, <1>23, <1>24, <1>25, <1>26, <1>27, <1>28, <1>29, <1>30, <1>31
        DEF QueryStep

LEMMA OrderStep ==
  ASSUME TypeInv, OrderInv, [Next]_vars
  PROVE  OrderInv'
<1>1. CASE InfoUpdate
  <2>1. "moved" \in hist'
    BY <1>1 DEF InfoUpdate
  <2> QED BY <2>1 DEF OrderInv, EnabledInv, LoadInv, ListInv, Clean
<1>2. CASE UNCHANGED vars
  <2>1. UNCHANGED <<cur_section, send_pmt_en0, query, loader, ci_max_cnt, want, sent, hist>>
    BY <1>2 DEF vars, flags, state, calls, record
  <2>2. /\ EnabledInv' <=> EnabledInv
        /\ LoadInv' <=> LoadInv
        /\ ListInv' <=> ListInv
    BY <2>1 DEF EnabledInv, LoadInv, ListInv, Clean, InGetPmt, Copied, Loading, LoadUnderWay, Listed, Taken
  <2> QED BY <2>2 DEF OrderInv
<1> QED BY <1>1, <1>2, BootOrder, QueryOrder, LoadOrder DEF Next

\* What the clean history says of the list is what SentInOrder asks for.
LEMMA OrderSafe == TypeInv /\ OrderInv => SentInOrder
<1> SUFFICES ASSUME TypeInv, OrderInv, Clean PROVE IsPrefix(SentProgs, Limited)
  BY DEF SentInOrder, Clean
<1> DEFINE n == Min({Len(want), ci_max_cnt - 1})
<1>1. want \in Seq(Progs) /\ sent \in Seq(CaPmt) /\ ci_max_cnt \in Nat \ {0} /\ query \in Query
      /\ cur_section \in Section
  BY DEF TypeInv, Types
<1>2. n = IF Len(want) <= ci_max_cnt - 1 THEN Len(want) ELSE ci_max_cnt - 1
  BY <1>1 DEF Min
<1>3. /\ Len(sent) \in 0..n
      /\ \A i \in 1..Len(sent) : sent[i].prog = want[i]
  <2>1. CASE LoadUnderWay
    <3>1. PICK t \in Loader : Loading(t)
      BY <2>1 DEF LoadUnderWay, Loading
    <3>2. sent = <<>>
      BY <3>1 DEF OrderInv, LoadInv, Copied
    <3> QED BY <3>2, <1>1, <1>2
  <2>2. CASE ~LoadUnderWay
    <3>1. Listed
      BY <2>2 DEF OrderInv, ListInv
    <3>2. Taken \in Nat /\ Taken <= Len(want)
      BY <3>1, <1>1 DEF Listed, Taken, Query, Section
    <3>3. /\ Len(sent) = IF Taken < ci_max_cnt - 1 THEN Taken ELSE ci_max_cnt - 1
          /\ \A i \in 1..Len(sent) : sent[i].prog = want[i]
      BY <3>1 DEF Listed
    <3> QED BY <3>2, <3>3, <1>1, <1>2
  <2> QED BY <2>1, <2>2
<1> HIDE DEF n
<1>4. n \in 0..Len(want)
  BY <1>1, <1>2
<1> DEFINE p == SentProgs
           l == SubSeq(want, 1, n)
<1>5. /\ p \in Seq(Progs) /\ Len(p) = Len(sent) /\ \A i \in 1..Len(sent) : p[i] = sent[i].prog
  <2>1. DOMAIN sent = 1..Len(sent) /\ Len(sent) \in Nat /\ \A i \in 1..Len(sent) : sent[i].prog \in Progs
    <3>1. DOMAIN sent = 1..Len(sent) /\ Len(sent) \in Nat /\ \A i \in 1..Len(sent) : sent[i] \in CaPmt
      BY <1>1
    <3> QED BY <3>1 DEF CaPmt
  <2>2. p = [i \in 1..Len(sent) |-> sent[i].prog]
    BY <2>1 DEF SentProgs
  <2> QED BY <2>1, <2>2
<1>6. l \in Seq(Progs) /\ Len(l) = n /\ \A i \in 1..n : l[i] = want[i]
  BY <1>1, <1>4
<1> HIDE DEF p, l
<1>7. Len(p) <= Len(l) /\ SubSeq(p, 1, Len(p)) = SubSeq(l, 1, Len(p))
  BY <1>3, <1>4, <1>5, <1>6
<1> QED BY <1>7 DEF IsPrefix, Limited, p, l, n

-----------------------------------------------------------------------------
(* The theorems. *)

LEMMA DescriptorsStep ==
  ASSUME TypeInv, DescriptorsKept, [Next]_vars
  PROVE  DescriptorsKept'
<1> USE DEF flags, state, calls, wire, record
<1>1. OwnOfPmt' = OwnOfPmt /\ sent \in Seq(CaPmt)
  BY DEF OwnOfPmt, OwnOfStreams, Own, TypeInv, Types
<1> DEFINE Whole(c) == [desc |-> c.desc, es |-> OwnOfStreams(c.es)] = OwnOfPmt[c.prog]
<1>2. \A i \in DOMAIN sent : Whole(sent[i])
  BY DEF DescriptorsKept
<1>3. CASE sent' = sent \/ sent' = <<>>
  <2> HIDE DEF Whole
  <2>1. \A i \in DOMAIN sent' : Whole(sent'[i])
    BY <1>2, <1>3
  <2> QED BY <2>1, <1>1 DEF DescriptorsKept, Whole, OwnOfStreams, Own, OwnOfPmt
<1>4. CASE WriteFrame /\ sent' # sent
  <2> DEFINE c == Generate_CA_PMT(query.prog, query.mark)
  <2>1. sent' = Append(sent, c) /\ query.prog \in Progs /\ sys_ids = CardIds /\ c.prog = query.prog
    BY <1>4 DEF WriteFrame, At, TypeInv, SystemsKnown, Types, Query, Generate_CA_PMT
  <2>2. Whole(c)
    BY <2>1, OwnKept
  <2> HIDE DEF Whole, c
  <2>3. \A i \in DOMAIN sent' : Whole(sent'[i])
    BY <2>1, <2>2, <1>1, <1>2
  <2> QED BY <2>3 DEF DescriptorsKept, Whole, OwnOfStreams, Own, OwnOfPmt
<1>5. sent' = sent \/ sent' = <<>> \/ WriteFrame
  <2>1. CASE BootStep \/ InfoUpdate \/ UNCHANGED vars
    BY <2>1 DEF BootStep, BootApply, BootDetect, BootSize, BootLink, InfoUpdate, vars
  <2>2. CASE \E t \in Loader : LoadCall(t) \/ LoadStep(t)
    BY <2>2 DEF LoadCall, LoadStep, LoadStop, LoadClear, LoadSet, LoadCopy, LoadStart
  <2>3. CASE QueryStep
    BY <2>3 DEF QueryStep, Start, Top, GetPmt, GetPmtIndex, GotPmt, FirstPoll, Read, HandleWrite,
                HandleRead, HandleReady, HandleEnable, Send, TryToDcas, DropBeforeFrame
  <2> QED BY <2>1, <2>2, <2>3 DEF Next
<1> QED BY <1>3, <1>4, <1>5

\* The three facts about the inductive invariant.
LEMMA InitIInv == Init => IInv
<1> SUFFICES ASSUME Init PROVE IInv
  OBVIOUS
<1>1. DescriptorsKept
  BY DEF Init, DescriptorsKept
<1> QED BY <1>1, TypesInit, PollInit, OrderInit DEF IInv

LEMMA NextIInv == IInv /\ [Next]_vars => IInv'
BY TypeStep, PollStep, OrderStep, DescriptorsStep DEF IInv

LEMMA IInvSafe == IInv => CardIsServed
<1> SUFFICES ASSUME IInv PROVE CardIsServed
  OBVIOUS
<1>1. TypeOK
  BY TypesOK DEF IInv, TypeInv
<1>2. PollAlive
  BY DEF IInv, PollInv, PollAlive, At
<1> QED BY <1>1, <1>2, OrderSafe DEF IInv, CardIsServed

\* Whatever the card says, however slow it is and whenever the list is loaded: the
\* polling keeps itself alive, the programs of the last load reach the card in their
\* order, none twice and none of another list, and with all the descriptors of the
\* card's own systems (loop_query_ci, loadPMT, Generate_CA_PMT).
THEOREM CardServed == Spec => []CardIsServed
<1>1. Spec => []IInv
  BY InitIInv, NextIInv, PTL DEF Spec
<1> QED BY <1>1, IInvSafe, PTL
=============================================================================
