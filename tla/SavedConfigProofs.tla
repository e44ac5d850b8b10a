-------------------------- MODULE SavedConfigProofs --------------------------
(* Proofs about the saved configuration (SavedConfig), for every product,     *)
(* every size of the output PSI's area, every number of retries and any       *)
(* number of operations, failing pages and power cuts: no area is overwritten *)
(* by the write of another, and what the device works with is what a restart  *)
(* would load.                                                                *)
EXTENDS SavedConfig, WellFoundedInduction, TLAPS
-----------------------------------------------------------------------------
(* The inductive invariant *)

Saves == {"save", "save_copy", "save_valid"}
Stores == {"clear", "assign", "assign_copy"}
Copies == {"save_copy", "apply"}
Kinds == Stores \cup Saves \cup {"apply", "request", "check"}
FlagAreas == {Area(f) : f \in Flags}

\* The values area a may be given: only the output PSI takes more than one page,
\* and only the pid map and a whole output PSI end with a full page.
Good(a) == {x \in Value : /\ a # Psi => x.n = 1
                          /\ x.full => a = Map \/ (a = Psi /\ x.n = PsiPages)}

\* The steps thread t of product n may have to do. The output PSI is saved by the
\* main loop alone.
Steps(n, t) == {s \in [do : Kinds, area : AreasOf[n] \cup FlagAreas] :
  /\ s.do \in Stores \cup Saves \cup {"apply"} => s.area \in AreasOf[n]
  /\ s.do \in {"request", "check"} => s.area \in FlagAreas
  /\ s.do \in Saves /\ s.area = Psi => t = "main" /\ s.do = "save"
  /\ s.do \in {"save_copy", "assign_copy"} => s.area # Psi
  /\ s.do = "apply" => s.area = Map
  /\ t = "main" => s.do \notin Copies \cup Stores
  /\ s.do = "check" => t = "main"
  /\ s.do \in {"request", "check"} /\ s.area = Pmt => n = 1
  /\ s.do \in Stores /\ s.area = Map => s.do = "assign_copy"}

\* Step s will write area a, or ask the main loop to.
Covers(s, a) == \/ s.do \in Saves /\ s.area = a
                \/ s.do = "request" /\ a[1] \in Flags /\ s.area = Area(a[1])

\* In the steps s every store is followed by what saves it, but for the
\* multiplex's program list, and a store of the pid map by its application.
Covered(s) ==
  \A i \in 1..Len(s) : s[i].do \in Stores =>
     /\ s[i].area # Mux => \E j \in i + 1..Len(s) : Covers(s[j], s[i].area)
     /\ s[i].area = Map => \E j \in i + 1..Len(s) : s[j].do = "apply"
\* No other store comes between a local copy and its use.
CopyClean(s) ==
  \A i \in 1..Len(s) : s[i].do \in Copies =>
    \A j \in 1..i - 1 :
      /\ s[j].do = "assign_copy" => s[j].area = s[i].area
      /\ s[j].do \in {"clear", "assign"} => s[j].area # s[i].area
WellFormed(n, t, s) == s \in Seq(Steps(n, t)) /\ Covered(s) /\ CopyClean(s)

\* Types, and what a page and a value may be.
Typed ==
  /\ chans \in Products
  /\ dev \in [DOMAIN Layout[chans] -> Page]
  /\ ram \in [Areas -> Value] /\ \A a \in Areas : ram[a] \in Good(a)
  /\ busy \in BOOLEAN /\ flag \in [Flags -> BOOLEAN] /\ fpga \in Value
  /\ buf \in [Thread -> Value] /\ up \in {"off", "booting", "up"}
  /\ stamp \in [Areas -> Nat] /\ ops \in 0..MaxOps /\ faults \in 0..MaxFaults
  /\ race \in BOOLEAN /\ crossed \subseteq Areas /\ damaged \subseteq Areas
PagesOwn == \A p \in DOMAIN Layout[chans] : Layout[chans][p] # Pad =>
              dev[p].area = Layout[chans][p] /\ dev[p].val \in Good(Layout[chans][p])

ScriptsOK == /\ DOMAIN script = Thread
             /\ \A t \in Thread : WellFormed(chans, t, script[t])

\* A call of eeprom_write: it is for the head of the thread's steps, its length
\* is one its area may have, and its area counts as damaged from the first page on.
Write == [at : {"none", "poll", "set", "write", "read_back"}, area : Areas, n : 0..PsiPages,
          full : BOOLEAN, k : 1..PsiPages + 1, try : 0..TRY_MAX, val : Value]
Calling(t) == wr[t].at # "none"
CallOK(t) ==
  Calling(t) =>
    LET w == wr[t] IN
    /\ script[t] # <<>> /\ Head(script[t]).do \in Saves /\ Head(script[t]).area = w.area
    /\ w.n >= 1 /\ (w.area # Psi => w.n = 1)
    /\ w.full => w.area = Map \/ (w.area = Psi /\ w.n = PsiPages)
    /\ w.at = "write" => w.k <= Pages(w)
    /\ w.at # "write" => w.k = 1
    /\ w.k > 1 => w.val \in Good(w.area)
    /\ w.at = "read_back" => w.area \in damaged
CallsOK == wr \in [Thread -> Write] /\ \A t \in Thread : CallOK(t)
OneInside == ~race => \A t, u \in Thread : Inside(t) /\ Inside(u) => t = u

\* The steps s use a local copy of area a that was made before.
Ready(s, a) == \E i \in 1..Len(s) : /\ s[i].do \in Copies /\ s[i].area = a
                                    /\ \A j \in 1..i - 1 : s[j].do # "assign_copy"
\* A local copy not yet used is what memory holds, unless another thread stored
\* into the area since.
CopiesOK == \A t \in Thread : \A a \in Areas : Ready(script[t], a) =>
              buf[t] \in Good(a) /\ (a \notin crossed => buf[t] = ram[a])

CoversAny(s, a) == \E i \in 1..Len(s) : Covers(s[i], a)
CoversLater(s, a) == \E i \in 2..Len(s) : Covers(s[i], a)
HasApply(s) == \E i \in 1..Len(s) : s[i].do = "apply"

\* Area a will be saved by a call not yet made.
Waits(a, t) == IF Calling(t) THEN CoversLater(script[t], a) ELSE CoversAny(script[t], a)
Pending(a) == (a[1] \in Flags /\ flag[a[1]]) \/ \E t \in Thread : Waits(a, t)
InProgress(a) == \E t \in Thread : Calling(t) /\ wr[t].area = a /\ wr[t].n = ram[a].n
Consistent(a) == Intact(a) /\ Loaded(a) = ram[a]

\* The length of the main loop's write of the output PSI is still the right one,
\* or another save follows.
LengthOK == Calling("main") /\ wr["main"].area = Psi =>
              wr["main"].n = ram[Psi].n \/ Pending(Psi)
\* Every area memory and EEPROM disagree on is about to be saved.
Follows == up # "off" =>
  \A a \in Areas \ (damaged \cup crossed \cup {Mux}) :
    ram[a].ok => Pending(a) \/ InProgress(a) \/ Consistent(a)
\* The FPGA lags behind only while a pid map is about to be applied.
MapApplied == up = "up" /\ Map \notin crossed =>
  fpga = ram[Map] \/ \E t \in Thread : HasApply(script[t])
\* Without power nobody has steps to do.
Quiet == up = "off" => \A t \in Thread : script[t] = <<>>

IInv == /\ Typed /\ PagesOwn /\ ScriptsOK /\ CallsOK /\ OneInside
        /\ CopiesOK /\ LengthOK /\ Follows /\ MapApplied /\ Quiet
-----------------------------------------------------------------------------
(* The layout of the EEPROM *)

Named == {Sys, Net, User, Misc, Mux, Map, Psi, Pmt, Tunner, Pad} \cup {Trans(c) : c \in Nat}

\* The pages of product n, one by one (struct xmux_eeprom_param).
PageAreas(n, L) ==
  /\ L \in Seq(Named) /\ Len(L) = 9 + PsiPages + 2 * n + (IF n = 1 THEN 4 ELSE 0)
  /\ L[1] = Sys /\ L[2] = Net /\ L[3] = User /\ L[4] = Misc /\ L[5] = Mux /\ L[6] = Pad
  /\ L[7] = Map /\ L[8] = Pad
  /\ \A i \in 1..PsiPages : L[8 + i] = Psi
  /\ L[9 + PsiPages] = Pad
  /\ \A i \in 1..2 * n : L[9 + PsiPages + i] = ChannelAreas(n)[i]
  /\ n = 1 => /\ L[12 + PsiPages] = Pmt /\ L[13 + PsiPages] = Pad
              /\ L[14 + PsiPages] = Tunner /\ L[15 + PsiPages] = Pad

\* The concatenation of the parts has the pages where the structure puts them.
LEMMA LayoutPages ==
  ASSUME NEW n \in Products
  PROVE  PageAreas(n, Layout[n])
<1> DEFINE A == <<Sys, Net, User, Misc, Mux, Pad, Map, Pad>>
           B == [i \in 1..PsiPages |-> Psi]
           C == <<Pad>>
           D == ChannelAreas(n)
           F == IF n = 1 THEN OneChannelAreas ELSE <<>>
<1>0. n \in Nat \ {0} /\ PsiPages \in Nat \ {0}
  BY ConfigAssumption
<1>1. A \in Seq(Named) /\ Len(A) = 8
  BY DEF Named
<1>2. B \in Seq(Named) /\ Len(B) = PsiPages /\ \A i \in 1..PsiPages : B[i] = Psi
  BY <1>0 DEF Named
<1>3. C \in Seq(Named) /\ Len(C) = 1 /\ C[1] = Pad
  BY DEF Named
<1>4. D \in Seq(Named) /\ Len(D) = 2 * n
  <2>1. \A i \in 1..2 * n : (IF i % 2 = 1 THEN Trans((i + 1) \div 2) ELSE Pad) \in Named
    BY <1>0 DEF Named
  <2> QED BY <1>0, <2>1 DEF ChannelAreas
<1>5. /\ F \in Seq(Named) /\ Len(F) = IF n = 1 THEN 4 ELSE 0
      /\ n = 1 => F[1] = Pmt /\ F[2] = Pad /\ F[3] = Tunner /\ F[4] = Pad
  <2>1. CASE n = 1
    BY <2>1 DEF OneChannelAreas, Named
  <2>2. CASE n # 1
    BY <2>2
  <2> QED BY <2>1, <2>2
<1>6. Layout[n] = (((A \o B) \o C) \o D) \o F
  BY DEF Layout
<1>7. /\ A[1] = Sys /\ A[2] = Net /\ A[3] = User /\ A[4] = Misc /\ A[5] = Mux /\ A[6] = Pad
      /\ A[7] = Map /\ A[8] = Pad
  OBVIOUS
<1> HIDE DEF A, B, C, D, F
<1>a. /\ A \o B \in Seq(Named) /\ Len(A \o B) = Len(A) + Len(B)
      /\ \A i \in 1..Len(A) : (A \o B)[i] = A[i]
      /\ \A i \in 1..Len(B) : (A \o B)[Len(A) + i] = B[i]
  <2>1. A \in Seq(Named) /\ B \in Seq(Named)
    BY <1>1, <1>2
  <2>2. \A i \in 1..Len(A) : (A \o B)[i] = A[i]
    BY <2>1
  <2>3. \A i \in 1..Len(B) : (A \o B)[Len(A) + i] = B[i]
    BY <2>1
  <2>4. A \o B \in Seq(Named) /\ Len(A \o B) = Len(A) + Len(B)
    BY <2>1
  <2> QED BY <2>2, <2>3, <2>4
<1> DEFINE X == A \o B
           Y == X \o C
           Z == Y \o D
<1>x. /\ X \in Seq(Named) /\ Len(X) = 8 + PsiPages
      /\ \A i \in 1..8 : X[i] = A[i]
      /\ \A i \in 1..PsiPages : X[8 + i] = Psi
  BY <1>0, <1>a, <1>1, <1>2
<1> HIDE DEF X
<1>b. /\ X \o C \in Seq(Named) /\ Len(X \o C) = Len(X) + Len(C)
      /\ \A i \in 1..Len(X) : (X \o C)[i] = X[i]
      /\ \A i \in 1..Len(C) : (X \o C)[Len(X) + i] = C[i]
  <2>1. X \in Seq(Named) /\ C \in Seq(Named)
    BY <1>x, <1>3
  <2>2. \A i \in 1..Len(X) : (X \o C)[i] = X[i]
    BY <2>1
  <2>3. \A i \in 1..Len(C) : (X \o C)[Len(X) + i] = C[i]
    BY <2>1
  <2>4. X \o C \in Seq(Named) /\ Len(X \o C) = Len(X) + Len(C)
    BY <2>1
  <2> QED BY <2>2, <2>3, <2>4
<1>c. /\ Y \in Seq(Named) /\ Len(Y) = 9 + PsiPages
      /\ \A i \in 1..8 + PsiPages : Y[i] = X[i]
      /\ Y[8 + PsiPages + 1] = Pad
  BY <1>0, <1>b, <1>x, <1>3
<1> HIDE DEF Y
<1>d. /\ Y \o D \in Seq(Named) /\ Len(Y \o D) = Len(Y) + Len(D)
      /\ \A i \in 1..Len(Y) : (Y \o D)[i] = Y[i]
      /\ \A i \in 1..Len(D) : (Y \o D)[Len(Y) + i] = D[i]
  <2>1. Y \in Seq(Named) /\ D \in Seq(Named)
    BY <1>c, <1>4
  <2>2. \A i \in 1..Len(Y) : (Y \o D)[i] = Y[i]
    BY <2>1
  <2>3. \A i \in 1..Len(D) : (Y \o D)[Len(Y) + i] = D[i]
    BY <2>1
  <2>4. Y \o D \in Seq(Named) /\ Len(Y \o D) = Len(Y) + Len(D)
    BY <2>1
  <2> QED BY <2>2, <2>3, <2>4
<1>z. /\ Z \in Seq(Named) /\ Len(Z) = 9 + PsiPages + 2 * n
      /\ \A i \in 1..9 + PsiPages : Z[i] = Y[i]
      /\ \A i \in 1..2 * n : Z[9 + PsiPages + i] = D[i]
  BY <1>0, <1>c, <1>4, <1>d
<1> HIDE DEF Z
<1>e. /\ Z \o F \in Seq(Named) /\ Len(Z \o F) = Len(Z) + Len(F)
      /\ \A i \in 1..Len(Z) : (Z \o F)[i] = Z[i]
      /\ \A i \in 1..Len(F) : (Z \o F)[Len(Z) + i] = F[i]
  <2>1. Z \in Seq(Named) /\ F \in Seq(Named)
    BY <1>z, <1>5
  <2>2. \A i \in 1..Len(Z) : (Z \o F)[i] = Z[i]
    BY <2>1
  <2>3. \A i \in 1..Len(F) : (Z \o F)[Len(Z) + i] = F[i]
    BY <2>1
  <2>4. Z \o F \in Seq(Named) /\ Len(Z \o F) = Len(Z) + Len(F)
    BY <2>1
  <2> QED BY <2>2, <2>3, <2>4
<1> DEFINE L == Z \o F
<1>f. Layout[n] = L
  BY <1>6 DEF X, Y, Z, L
<1>h. /\ L \in Seq(Named) /\ Len(L) = 9 + PsiPages + 2 * n + (IF n = 1 THEN 4 ELSE 0)
      /\ \A i \in 1..9 + PsiPages + 2 * n : L[i] = Z[i]
  BY <1>0, <1>e, <1>z, <1>5 DEF L
<1>g. n = 1 => /\ L[12 + PsiPages] = Pmt /\ L[13 + PsiPages] = Pad
               /\ L[14 + PsiPages] = Tunner /\ L[15 + PsiPages] = Pad
  <2> HAVE n = 1
  <2>1. Len(Z) = 11 + PsiPages /\ Len(F) = 4
    BY <1>z, <1>5, <1>0
  <2>2. \A i \in 1..4 : L[11 + PsiPages + i] = F[i]
    BY <1>e, <2>1 DEF L
  <2>3. /\ 11 + PsiPages + 1 = 12 + PsiPages /\ 11 + PsiPages + 2 = 13 + PsiPages
        /\ 11 + PsiPages + 3 = 14 + PsiPages /\ 11 + PsiPages + 4 = 15 + PsiPages
    BY <1>0
  <2> HIDE DEF L
  <2>5. /\ L[11 + PsiPages + 1] = F[1] /\ L[11 + PsiPages + 2] = F[2]
        /\ L[11 + PsiPages + 3] = F[3] /\ L[11 + PsiPages + 4] = F[4]
    BY <2>2
  <2>4. /\ L[12 + PsiPages] = F[1] /\ L[13 + PsiPages] = F[2]
        /\ L[14 + PsiPages] = F[3] /\ L[15 + PsiPages] = F[4]
    BY <2>5, <2>3
  <2> QED BY <2>4, <1>5
<1> HIDE DEF L
<1>i. \A i \in 1..8 : L[i] = A[i]
  BY <1>0, <1>h, <1>z, <1>c, <1>x, SMTT(60)
<1>j. \A i \in 1..PsiPages : L[8 + i] = Psi
  <2> TAKE i \in 1..PsiPages
  <2>1. 8 + i \in 1..8 + PsiPages /\ 8 + i \in 1..9 + PsiPages /\ 8 + i \in 1..9 + PsiPages + 2 * n
    BY <1>0
  <2> QED BY <2>1, <1>h, <1>z, <1>c, <1>x
<1>k. L[9 + PsiPages] = Pad
  <2>1. 9 + PsiPages \in 1..9 + PsiPages /\ 9 + PsiPages \in 1..9 + PsiPages + 2 * n
        /\ 8 + PsiPages + 1 = 9 + PsiPages
    BY <1>0
  <2> QED BY <2>1, <1>h, <1>z, <1>c
<1>l. \A i \in 1..2 * n : L[9 + PsiPages + i] = D[i]
  <2> TAKE i \in 1..2 * n
  <2>1. 9 + PsiPages + i \in 1..9 + PsiPages + 2 * n
    BY <1>0
  <2> QED BY <2>1, <1>h, <1>z
<1>m. PageAreas(n, L)
  BY <1>h, <1>i, <1>7, <1>j, <1>k, <1>l, <1>g DEF PageAreas, D
<1> QED BY <1>f, <1>m

\* The areas have different names.
LEMMA Distinct ==
  /\ Sys # Net /\ Sys # User /\ Sys # Misc /\ Sys # Mux /\ Sys # Map /\ Sys # Psi
  /\ Sys # Pad /\ Net # Map /\ Net # Psi /\ Net # Pad /\ User # Map /\ User # Psi /\ User # Pad
  /\ Misc # Map /\ Misc # Psi /\ Misc # Pad /\ Mux # Map /\ Mux # Psi /\ Mux # Pad
  /\ Map # Psi /\ Map # Pad /\ Psi # Pad /\ Pmt # Pad /\ Pmt # Psi /\ Pmt # Map
  /\ Tunner # Pad /\ Tunner # Psi /\ Tunner # Map /\ Pmt # Mux /\ Tunner # Mux /\ Net # Mux
  /\ \A c : Trans(c) # Psi /\ Trans(c) # Map /\ Trans(c) # Pad /\ Trans(c) # Mux
  BY DEF Sys, Net, User, Misc, Mux, Map, Psi, Pmt, Tunner, Pad, Area, Trans

\* The areas of product n.
AreaList(n) == {Sys, Net, User, Misc, Mux, Map, Psi} \cup {Trans(c) : c \in 1..n}
               \cup (IF n = 1 THEN {Pmt, Tunner} ELSE {})

\* The areas of struct xmux_eeprom_param, read off its pages.
LEMMA AreasListed ==
  ASSUME NEW n \in Products
  PROVE  AreasOf[n] = AreaList(n)
<1> DEFINE L == Layout[n]
<1>0. n \in Nat \ {0} /\ PsiPages \in Nat \ {0}
  BY ConfigAssumption
<1>1. PageAreas(n, L)
  BY LayoutPages
<1>2. AreasOf[n] = {L[p] : p \in DOMAIN L} \ {Pad}
  BY DEF AreasOf, Range
<1> HIDE DEF L
<1>3. DOMAIN L = 1..Len(L)
  BY <1>1 DEF PageAreas
<1>4. ASSUME NEW p \in DOMAIN L, L[p] # Pad PROVE L[p] \in AreaList(n)
  <2>1. CASE p \in 1..8
    BY <2>1, <1>1, <1>4 DEF PageAreas, AreaList
  <2>2. CASE p \in 9..8 + PsiPages
    <3>1. p - 8 \in 1..PsiPages /\ 8 + (p - 8) = p
      BY <2>2, <1>0
    <3> QED BY <3>1, <1>1 DEF PageAreas, AreaList
  <2>3. CASE p = 9 + PsiPages
    BY <2>3, <1>1, <1>4 DEF PageAreas
  <2>4. CASE p \in 10 + PsiPages..9 + PsiPages + 2 * n
    <3> DEFINE i == p - 9 - PsiPages
    <3>1. i \in 1..2 * n /\ 9 + PsiPages + i = p
      BY <2>4, <1>0
    <3>2. L[p] = ChannelAreas(n)[i]
      BY <3>1, <1>1 DEF PageAreas
    <3> HIDE DEF i
    <3>3. L[p] = IF i % 2 = 1 THEN Trans((i + 1) \div 2) ELSE Pad
      BY <3>1, <3>2 DEF ChannelAreas
    <3>4. L[p] = Trans((i + 1) \div 2) /\ i % 2 = 1
      BY <3>3, <1>4
    <3>5. (i + 1) \div 2 \in 1..n
      BY <3>1, <3>4, <1>0
    <3> QED BY <3>4, <3>5 DEF AreaList
  <2>5. CASE p > 9 + PsiPages + 2 * n
    <3>1. n = 1 /\ p \in 12 + PsiPages..15 + PsiPages
      BY <2>5, <1>0, <1>3, <1>1, SMTT(60) DEF PageAreas
    <3>2. \/ p = 12 + PsiPages \/ p = 13 + PsiPages
          \/ p = 14 + PsiPages \/ p = 15 + PsiPages
      BY <3>1, <1>0
    <3> QED BY <3>1, <3>2, <1>1, <1>4 DEF PageAreas, AreaList
  <2> QED BY <2>1, <2>2, <2>3, <2>4, <2>5, <1>3, <1>0
<1>5. ASSUME NEW a \in AreaList(n) PROVE \E p \in DOMAIN L : L[p] = a /\ a # Pad
  <2>0. 1..9 + PsiPages + 2 * n \subseteq DOMAIN L
    BY <1>0, <1>1, <1>3 DEF PageAreas
  <2>1. CASE a \in {Sys, Net, User, Misc, Mux, Map}
    <3>1. 1..8 \subseteq DOMAIN L
      BY <2>0, <1>0
    <3> QED BY <2>1, <3>1, <1>1, Distinct DEF PageAreas
  <2>2. CASE a = Psi
    <3>1. 1 \in 1..PsiPages /\ 9 \in DOMAIN L
      BY <2>0, <1>0
    <3>2. L[8 + 1] = Psi
      BY <3>1, <1>1 DEF PageAreas
    <3> QED BY <2>2, <3>1, <3>2, Distinct
  <2>3. CASE a \in {Trans(c) : c \in 1..n}
    <3>1. PICK c \in 1..n : a = Trans(c)
      BY <2>3
    <3> DEFINE i == 2 * c - 1
    <3>2. i \in 1..2 * n /\ i % 2 = 1 /\ (i + 1) \div 2 = c
      BY <1>0
    <3>3. ChannelAreas(n)[i] = a
      BY <3>1, <3>2 DEF ChannelAreas
    <3>4. L[9 + PsiPages + i] = a
      BY <3>2, <3>3, <1>1 DEF PageAreas
    <3>5. 9 + PsiPages + i \in DOMAIN L
      BY <3>2, <2>0, <1>0
    <3> QED BY <3>1, <3>4, <3>5, Distinct
  <2>4. CASE n = 1 /\ a \in {Pmt, Tunner}
    <3>1. 12 + PsiPages \in DOMAIN L /\ 14 + PsiPages \in DOMAIN L
      BY <2>4, <1>0, <1>1, <1>3 DEF PageAreas
    <3> QED BY <2>4, <3>1, <1>1, Distinct DEF PageAreas
  <2> QED BY <2>1, <2>2, <2>3, <2>4 DEF AreaList
<1> QED BY <1>2, <1>4, <1>5

\* A set of naturals that is not empty has a least element.
LEMMA Least ==
  ASSUME NEW T, T \subseteq Nat, T # {}
  PROVE  \E x \in T : \A y \in T : ~(y < x)
<1> DEFINE R == OpToRel(<, Nat)
<1>1. IsWellFoundedOn(R, Nat)
  BY NatLessThanWellFounded
<1> HIDE DEF R
<1>2. PICK x \in T : \A y \in T : ~(<<y, x>> \in R)
  BY <1>1, WFMin
<1>3. \A y \in T : y < x => <<y, x>> \in R
  BY DEF R, OpToRel
<1> QED BY <1>2, <1>3

\* Where an area begins, every area has a page of its own, the output PSI has
\* all of its pages, and behind it and behind the pid map there is a tail.
LEMMA OffsetsFit ==
  ASSUME NEW n \in Products
  PROVE  /\ DOMAIN Layout[n] \subseteq Nat
         /\ \A a \in AreasOf[n] : /\ Offsets[n][a] \in DOMAIN Layout[n]
                                   /\ Layout[n][Offsets[n][a]] = a
         /\ Offsets[n][Map] + 1 \in DOMAIN Layout[n] /\ Layout[n][Offsets[n][Map] + 1] = Pad
         /\ \A i \in 1..PsiPages : /\ Offsets[n][Psi] + i - 1 \in DOMAIN Layout[n]
                                   /\ Layout[n][Offsets[n][Psi] + i - 1] = Psi
         /\ Offsets[n][Psi] + PsiPages \in DOMAIN Layout[n]
         /\ Layout[n][Offsets[n][Psi] + PsiPages] = Pad
<1> DEFINE L == Layout[n]
           First(a, p) == L[p] = a /\ \A q \in 1..(p - 1) : L[q] # a
<1>0. n \in Nat \ {0} /\ PsiPages \in Nat \ {0}
  BY ConfigAssumption
<1>1. PageAreas(n, L)
  BY LayoutPages
<1>2. AreasOf[n] = {L[p] : p \in DOMAIN L} \ {Pad}
  BY DEF AreasOf, Range
<1>3. \A a \in AreasOf[n] : Offsets[n][a] = CHOOSE p \in DOMAIN L : First(a, p)
  BY DEF Offsets
<1> HIDE DEF L
<1>4. DOMAIN L = 1..Len(L) /\ Len(L) = 9 + PsiPages + 2 * n + (IF n = 1 THEN 4 ELSE 0)
  BY <1>1 DEF PageAreas
<1>5. \A a \in AreasOf[n] : \E p \in DOMAIN L : First(a, p)
  <2> TAKE a \in AreasOf[n]
  <2> DEFINE T == {p \in DOMAIN L : L[p] = a}
  <2>1. T # {}
    BY <1>2
  <2>2. T \subseteq Nat
    BY <1>4
  <2>3. PICK x \in T : \A y \in T : ~(y < x)
    BY <2>1, <2>2, Least
  <2>4. \A q \in 1..(x - 1) : q \in DOMAIN L /\ q < x
    BY <1>4, <1>0, <2>2
  <2> QED BY <2>3, <2>4
<1>6. \A a \in AreasOf[n] : Offsets[n][a] \in DOMAIN L /\ First(a, Offsets[n][a])
  BY <1>3, <1>5
<1>7. Map \in AreasOf[n] /\ Psi \in AreasOf[n]
  BY AreasListed DEF AreaList
<1>8. Offsets[n][Map] = 7
  <2>1. L[7] = Map /\ \A q \in 1..6 : L[q] # Map
    BY <1>1, Distinct DEF PageAreas
  <2>2. First(Map, Offsets[n][Map]) /\ Offsets[n][Map] \in 1..Len(L)
    BY <1>6, <1>7, <1>4
  <2>3. ~(Offsets[n][Map] < 7)
    BY <2>1, <2>2, SMTT(60)
  <2>4. ~(Offsets[n][Map] > 7)
    BY <2>1, <2>2
  <2> QED BY <2>2, <2>3, <2>4
<1>9. Offsets[n][Psi] = 9
  <2>1. L[9] = Psi
    <3>1. 1 \in 1..PsiPages /\ 8 + 1 = 9
      BY <1>0
    <3> QED BY <3>1, <1>1 DEF PageAreas
  <2>0. \A q \in 1..8 : L[q] # Psi
    BY <1>1, Distinct DEF PageAreas
  <2>2. First(Psi, Offsets[n][Psi]) /\ Offsets[n][Psi] \in 1..Len(L)
    BY <1>6, <1>7, <1>4
  <2>3. ~(Offsets[n][Psi] < 9)
    BY <2>0, <2>2, SMTT(60)
  <2>4. ~(Offsets[n][Psi] > 9)
    BY <2>1, <2>2
  <2> QED BY <2>2, <2>3, <2>4
<1>10. 8 \in DOMAIN L /\ L[8] = Pad
  BY <1>1, <1>4, <1>0 DEF PageAreas
<1>11. \A i \in 1..PsiPages : 9 + i - 1 \in DOMAIN L /\ L[9 + i - 1] = Psi
  <2> TAKE i \in 1..PsiPages
  <2>1. 9 + i - 1 = 8 + i /\ 8 + i \in DOMAIN L
    BY <1>4, <1>0
  <2> QED BY <2>1, <1>1 DEF PageAreas
<1>12. 9 + PsiPages \in DOMAIN L /\ L[9 + PsiPages] = Pad
  BY <1>1, <1>4, <1>0 DEF PageAreas
<1> QED BY <1>4, <1>6, <1>8, <1>9, <1>10, <1>11, <1>12 DEF L
-----------------------------------------------------------------------------
(* The steps of the operations *)

\* Steps without a local copy.
Plain(n, t, s) == /\ s \in Seq(Steps(n, t)) /\ Covered(s)
                  /\ \A i \in 1..Len(s) : s[i].do \notin Copies \cup {"assign_copy"}
\* The steps of a whole operation make a local copy before they use it.
Operation(n, t, s) ==
  /\ WellFormed(n, t, s)
  /\ \A i \in 1..Len(s) : s[i].do \in Copies =>
       \E j \in 1..i - 1 : s[j].do = "assign_copy"

\* Steps without a copy are a whole operation.
LEMMA PlainOperation ==
  ASSUME NEW n, NEW t, NEW s, Plain(n, t, s)
  PROVE  Operation(n, t, s)
  BY DEF Plain, Operation, WellFormed, CopyClean

\* The main loop makes no copies.
LEMMA MainPlain ==
  ASSUME NEW n, NEW s, WellFormed(n, "main", s)
  PROVE  Plain(n, "main", s)
<1>1. s \in Seq(Steps(n, "main")) /\ Covered(s)
  BY DEF WellFormed
<1>2. \A i \in 1..Len(s) : s[i] \in Steps(n, "main")
  BY <1>1
<1>3. \A x \in Steps(n, "main") : x.do \notin Copies \cup {"assign_copy"}
  BY DEF Steps, Stores
<1> QED BY <1>1, <1>2, <1>3 DEF Plain

\* What is left after the first step of well-formed steps is well-formed.
LEMMA TailWellFormed ==
  ASSUME NEW n, NEW t, NEW s, WellFormed(n, t, s), s # <<>>
  PROVE  /\ WellFormed(n, t, Tail(s)) /\ Head(s) \in Steps(n, t) /\ Head(s) = s[1]
         /\ Len(s) \in Nat /\ Len(s) >= 1 /\ Len(Tail(s)) = Len(s) - 1
         /\ \A i \in 1..Len(s) - 1 : Tail(s)[i] = s[i + 1]
<1>1. s \in Seq(Steps(n, t)) /\ Covered(s) /\ CopyClean(s)
  BY DEF WellFormed
<1> DEFINE T == Tail(s)
<1>2. T \in Seq(Steps(n, t)) /\ Head(s) \in Steps(n, t) /\ Head(s) = s[1]
  BY <1>1
<1>3. Len(s) \in Nat /\ Len(s) >= 1 /\ Len(T) = Len(s) - 1
  BY <1>1
<1>4. \A i \in 1..Len(s) - 1 : T[i] = s[i + 1]
  BY <1>1, <1>3
<1> HIDE DEF T
<1>5. Covered(T)
  <2> SUFFICES ASSUME NEW i \in 1..Len(T), T[i].do \in Stores
               PROVE  /\ T[i].area # Mux => \E j \in i + 1..Len(T) : Covers(T[j], T[i].area)
                      /\ T[i].area = Map => \E j \in i + 1..Len(T) : T[j].do = "apply"
    BY DEF Covered
  <2>1. i + 1 \in 1..Len(s) /\ T[i] = s[i + 1]
    BY <1>3, <1>4
  <2>2. ASSUME NEW j \in (i + 1) + 1..Len(s)
        PROVE  j - 1 \in i + 1..Len(T) /\ T[j - 1] = s[j]
    <3>1. j - 1 \in i + 1..Len(T) /\ j - 1 \in 1..Len(s) - 1 /\ j - 1 + 1 = j
      BY <1>3
    <3> QED BY <3>1, <1>4
  <2>3. /\ T[i].area # Mux => \E j \in (i + 1) + 1..Len(s) : Covers(s[j], T[i].area)
        /\ T[i].area = Map => \E j \in (i + 1) + 1..Len(s) : s[j].do = "apply"
    BY <1>1, <2>1 DEF Covered
  <2> QED BY <2>2, <2>3
<1>6. CopyClean(T)
  <2> SUFFICES ASSUME NEW i \in 1..Len(T), T[i].do \in Copies, NEW j \in 1..i - 1
               PROVE  /\ T[j].do = "assign_copy" => T[j].area = T[i].area
                      /\ T[j].do \in {"clear", "assign"} => T[j].area # T[i].area
    BY DEF CopyClean
  <2>1. i + 1 \in 1..Len(s) /\ T[i] = s[i + 1] /\ j + 1 \in 1..(i + 1) - 1 /\ T[j] = s[j + 1]
    BY <1>3, <1>4
  <2> QED BY <1>1, <2>1 DEF CopyClean
<1> QED BY <1>2, <1>3, <1>4, <1>5, <1>6 DEF WellFormed, T

\* The positions of a concatenation.
LEMMA Positions ==
  ASSUME NEW S, NEW s \in Seq(S), NEW t \in Seq(S)
  PROVE  /\ s \o t \in Seq(S) /\ Len(s \o t) = Len(s) + Len(t)
         /\ Len(s) \in Nat /\ Len(t) \in Nat
         /\ \A i \in 1..Len(s) : i \in 1..Len(s \o t) /\ (s \o t)[i] = s[i]
         /\ \A i \in 1..Len(t) : Len(s) + i \in 1..Len(s \o t) /\ (s \o t)[Len(s) + i] = t[i]
         /\ \A i \in 1..Len(s \o t) : i \in 1..Len(s) \/ i - Len(s) \in 1..Len(t)
         /\ \A i \in 1..Len(s \o t) : i - Len(s) \in 1..Len(t) => (s \o t)[i] = t[i - Len(s)]
<1>1. s \o t \in Seq(S) /\ Len(s \o t) = Len(s) + Len(t) /\ Len(s) \in Nat /\ Len(t) \in Nat
  OBVIOUS
<1>2. \A i \in 1..Len(s) : (s \o t)[i] = s[i]
  OBVIOUS
<1>3. \A i \in 1..Len(t) : (s \o t)[Len(s) + i] = t[i]
  OBVIOUS
<1>4. /\ \A i \in 1..Len(s) : i \in 1..Len(s \o t)
      /\ \A i \in 1..Len(t) : Len(s) + i \in 1..Len(s \o t)
      /\ \A i \in 1..Len(s \o t) : i \in 1..Len(s) \/ i - Len(s) \in 1..Len(t)
  BY <1>1
<1>5. \A i \in 1..Len(s \o t) : i - Len(s) \in 1..Len(t) => (s \o t)[i] = t[i - Len(s)]
  <2> SUFFICES ASSUME NEW i \in 1..Len(s \o t), i - Len(s) \in 1..Len(t)
               PROVE  (s \o t)[i] = t[i - Len(s)]
    OBVIOUS
  <2>1. Len(s) + (i - Len(s)) = i
    BY <1>1
  <2> QED BY <2>1, <1>3
<1> QED BY <1>1, <1>2, <1>3, <1>4, <1>5

\* Two runs of steps, each saved by itself, are saved one after the other.
LEMMA CoveredConcat ==
  ASSUME NEW S, NEW s \in Seq(S), NEW t \in Seq(S), Covered(s), Covered(t)
  PROVE  Covered(s \o t)
<1> DEFINE u == s \o t
<1>1. /\ Len(u) = Len(s) + Len(t)
      /\ Len(s) \in Nat /\ Len(t) \in Nat
      /\ \A i \in 1..Len(s) : i \in 1..Len(u) /\ u[i] = s[i]
      /\ \A i \in 1..Len(t) : Len(s) + i \in 1..Len(u) /\ u[Len(s) + i] = t[i]
      /\ \A i \in 1..Len(u) : i \in 1..Len(s) \/ i - Len(s) \in 1..Len(t)
      /\ \A i \in 1..Len(u) : i - Len(s) \in 1..Len(t) => u[i] = t[i - Len(s)]
  BY Positions
<1> HIDE DEF u
<1> SUFFICES ASSUME NEW i \in 1..Len(u), u[i].do \in Stores
             PROVE  /\ u[i].area # Mux => \E j \in i + 1..Len(u) : Covers(u[j], u[i].area)
                    /\ u[i].area = Map => \E j \in i + 1..Len(u) : u[j].do = "apply"
  BY DEF Covered, u
<1>2. CASE i \in 1..Len(s)
  <2>1. u[i] = s[i]
    BY <1>1, <1>2
  <2>2. \A j \in i + 1..Len(s) : j \in i + 1..Len(u) /\ u[j] = s[j]
    BY <1>1, <1>2
  <2>3. /\ s[i].area # Mux => \E j \in i + 1..Len(s) : Covers(s[j], s[i].area)
        /\ s[i].area = Map => \E j \in i + 1..Len(s) : s[j].do = "apply"
    BY <1>2, <2>1 DEF Covered
  <2> QED BY <2>1, <2>2, <2>3
<1>3. CASE i - Len(s) \in 1..Len(t)
  <2> DEFINE k == i - Len(s)
  <2>1. u[i] = t[k] /\ k \in 1..Len(t)
    BY <1>1, <1>3
  <2>2. \A j \in k + 1..Len(t) : Len(s) + j \in i + 1..Len(u) /\ u[Len(s) + j] = t[j]
    BY <1>1, <1>3
  <2> HIDE DEF k
  <2>3. /\ t[k].area # Mux => \E j \in k + 1..Len(t) : Covers(t[j], t[k].area)
        /\ t[k].area = Map => \E j \in k + 1..Len(t) : t[j].do = "apply"
    BY <2>1 DEF Covered
  <2> QED BY <2>1, <2>2, <2>3
<1> QED BY <1>1, <1>2, <1>3

\* Steps without a copy may follow each other.
LEMMA PlainConcat ==
  ASSUME NEW n, NEW t, NEW s1, NEW s2, Plain(n, t, s1), Plain(n, t, s2)
  PROVE  Plain(n, t, s1 \o s2)
<1> DEFINE u == s1 \o s2
           S == Steps(n, t)
<1>0. s1 \in Seq(S) /\ s2 \in Seq(S)
  BY DEF Plain
<1> HIDE DEF S
<1>1. /\ u \in Seq(S) /\ Len(u) = Len(s1) + Len(s2)
      /\ \A i \in 1..Len(s1) : i \in 1..Len(u) /\ u[i] = s1[i]
      /\ \A i \in 1..Len(u) : i \in 1..Len(s1) \/ i - Len(s1) \in 1..Len(s2)
      /\ \A i \in 1..Len(u) : i - Len(s1) \in 1..Len(s2) => u[i] = s2[i - Len(s1)]
  BY <1>0, Positions
<1>2. Covered(u)
  BY <1>0, CoveredConcat DEF Plain
<1> HIDE DEF u
<1>3. \A i \in 1..Len(u) : u[i].do \notin Copies \cup {"assign_copy"}
  BY <1>1 DEF Plain
<1> QED BY <1>1, <1>2, <1>3 DEF Plain, u, S

\* Steps without a copy may follow an operation.
LEMMA OperationConcat ==
  ASSUME NEW n, NEW t, NEW s1, NEW s2, Operation(n, t, s1), Plain(n, t, s2)
  PROVE  Operation(n, t, s1 \o s2)
<1> DEFINE u == s1 \o s2
           S == Steps(n, t)
<1>0. s1 \in Seq(S) /\ s2 \in Seq(S)
  BY DEF Plain, Operation, WellFormed
<1> HIDE DEF S
<1>1. /\ u \in Seq(S) /\ Len(u) = Len(s1) + Len(s2) /\ Len(s1) \in Nat
      /\ \A i \in 1..Len(s1) : i \in 1..Len(u) /\ u[i] = s1[i]
      /\ \A i \in 1..Len(u) : i \in 1..Len(s1) \/ i - Len(s1) \in 1..Len(s2)
      /\ \A i \in 1..Len(u) : i - Len(s1) \in 1..Len(s2) => u[i] = s2[i - Len(s1)]
  BY <1>0, Positions
<1>2. Covered(u)
  BY <1>0, CoveredConcat DEF Plain, Operation, WellFormed
<1> HIDE DEF u
<1>3. ASSUME NEW i \in 1..Len(u), u[i].do \in Copies
      PROVE  /\ i \in 1..Len(s1) /\ u[i] = s1[i] /\ s1[i].do \in Copies
             /\ \A j \in 1..i - 1 : j \in 1..Len(s1) /\ u[j] = s1[j]
  <2>1. i \in 1..Len(s1)
    BY <1>1, <1>3 DEF Plain
  <2> QED BY <2>1, <1>1, <1>3
<1>4. CopyClean(u)
  BY <1>3 DEF CopyClean, Operation, WellFormed
<1>5. \A i \in 1..Len(u) : u[i].do \in Copies => \E j \in 1..i - 1 : u[j].do = "assign_copy"
  BY <1>3 DEF Operation
<1>6. Operation(n, t, u)
  BY <1>1, <1>2, <1>4, <1>5 DEF Operation, WellFormed, S
<1> QED BY <1>6 DEF u

\* Each kind of step, as one a thread may have to do.
LEMMA StepKinds ==
  ASSUME NEW n \in Products, NEW t \in Thread
  PROVE  /\ t # "main" => \A a \in AreasOf[n] : a # Map =>
              Assign(a) \in Steps(n, t) /\ Clear(a) \in Steps(n, t)
         /\ t # "main" => \A a \in AreasOf[n] : a # Psi =>
              AssignCopy(a) \in Steps(n, t) /\ SaveCopy(a) \in Steps(n, t)
         /\ t # "main" => Apply \in Steps(n, t)
         /\ \A a \in AreasOf[n] : a # Psi => Save(a) \in Steps(n, t) /\ SaveValid(a) \in Steps(n, t)
         /\ t = "main" => Save(Psi) \in Steps(n, t)
         /\ \A f \in Flags : (f = "pmt" => n = 1) => Request(f) \in Steps(n, t)
         /\ t = "main" => \A f \in Flags : (f = "pmt" => n = 1) => Check(f) \in Steps(n, t)
<1>0. Map \in AreasOf[n] /\ Psi \in AreasOf[n]
  BY AreasListed DEF AreaList
<1>1. \A f \in Flags : Area(f) \in FlagAreas
  BY DEF FlagAreas
<1> USE DEF Steps, Kinds, Stores, Saves, Copies
<1>2. t # "main" => \A a \in AreasOf[n] : a # Map => Assign(a) \in Steps(n, t) /\ Clear(a) \in Steps(n, t)
  BY DEF Assign, Clear
<1>3. t # "main" => \A a \in AreasOf[n] : a # Psi =>
        AssignCopy(a) \in Steps(n, t) /\ SaveCopy(a) \in Steps(n, t)
  BY DEF AssignCopy, SaveCopy
<1>4. t # "main" => Apply \in Steps(n, t)
  BY <1>0 DEF Apply
<1>5. \A a \in AreasOf[n] : a # Psi => Save(a) \in Steps(n, t) /\ SaveValid(a) \in Steps(n, t)
  BY DEF Save, SaveValid
<1>6. t = "main" => Save(Psi) \in Steps(n, t)
  BY <1>0 DEF Save
<1>9. \A f \in Flags : Area(f) = Pmt => f = "pmt"
  BY DEF Pmt, Area
<1>7. \A f \in Flags : (f = "pmt" => n = 1) => Request(f) \in Steps(n, t)
  BY <1>1, <1>9 DEF Request
<1>8. t = "main" => \A f \in Flags : (f = "pmt" => n = 1) => Check(f) \in Steps(n, t)
  BY <1>1, <1>9 DEF Check
<1> QED BY <1>2, <1>3, <1>4, <1>5, <1>6, <1>7, <1>8

\* Two steps that store an area and save it, or ask for that.
LEMMA StoreAndSave ==
  ASSUME NEW n \in Products, NEW t \in Thread \ {"main"}, NEW a \in AreasOf[n], a # Psi, a # Map
  PROVE  Plain(n, t, <<Assign(a), Save(a)>>)
<1> DEFINE s == <<Assign(a), Save(a)>>
<1>1. s \in Seq(Steps(n, t)) /\ Len(s) = 2 /\ s[1] = Assign(a) /\ s[2] = Save(a)
  BY StepKinds
<1> HIDE DEF s
<1>2. Covered(s)
  BY <1>1 DEF Covered, Assign, Save, Stores, Covers, Saves
<1>3. \A i \in 1..Len(s) : s[i].do \notin Copies \cup {"assign_copy"}
  BY <1>1 DEF Assign, Save, Copies
<1> QED BY <1>1, <1>2, <1>3 DEF Plain, s

\* No steps at all (an unknown packet format, a product without the part).
LEMMA EmptyPlain ==
  ASSUME NEW n, NEW t
  PROVE  Plain(n, t, <<>>)
  BY DEF Plain, Covered

\* One step that stores nothing, and uses no copy.
LEMMA OnePlain ==
  ASSUME NEW n, NEW t, NEW x \in Steps(n, t), x.do \notin Stores \cup Copies
  PROVE  Plain(n, t, <<x>>)
<1> DEFINE s == <<x>>
<1>1. s \in Seq(Steps(n, t)) /\ Len(s) = 1 /\ s[1] = x
  OBVIOUS
<1> HIDE DEF s
<1>2. \A i \in 1..Len(s) : s[i] = x
  BY <1>1
<1>3. Covered(s)
  BY <1>2 DEF Covered
<1>4. \A i \in 1..Len(s) : s[i].do \notin Copies \cup {"assign_copy"}
  BY <1>2 DEF Stores
<1> QED BY <1>1, <1>3, <1>4 DEF Plain, s

\* The areas the requests are for.
LEMMA FlagNames ==
  /\ Psi[1] = "psi" /\ Pmt[1] = "pmt" /\ \A c : Trans(c)[1] = "trans"
  /\ Flags = {"psi", "trans", "pmt"} /\ \A f : Area(f)[1] = f
  BY DEF Psi, Pmt, Trans, Area, Flags

\* psi_gen_output_psi clears, fills and asks for the save.
LEMMA PsiGenPlain ==
  ASSUME NEW n \in Products, NEW t \in Thread \ {"main"}
  PROVE  Plain(n, t, psi_gen_output_psi)
<1> DEFINE s == <<Clear(Psi), Assign(Psi), Request("psi")>>
<1>0. Psi \in AreasOf[n] /\ Psi # Map
  BY AreasListed, Distinct DEF AreaList
<1>1. /\ s \in Seq(Steps(n, t)) /\ Len(s) = 3
      /\ s[1] = Clear(Psi) /\ s[2] = Assign(Psi) /\ s[3] = Request("psi")
  BY <1>0, StepKinds, FlagNames
<1> HIDE DEF s
<1>2. Covers(s[3], Psi)
  BY <1>1, FlagNames DEF Covers, Request
<1>3. Covered(s)
  <2>1. \A i \in 1..Len(s) : s[i].do \in Stores => s[i].area = Psi /\ 3 \in i + 1..Len(s)
    BY <1>1 DEF Clear, Assign, Request, Stores
  <2> QED BY <2>1, <1>0, <1>2 DEF Covered
<1>4. \A i \in 1..Len(s) : s[i].do \notin Copies \cup {"assign_copy"}
  BY <1>1 DEF Clear, Assign, Request, Copies
<1> QED BY <1>1, <1>3, <1>4 DEF Plain, s, psi_gen_output_psi

\* xmux_config_save_input_pmt_section stores and asks for the save.
LEMMA PmtPlain ==
  ASSUME NEW n \in Products, n = 1, NEW t \in Thread \ {"main"}
  PROVE  Plain(n, t, xmux_config_save_input_pmt_section)
<1> DEFINE s == <<Assign(Pmt), Request("pmt")>>
<1>0. Pmt \in AreasOf[n] /\ Pmt # Map
  BY AreasListed, Distinct DEF AreaList
<1>1. /\ s \in Seq(Steps(n, t)) /\ Len(s) = 2
      /\ s[1] = Assign(Pmt) /\ s[2] = Request("pmt")
  BY <1>0, StepKinds, FlagNames
<1> HIDE DEF s
<1>2. Covers(s[2], Pmt)
  BY <1>1, FlagNames DEF Covers, Request
<1>3. Covered(s)
  <2>1. \A i \in 1..Len(s) : s[i].do \in Stores => s[i].area = Pmt /\ 2 \in i + 1..Len(s)
    BY <1>1 DEF Assign, Request, Stores
  <2> QED BY <2>1, <1>0, <1>2 DEF Covered
<1>4. \A i \in 1..Len(s) : s[i].do \notin Copies \cup {"assign_copy"}
  BY <1>1 DEF Assign, Request, Copies
<1> QED BY <1>1, <1>3, <1>4 DEF Plain, s, xmux_config_save_input_pmt_section

\* The channels' tables: stored one after the other, and saved or their save asked for.
LEMMA EachTrans ==
  ASSUME chans \in Products
  PROVE  /\ each(Assign, TransAreas) = [c \in 1..chans |-> Assign(Trans(c))]
         /\ xmux_config_save_pid_trans_info_all = [c \in 1..chans |-> SaveValid(Trans(c))]
         /\ chans \in Nat \ {0}
         /\ \A c \in 1..chans : /\ Trans(c) \in AreasOf[chans] /\ Trans(c) # Psi
                                 /\ Trans(c) # Map /\ Trans(c) # Mux
<1>1. DOMAIN TransAreas = 1..chans /\ \A c \in 1..chans : TransAreas[c] = Trans(c)
  BY DEF TransAreas
<1>2. each(Assign, TransAreas) = [c \in 1..chans |-> Assign(Trans(c))]
  BY <1>1 DEF each
<1>3. xmux_config_save_pid_trans_info_all = [c \in 1..chans |-> SaveValid(Trans(c))]
  BY <1>1 DEF each, xmux_config_save_pid_trans_info_all
<1>4. chans \in Nat \ {0}
  BY ConfigAssumption
<1>5. \A c \in 1..chans : Trans(c) \in AreasOf[chans]
  BY AreasListed DEF AreaList
<1> QED BY <1>2, <1>3, <1>4, <1>5, Distinct

\* xmux_config_save_pid_trans_info_all only saves.
LEMMA SaveTransPlain ==
  ASSUME chans \in Products, NEW t \in Thread
  PROVE  Plain(chans, t, xmux_config_save_pid_trans_info_all)
<1> DEFINE s == [c \in 1..chans |-> SaveValid(Trans(c))]
           S == Steps(chans, t)
<1>1. \A c \in 1..chans : SaveValid(Trans(c)) \in S
  BY EachTrans, StepKinds
<1>2. chans \in Nat
  BY EachTrans
<1> HIDE DEF S
<1>3. s \in Seq(S) /\ Len(s) = chans
  BY <1>1, <1>2
<1>4. \A i \in 1..Len(s) : s[i].do = "save_valid"
  BY <1>3 DEF SaveValid
<1>5. Covered(s)
  BY <1>4 DEF Covered, Stores
<1> HIDE DEF s
<1>6. Plain(chans, t, s)
  BY <1>3, <1>4, <1>5 DEF Plain, S, Copies
<1> QED BY <1>6, EachTrans DEF s

\* What the steps are.
LEMMA StepFields ==
  /\ \A a : Assign(a).do = "assign" /\ Assign(a).area = a
  /\ \A a : Clear(a).do = "clear" /\ Clear(a).area = a
  /\ \A a : AssignCopy(a).do = "assign_copy" /\ AssignCopy(a).area = a
  /\ \A a : Save(a).do = "save" /\ Save(a).area = a
  /\ \A a : SaveCopy(a).do = "save_copy" /\ SaveCopy(a).area = a
  /\ \A a : SaveValid(a).do = "save_valid" /\ SaveValid(a).area = a
  /\ Apply.do = "apply" /\ Apply.area = Map
  /\ \A f : Request(f).do = "request" /\ Request(f).area = Area(f)
  /\ \A f : Check(f).do = "check" /\ Check(f).area = Area(f)
  BY DEF Assign, Clear, AssignCopy, Save, SaveCopy, SaveValid, Apply, Request, Check

\* Every channel's table is stored, then the save of all of them is asked for.
LEMMA RequestTransPlain ==
  ASSUME chans \in Products, NEW t \in Thread \ {"main"}
  PROVE  Plain(chans, t, each(Assign, TransAreas) \o <<Request("trans")>>)
<1> DEFINE s1 == [c \in 1..chans |-> Assign(Trans(c))]
           s2 == <<Request("trans")>>
           u == s1 \o s2
           S == Steps(chans, t)
<1>1. \A c \in 1..chans : Assign(Trans(c)) \in S
  BY EachTrans, StepKinds
<1>2. chans \in Nat
  BY EachTrans
<1>3. Request("trans") \in S
  BY StepKinds, FlagNames
<1> HIDE DEF S
<1>4. s1 \in Seq(S) /\ Len(s1) = chans /\ \A i \in 1..chans : s1[i] = Assign(Trans(i))
  BY <1>1, <1>2
<1>5. s2 \in Seq(S) /\ Len(s2) = 1 /\ s2[1] = Request("trans")
  BY <1>3
<1> HIDE DEF s1, s2
<1>6. /\ u \in Seq(S) /\ Len(u) = Len(s1) + Len(s2)
      /\ \A i \in 1..Len(s1) : i \in 1..Len(u) /\ u[i] = s1[i]
      /\ \A i \in 1..Len(s2) : Len(s1) + i \in 1..Len(u) /\ u[Len(s1) + i] = s2[i]
  <2>1. s1 \in Seq(S) /\ s2 \in Seq(S)
    BY <1>4, <1>5
  <2> QED BY <2>1, Positions
<1> HIDE DEF u
<1>7. /\ Len(u) = chans + 1 /\ u[chans + 1] = Request("trans")
      /\ \A i \in 1..chans : u[i] = Assign(Trans(i))
  BY <1>2, <1>4, <1>5, <1>6
<1>8. \A i \in 1..Len(u) : i \in 1..chans \/ i = chans + 1
  BY <1>2, <1>7
<1>9. \A i \in 1..Len(u) : u[i].do \notin Copies \cup {"assign_copy"}
  BY <1>7, <1>8, StepFields DEF Copies
<1>10. Covered(u)
  <2>1. \A c : Covers(u[chans + 1], Trans(c))
    BY <1>7, FlagNames DEF Covers, Request
  <2>2. \A i \in 1..Len(u) : u[i].do \in Stores => i \in 1..chans /\ u[i].area = Trans(i)
    BY <1>7, <1>8, StepFields DEF Stores
  <2>3. \A i \in 1..chans : chans + 1 \in i + 1..Len(u)
    BY <1>2, <1>7
  <2>4. \A i \in 1..chans : Trans(i) # Map
    BY Distinct
  <2> QED BY <2>1, <2>2, <2>3, <2>4 DEF Covered
<1>11. Plain(chans, t, u)
  BY <1>6, <1>9, <1>10 DEF Plain, S
<1> QED BY <1>11, EachTrans DEF u, s1, s2

\* Every channel's table is stored, then every one is saved.
LEMMA AssignTransPlain ==
  ASSUME chans \in Products, NEW t \in Thread \ {"main"}
  PROVE  Plain(chans, t, each(Assign, TransAreas) \o xmux_config_save_pid_trans_info_all)
<1> DEFINE s1 == [c \in 1..chans |-> Assign(Trans(c))]
           s2 == [c \in 1..chans |-> SaveValid(Trans(c))]
           u == s1 \o s2
           S == Steps(chans, t)
<1>1. \A c \in 1..chans : Assign(Trans(c)) \in S /\ SaveValid(Trans(c)) \in S
  BY EachTrans, StepKinds
<1>2. chans \in Nat
  BY EachTrans
<1> HIDE DEF S
<1>4. s1 \in Seq(S) /\ Len(s1) = chans /\ \A i \in 1..chans : s1[i] = Assign(Trans(i))
  BY <1>1, <1>2
<1>5. s2 \in Seq(S) /\ Len(s2) = chans /\ \A i \in 1..chans : s2[i] = SaveValid(Trans(i))
  BY <1>1, <1>2
<1> HIDE DEF s1, s2
<1>6. /\ u \in Seq(S) /\ Len(u) = Len(s1) + Len(s2)
      /\ \A i \in 1..Len(s1) : i \in 1..Len(u) /\ u[i] = s1[i]
      /\ \A i \in 1..Len(s2) : Len(s1) + i \in 1..Len(u) /\ u[Len(s1) + i] = s2[i]
      /\ \A i \in 1..Len(u) : i \in 1..Len(s1) \/ i - Len(s1) \in 1..Len(s2)
      /\ \A i \in 1..Len(u) : i - Len(s1) \in 1..Len(s2) => u[i] = s2[i - Len(s1)]
  <2>1. s1 \in Seq(S) /\ s2 \in Seq(S)
    BY <1>4, <1>5
  <2> QED BY <2>1, Positions
<1> HIDE DEF u
<1>7. /\ Len(u) = chans + chans
      /\ \A i \in 1..chans : u[i] = Assign(Trans(i)) /\ u[chans + i] = SaveValid(Trans(i))
  BY <1>2, <1>4, <1>5, <1>6
<1>8. \A i \in 1..Len(u) : \/ i \in 1..chans /\ u[i] = Assign(Trans(i))
                          \/ u[i] = SaveValid(Trans(i - chans))
  BY <1>4, <1>5, <1>6
<1>9. \A i \in 1..Len(u) : u[i].do \notin Copies \cup {"assign_copy"}
  BY <1>8, StepFields DEF Copies
<1>10. Covered(u)
  <2>1. \A c \in 1..chans : Covers(u[chans + c], Trans(c))
    BY <1>7, StepFields DEF Covers, Saves
  <2>2. \A i \in 1..Len(u) : u[i].do \in Stores => i \in 1..chans /\ u[i].area = Trans(i)
    BY <1>8, StepFields DEF Stores
  <2>3. \A i \in 1..chans : chans + i \in i + 1..Len(u)
    BY <1>2, <1>7
  <2>4. \A i \in 1..chans : Trans(i) # Map
    BY Distinct
  <2> QED BY <2>1, <2>2, <2>3, <2>4 DEF Covered
<1>11. Plain(chans, t, u)
  BY <1>6, <1>9, <1>10 DEF Plain, S
<1> QED BY <1>11, EachTrans DEF u, s1, s2

\* What the main loop does for a request covers every area the request is for.
LEMMA DeferredOK ==
  ASSUME chans \in Products, NEW f \in Flags, f = "pmt" => chans = 1
  PROVE  /\ Plain(chans, "main", Deferred(f))
         /\ \A a \in AreasOf[chans] : a[1] = f =>
              \E i \in 1..Len(Deferred(f)) : Covers(Deferred(f)[i], a)
<1>0. "main" \in Thread
  BY DEF Thread
<1>1. CASE f = "psi"
  <2>1. Deferred(f) = <<Save(Psi)>> /\ Save(Psi).do = "save" /\ Save(Psi).area = Psi
    BY <1>1 DEF Deferred, Save
  <2>2. Save(Psi) \in Steps(chans, "main")
    BY <1>0, StepKinds
  <2>3. Plain(chans, "main", <<Save(Psi)>>)
    BY <2>1, <2>2, OnePlain DEF Stores, Copies
  <2>4. \A a \in AreasOf[chans] : a[1] = f => a = Psi
    BY <1>1, AreasListed, FlagNames DEF AreaList, Sys, Net, User, Misc, Mux, Map, Pmt, Tunner, Area
  <2>5. 1 \in 1..Len(Deferred(f)) /\ Covers(Deferred(f)[1], Psi)
    BY <2>1 DEF Covers, Saves
  <2> QED BY <2>1, <2>3, <2>4, <2>5
<1>2. CASE f = "trans"
  <2>1. Deferred(f) = xmux_config_save_pid_trans_info_all
    BY <1>2 DEF Deferred
  <2>2. Plain(chans, "main", Deferred(f))
    BY <1>0, <2>1, SaveTransPlain
  <2>3. \A a \in AreasOf[chans] : a[1] = f => \E c \in 1..chans : a = Trans(c)
    BY <1>2, AreasListed, FlagNames
       DEF AreaList, Sys, Net, User, Misc, Mux, Map, Psi, Pmt, Tunner, Area
  <2>4. \A c \in 1..chans : c \in 1..Len(Deferred(f)) /\ Covers(Deferred(f)[c], Trans(c))
    <3>1. Deferred(f) = [c \in 1..chans |-> SaveValid(Trans(c))] /\ chans \in Nat
      BY <2>1, EachTrans
    <3>2. Len(Deferred(f)) = chans /\ \A c \in 1..chans : Deferred(f)[c] = SaveValid(Trans(c))
      BY <3>1
    <3> QED BY <3>2 DEF Covers, SaveValid, Saves
  <2> QED BY <2>2, <2>3, <2>4
<1>3. CASE f = "pmt"
  <2>0. Pmt \in AreasOf[chans] /\ Pmt # Psi
    BY <1>3, AreasListed, Distinct DEF AreaList
  <2>1. Deferred(f) = <<Save(Pmt)>> /\ Save(Pmt).do = "save" /\ Save(Pmt).area = Pmt
    BY <1>3 DEF Deferred, Save
  <2>2. Save(Pmt) \in Steps(chans, "main")
    BY <1>0, <2>0, StepKinds
  <2>3. Plain(chans, "main", <<Save(Pmt)>>)
    BY <2>1, <2>2, OnePlain DEF Stores, Copies
  <2>4. \A a \in AreasOf[chans] : a[1] = f => a = Pmt
    BY <1>3, AreasListed, FlagNames DEF AreaList, Sys, Net, User, Misc, Mux, Map, Psi, Tunner, Area
  <2>5. 1 \in 1..Len(Deferred(f)) /\ Covers(Deferred(f)[1], Pmt)
    BY <2>1 DEF Covers, Saves
  <2> QED BY <2>1, <2>3, <2>4, <2>5
<1> QED BY <1>1, <1>2, <1>3 DEF Flags

\* Sequences with the same elements are the same.
LEMMA SameSeq ==
  ASSUME NEW S, NEW s \in Seq(S), NEW t \in Seq(S), Len(s) = Len(t),
         \A i \in 1..Len(s) : s[i] = t[i]
  PROVE  s = t
  OBVIOUS

\* When a sequence is the concatenation of two others.
LEMMA Joined ==
  ASSUME NEW S, NEW s \in Seq(S), NEW t \in Seq(S), NEW r \in Seq(S),
         Len(r) = Len(s) + Len(t),
         \A i \in 1..Len(s) : r[i] = s[i], \A i \in 1..Len(t) : r[Len(s) + i] = t[i]
  PROVE  s \o t = r
<1>1. \A i \in 1..Len(s) : (s \o t)[i] = s[i]
  BY Positions
<1>2. \A i \in 1..Len(t) : (s \o t)[Len(s) + i] = t[i]
  BY Positions
<1>3. s \o t \in Seq(S) /\ Len(s \o t) = Len(s) + Len(t)
  BY Positions
<1>5. Len(s) \in Nat /\ Len(t) \in Nat
  OBVIOUS
<1> DEFINE u == s \o t
<1> HIDE DEF u
<1>4. \A i \in 1..Len(u) : u[i] = r[i]
  <2> TAKE i \in 1..Len(u)
  <2>0. Len(u) = Len(s) + Len(t)
    BY <1>3 DEF u
  <2>1. CASE i \in 1..Len(s)
   BY <2>1, <1>1 DEF u
  <2>2. CASE i - Len(s) \in 1..Len(t)
    <3>1. Len(s) + (i - Len(s)) = i
     BY <1>5, <2>0
    <3> QED BY <2>2, <3>1, <1>2 DEF u
  <2> QED BY <2>1, <2>2, <2>0, <1>5
<1>6. u \in Seq(S) /\ Len(u) = Len(r)
  BY <1>3 DEF u
<1>7. u = r
  BY <1>4, <1>6, SameSeq
<1> QED BY <1>7 DEF u

\* Short sequences put together.
LEMMA ShortConcat ==
  /\ \A x, y, z : <<x, y>> \o <<z>> = <<x, y, z>>
  /\ \A v, w, x, y : <<v, w>> \o <<x, y>> = <<v, w, x, y>>
  /\ \A v, w, x, y, z : <<v, w, x, y>> \o <<z>> = <<v, w, x, y, z>>
<1>1. \A x, y, z : <<x, y>> \o <<z>> = <<x, y, z>>
  <2> TAKE x, y, z
  <2> DEFINE s == <<x, y>>
             t == <<z>>
             r == <<x, y, z>>
             S == {x, y, z}
  <2>1. s \in Seq(S) /\ t \in Seq(S) /\ r \in Seq(S)
    OBVIOUS
  <2>2. /\ Len(r) = Len(s) + Len(t) /\ \A i \in 1..Len(s) : r[i] = s[i]
        /\ \A i \in 1..Len(t) : r[Len(s) + i] = t[i]
    OBVIOUS
  <2> HIDE DEF s, t, r, S
  <2>3. s \o t = r
    BY <2>1, <2>2, Joined
  <2> QED BY <2>3 DEF s, t, r
<1>2. \A v, w, x, y : <<v, w>> \o <<x, y>> = <<v, w, x, y>>
  <2> TAKE v, w, x, y
  <2> DEFINE s == <<v, w>>
             t == <<x, y>>
             r == <<v, w, x, y>>
             S == {v, w, x, y}
  <2>1. s \in Seq(S) /\ t \in Seq(S) /\ r \in Seq(S)
    OBVIOUS
  <2>2. /\ Len(r) = Len(s) + Len(t) /\ \A i \in 1..Len(s) : r[i] = s[i]
        /\ \A i \in 1..Len(t) : r[Len(s) + i] = t[i]
    OBVIOUS
  <2> HIDE DEF s, t, r, S
  <2>3. s \o t = r
    BY <2>1, <2>2, Joined
  <2> QED BY <2>3 DEF s, t, r
<1>3. \A v, w, x, y, z : <<v, w, x, y>> \o <<z>> = <<v, w, x, y, z>>
  <2> TAKE v, w, x, y, z
  <2> DEFINE s == <<v, w, x, y>>
             t == <<z>>
             r == <<v, w, x, y, z>>
             S == {v, w, x, y, z}
  <2>1. s \in Seq(S) /\ t \in Seq(S) /\ r \in Seq(S)
    OBVIOUS
  <2>2. /\ Len(r) = Len(s) + Len(t) /\ \A i \in 1..Len(s) : r[i] = s[i]
        /\ \A i \in 1..Len(t) : r[Len(s) + i] = t[i]
    OBVIOUS
  <2> HIDE DEF s, t, r, S
  <2>3. s \o t = r
    BY <2>1, <2>2, Joined
  <2> QED BY <2>3 DEF s, t, r
<1> QED BY <1>1, <1>2, <1>3

\* A local copy of the pid map, saved and applied.
LEMMA MapOperation ==
  ASSUME NEW n \in Products, NEW t \in Thread \ {"main"}
  PROVE  Operation(n, t, xmux_config_save_pid_map_table \o <<Apply>>)
<1> DEFINE s == <<AssignCopy(Map), SaveCopy(Map), Apply>>
<1>0. xmux_config_save_pid_map_table \o <<Apply>> = s
  BY ShortConcat DEF xmux_config_save_pid_map_table
<1>1. Map \in AreasOf[n] /\ Map # Psi
  BY AreasListed, Distinct DEF AreaList
<1>2. /\ s \in Seq(Steps(n, t)) /\ Len(s) = 3
      /\ s[1] = AssignCopy(Map) /\ s[2] = SaveCopy(Map) /\ s[3] = Apply
  BY <1>1, StepKinds
<1> HIDE DEF s
<1>3. \A i \in 1..Len(s) : i = 1 \/ i = 2 \/ i = 3
  BY <1>2
<1>4. /\ s[1].do = "assign_copy" /\ s[2].do = "save_copy" /\ s[3].do = "apply"
      /\ \A i \in 1..Len(s) : s[i].area = Map
  BY <1>2, <1>3, StepFields
<1>5. Covered(s)
  <2>1. Covers(s[2], Map)
    BY <1>2, StepFields DEF Covers, Saves
  <2>2. \A i \in 1..Len(s) : s[i].do \in Stores => i = 1
    BY <1>3, <1>4 DEF Stores
  <2>3. 2 \in 1 + 1..Len(s) /\ 3 \in 1 + 1..Len(s)
    BY <1>2
  <2> QED BY <2>1, <2>2, <2>3, <1>4 DEF Covered
<1>6. CopyClean(s)
  <2>1. \A i \in 1..Len(s) : s[i].do \notin {"clear", "assign"}
    BY <1>3, <1>4
  <2>2. \A i \in 1..Len(s) : \A j \in 1..i - 1 : j \in 1..Len(s)
    BY <1>2
  <2> QED BY <1>4, <2>1, <2>2 DEF CopyClean
<1>7. \A i \in 1..Len(s) : s[i].do \in Copies => 1 \in 1..i - 1
  BY <1>3, <1>4 DEF Copies
<1> QED BY <1>0, <1>2, <1>4, <1>5, <1>6, <1>7 DEF Operation, WellFormed

\* The same after the multiplex's program list was filled.
LEMMA MuxMapOperation ==
  ASSUME NEW n \in Products, NEW t \in Thread \ {"main"}
  PROVE  Operation(n, t, <<Clear(Mux), Assign(Mux)>> \o xmux_config_save_pid_map_table \o <<Apply>>)
<1> DEFINE s == <<Clear(Mux), Assign(Mux), AssignCopy(Map), SaveCopy(Map), Apply>>
<1>0. <<Clear(Mux), Assign(Mux)>> \o xmux_config_save_pid_map_table \o <<Apply>> = s
  <2>1. <<Clear(Mux), Assign(Mux)>> \o xmux_config_save_pid_map_table
          = <<Clear(Mux), Assign(Mux), AssignCopy(Map), SaveCopy(Map)>>
    BY ShortConcat, Zenon DEF xmux_config_save_pid_map_table
  <2>2. <<Clear(Mux), Assign(Mux), AssignCopy(Map), SaveCopy(Map)>> \o <<Apply>> = s
    BY ShortConcat
  <2> HIDE DEF s
  <2> QED BY <2>1, <2>2, Zenon
<1>1. Map \in AreasOf[n] /\ Map # Psi /\ Mux \in AreasOf[n] /\ Mux # Map
  BY AreasListed, Distinct DEF AreaList
<1>2. /\ s \in Seq(Steps(n, t)) /\ Len(s) = 5 /\ s[1] = Clear(Mux) /\ s[2] = Assign(Mux)
      /\ s[3] = AssignCopy(Map) /\ s[4] = SaveCopy(Map) /\ s[5] = Apply
  BY <1>1, StepKinds
<1> HIDE DEF s
<1>3. \A i \in 1..Len(s) : i = 1 \/ i = 2 \/ i = 3 \/ i = 4 \/ i = 5
  BY <1>2
<1>4. /\ s[1].do = "clear" /\ s[2].do = "assign"
      /\ s[3].do = "assign_copy" /\ s[4].do = "save_copy" /\ s[5].do = "apply"
      /\ s[1].area = Mux /\ s[2].area = Mux /\ s[3].area = Map /\ s[4].area = Map /\ s[5].area = Map
  BY <1>2, StepFields
<1>5. Covered(s)
  <2>1. Covers(s[4], Map)
    BY <1>2, StepFields DEF Covers, Saves
  <2>2. \A i \in 1..Len(s) : s[i].do \in Stores => i = 3 \/ s[i].area = Mux
    BY <1>3, <1>4 DEF Stores
  <2>3. 4 \in 3 + 1..Len(s) /\ 5 \in 3 + 1..Len(s)
    BY <1>2
  <2> QED BY <2>1, <2>2, <2>3, <1>1, <1>4 DEF Covered
<1>6. CopyClean(s)
  <2>1. \A i \in 1..Len(s) : s[i].do \in Copies => s[i].area = Map
    BY <1>3, <1>4 DEF Copies
  <2>2. \A i \in 1..Len(s) : \A j \in 1..i - 1 : j \in 1..Len(s)
    BY <1>2
  <2>3. \A j \in 1..Len(s) : /\ s[j].do = "assign_copy" => s[j].area = Map
                             /\ s[j].do \in {"clear", "assign"} => s[j].area # Map
    BY <1>1, <1>3, <1>4
  <2> QED BY <2>1, <2>2, <2>3 DEF CopyClean
<1>7. \A i \in 1..Len(s) : s[i].do \in Copies => 3 \in 1..i - 1
  BY <1>3, <1>4 DEF Copies
<1> QED BY <1>0, <1>2, <1>4, <1>5, <1>6, <1>7 DEF Operation, WellFormed

\* xmux_config_save_net_param saves from the copy it stored.
LEMMA NetOperation ==
  ASSUME NEW n \in Products, NEW t \in Thread \ {"main"}
  PROVE  Operation(n, t, net_set)
<1> DEFINE s == <<AssignCopy(Net), SaveCopy(Net)>>
<1>0. net_set = s
  BY DEF net_set, xmux_config_save_net_param
<1>1. Net \in AreasOf[n] /\ Net # Psi /\ Net # Map
  BY AreasListed, Distinct DEF AreaList
<1>2. /\ s \in Seq(Steps(n, t)) /\ Len(s) = 2
      /\ s[1] = AssignCopy(Net) /\ s[2] = SaveCopy(Net)
  BY <1>1, StepKinds
<1> HIDE DEF s
<1>3. \A i \in 1..Len(s) : i = 1 \/ i = 2
  BY <1>2
<1>4. /\ s[1].do = "assign_copy" /\ s[2].do = "save_copy"
      /\ \A i \in 1..Len(s) : s[i].area = Net
  BY <1>2, <1>3, StepFields
<1>5. Covered(s)
  <2>1. Covers(s[2], Net)
    BY <1>2, StepFields DEF Covers, Saves
  <2>2. \A i \in 1..Len(s) : s[i].do \in Stores => i = 1
    BY <1>3, <1>4 DEF Stores
  <2>3. 2 \in 1 + 1..Len(s)
    BY <1>2
  <2> QED BY <2>1, <2>2, <2>3, <1>1, <1>4 DEF Covered
<1>6. CopyClean(s)
  <2>1. \A i \in 1..Len(s) : s[i].do \notin {"clear", "assign"}
    BY <1>3, <1>4
  <2>2. \A i \in 1..Len(s) : \A j \in 1..i - 1 : j \in 1..Len(s)
    BY <1>2
  <2> QED BY <1>4, <2>1, <2>2 DEF CopyClean
<1>7. \A i \in 1..Len(s) : s[i].do \in Copies => 1 \in 1..i - 1
  BY <1>3, <1>4 DEF Copies
<1> QED BY <1>0, <1>2, <1>4, <1>5, <1>6, <1>7 DEF Operation, WellFormed

\* The steps of every operation of the agent and the front panel are well-formed.
LEMMA Operations ==
  ASSUME chans \in Products, NEW t \in Thread \ {"main"}
  PROVE  /\ \A known \in BOOLEAN : Operation(chans, t, pid_trans_set(known))
         /\ \A known \in BOOLEAN : Operation(chans, t, cmd_out_rate(known))
         /\ Operation(chans, t, net_set)
         /\ Operation(chans, t, user_set)
         /\ Operation(chans, t, apply_psi_set)
         /\ Operation(chans, t, mux_program_info_get)
         /\ Operation(chans, t, mux_program_info_set)
         /\ Operation(chans, t, misc_set)
         /\ Operation(chans, t, tunner_param_set)
         /\ Operation(chans, t, apply_pid_map_table_and_psi)
         /\ Operation(chans, t, reset_net)
<1>0. /\ {Sys, Net, User, Misc, Mux} \subseteq AreasOf[chans]
      /\ \A a \in {Sys, Net, User, Misc, Mux} : a # Psi /\ a # Map
      /\ chans = 1 => Tunner \in AreasOf[chans] /\ Tunner # Psi /\ Tunner # Map
  BY AreasListed, Distinct DEF AreaList
<1>1. /\ Plain(chans, t, set_output_bitrate)
      /\ \A known \in BOOLEAN : Plain(chans, t, set_packet_format(known))
  <2>1. Plain(chans, t, <<Assign(Sys), Save(Sys)>>)
    BY <1>0, StoreAndSave
  <2> QED BY <2>1, EmptyPlain DEF set_output_bitrate, set_packet_format
<1>2. \A known \in BOOLEAN : Operation(chans, t, pid_trans_set(known))
  BY <1>1, MapOperation, OperationConcat DEF pid_trans_set
<1>3. \A known \in BOOLEAN : Operation(chans, t, cmd_out_rate(known))
  BY <1>1, PlainConcat, PlainOperation DEF cmd_out_rate
<1>4. Operation(chans, t, net_set)
  BY NetOperation
<1>5. Operation(chans, t, user_set) /\ Operation(chans, t, misc_set)
  BY <1>0, StoreAndSave, PlainOperation DEF user_set, misc_set
<1>6. Operation(chans, t, tunner_param_set)
  BY <1>0, StoreAndSave, EmptyPlain, PlainOperation DEF tunner_param_set
<1>7. Plain(chans, t, <<Save(Mux)>>)
  <2>1. Save(Mux) \in Steps(chans, t)
    BY <1>0, StepKinds
  <2> QED BY <2>1, OnePlain, StepFields DEF Stores, Copies
<1>8. Operation(chans, t, mux_program_info_get)
  BY <1>7, PlainOperation DEF mux_program_info_get
<1>9. Operation(chans, t, mux_program_info_set)
  <2> DEFINE s == <<Assign(Mux)>>
  <2>1. s \in Seq(Steps(chans, t)) /\ Len(s) = 1 /\ s[1] = Assign(Mux)
    BY <1>0, StepKinds
  <2> HIDE DEF s
  <2>2. \A i \in 1..Len(s) : s[i].do = "assign" /\ s[i].area = Mux
    BY <2>1, StepFields
  <2>3. Plain(chans, t, s)
    BY <2>1, <2>2, Distinct DEF Plain, Covered, Copies
  <2> QED BY <2>3, PlainOperation DEF mux_program_info_set, s
<1>10. /\ Plain(chans, t, IF chans # 1 THEN psi_gen_output_psi ELSE <<>>)
       /\ Plain(chans, t, IF chans = 1 THEN xmux_config_save_input_pmt_section ELSE <<>>)
  BY PsiGenPlain, PmtPlain, EmptyPlain
<1>11. Operation(chans, t, apply_psi_set)
  <2> DEFINE s1 == IF chans # 1 THEN psi_gen_output_psi ELSE <<>>
             s2 == each(Assign, TransAreas) \o <<Request("trans")>>
             s3 == IF chans = 1 THEN xmux_config_save_input_pmt_section ELSE <<>>
  <2>1. apply_psi_set = (s1 \o s2) \o s3
    BY DEF apply_psi_set
  <2>2. Plain(chans, t, s1) /\ Plain(chans, t, s2) /\ Plain(chans, t, s3)
    BY <1>10, RequestTransPlain
  <2> HIDE DEF s1, s2, s3
  <2>3. Plain(chans, t, s1 \o s2)
    BY <2>2, PlainConcat
  <2>4. Plain(chans, t, (s1 \o s2) \o s3)
    BY <2>2, <2>3, PlainConcat
  <2> QED BY <2>1, <2>4, PlainOperation
<1>12. Operation(chans, t, apply_pid_map_table_and_psi)
  BY <1>10, <1>7, AssignTransPlain, MuxMapOperation, OperationConcat DEF apply_pid_map_table_and_psi
<1>13. Operation(chans, t, reset_net)
  <2> DEFINE s1 == <<Assign(Net), Save(Net)>>
             s2 == <<Assign(User), Save(User)>>
             s3 == <<Assign(Sys), Save(Sys)>>
  <2>1. reset_net = (s1 \o s2) \o s3
    BY DEF reset_net
  <2>2. Plain(chans, t, s1) /\ Plain(chans, t, s2) /\ Plain(chans, t, s3)
    BY <1>0, StoreAndSave
  <2> HIDE DEF s1, s2, s3
  <2>3. Plain(chans, t, s1 \o s2)
    BY <2>2, PlainConcat
  <2>4. Plain(chans, t, (s1 \o s2) \o s3)
    BY <2>2, <2>3, PlainConcat
  <2> QED BY <2>1, <2>4, PlainOperation
<1> QED BY <1>2, <1>3, <1>4, <1>5, <1>6, <1>8, <1>9, <1>11, <1>12, <1>13

\* A turn of the main loop, and the writes of defaults after a load.
LEMMA MainSteps ==
  ASSUME chans \in Products
  PROVE  /\ Plain(chans, "main", main_pass)
         /\ \A a \in {Sys, Net, User} : Plain(chans, "main", <<Save(a)>>)
<1>0. "main" \in Thread
  BY DEF Thread
<1>1. \A f \in Flags : (f = "pmt" => chans = 1) => Plain(chans, "main", <<Check(f)>>)
  <2> SUFFICES ASSUME NEW f \in Flags, f = "pmt" => chans = 1 PROVE Plain(chans, "main", <<Check(f)>>)
    OBVIOUS
  <2>1. Check(f) \in Steps(chans, "main")
    BY <1>0, StepKinds
  <2> QED BY <2>1, OnePlain, StepFields DEF Stores, Copies
<1>2. <<Check("psi"), Check("trans")>> = <<Check("psi")>> \o <<Check("trans")>>
  OBVIOUS
<1>3. Plain(chans, "main", <<Check("psi"), Check("trans")>>)
  BY <1>1, <1>2, PlainConcat, FlagNames, ZenonT(60)
<1>4. Plain(chans, "main", IF chans = 1 THEN <<Check("pmt")>> ELSE <<>>)
  BY <1>1, EmptyPlain, FlagNames
<1>5. Plain(chans, "main", main_pass)
  BY <1>3, <1>4, PlainConcat DEF main_pass
<1>6. ASSUME NEW a \in {Sys, Net, User} PROVE Plain(chans, "main", <<Save(a)>>)
  <2>1. a \in AreasOf[chans] /\ a # Psi
    BY AreasListed, Distinct DEF AreaList
  <2>2. Save(a) \in Steps(chans, "main")
    BY <1>0, <2>1, StepKinds
  <2> QED BY <2>2, OnePlain, StepFields DEF Stores, Copies
<1> QED BY <1>5, <1>6
-----------------------------------------------------------------------------
(* What a step of a thread does to what its steps promise *)

\* What the steps save after the first is what is left once it is done.
LEMMA TailCovers ==
  ASSUME NEW n, NEW t, NEW s, WellFormed(n, t, s), s # <<>>, NEW a
  PROVE  /\ CoversLater(s, a) <=> CoversAny(Tail(s), a)
         /\ CoversAny(s, a) <=> Covers(s[1], a) \/ CoversLater(s, a)
<1>1. /\ Len(s) \in Nat /\ Len(s) >= 1 /\ Len(Tail(s)) = Len(s) - 1
      /\ \A i \in 1..Len(s) - 1 : Tail(s)[i] = s[i + 1]
  BY TailWellFormed
<1> DEFINE T == Tail(s)
<1> HIDE DEF T
<1>2. ASSUME NEW i \in 2..Len(s), Covers(s[i], a) PROVE CoversAny(T, a)
  <2>1. i - 1 \in 1..Len(T) /\ T[i - 1] = s[i]
    <3>1. i - 1 \in 1..Len(s) - 1 /\ i - 1 + 1 = i
      BY <1>1
    <3> QED BY <3>1, <1>1 DEF T
  <2> QED BY <2>1, <1>2 DEF CoversAny
<1>3. ASSUME NEW i \in 1..Len(T), Covers(T[i], a) PROVE CoversLater(s, a)
  <2>1. i + 1 \in 2..Len(s) /\ T[i] = s[i + 1]
    BY <1>1 DEF T
  <2> QED BY <2>1, <1>3 DEF CoversLater
<1>4. \A i \in 1..Len(s) : i = 1 \/ i \in 2..Len(s)
  BY <1>1
<1>5. \A i \in 2..Len(s) : i \in 1..Len(s)
  BY <1>1
<1>6. 1 \in 1..Len(s)
  BY <1>1
<1>7. CoversLater(s, a) <=> CoversAny(T, a)
  BY <1>2, <1>3 DEF CoversLater, CoversAny
<1>8. CoversAny(s, a) <=> Covers(s[1], a) \/ CoversLater(s, a)
  BY <1>4, <1>5, <1>6 DEF CoversLater, CoversAny
<1> QED BY <1>7, <1>8 DEF T

\* A store is followed by what saves it and, for the pid map, by its application.
LEMMA StoreCovered ==
  ASSUME NEW n, NEW t, NEW s, WellFormed(n, t, s), s # <<>>, s[1].do \in Stores
  PROVE  /\ s[1].area # Mux => CoversLater(s, s[1].area)
         /\ s[1].area = Map => HasApply(Tail(s))
<1>1. /\ Len(s) \in Nat /\ Len(s) >= 1 /\ Len(Tail(s)) = Len(s) - 1
      /\ \A i \in 1..Len(s) - 1 : Tail(s)[i] = s[i + 1]
  BY TailWellFormed
<1>2. 1 \in 1..Len(s) /\ 1 + 1 = 2
  BY <1>1
<1>3. /\ s[1].area # Mux => \E j \in 2..Len(s) : Covers(s[j], s[1].area)
      /\ s[1].area = Map => \E j \in 2..Len(s) : s[j].do = "apply"
  BY <1>2 DEF WellFormed, Covered
<1>4. ASSUME NEW j \in 2..Len(s) PROVE j - 1 \in 1..Len(Tail(s)) /\ Tail(s)[j - 1] = s[j]
  <2>1. j - 1 \in 1..Len(s) - 1 /\ j - 1 + 1 = j
    BY <1>1
  <2> QED BY <2>1, <1>1
<1> QED BY <1>3, <1>4 DEF CoversLater, HasApply

\* An application that is not the first step is still to come.
LEMMA TailApply ==
  ASSUME NEW n, NEW t, NEW s, WellFormed(n, t, s), s # <<>>, HasApply(s), s[1].do # "apply"
  PROVE  HasApply(Tail(s))
<1>1. /\ Len(s) \in Nat /\ Len(s) >= 1 /\ Len(Tail(s)) = Len(s) - 1
      /\ \A i \in 1..Len(s) - 1 : Tail(s)[i] = s[i + 1]
  BY TailWellFormed
<1>2. PICK j \in 1..Len(s) : s[j].do = "apply"
  BY DEF HasApply
<1>3. j - 1 \in 1..Len(s) - 1 /\ j - 1 + 1 = j
  BY <1>1, <1>2
<1>4. j - 1 \in 1..Len(Tail(s)) /\ Tail(s)[j - 1] = s[j]
  BY <1>1, <1>3
<1> QED BY <1>2, <1>4 DEF HasApply

\* The local copy behind a store, and behind any other step.
LEMMA TailReady ==
  ASSUME NEW n, NEW t, NEW s, WellFormed(n, t, s), s # <<>>, NEW a, Ready(Tail(s), a)
  PROVE  /\ s[1].do = "assign_copy" => s[1].area = a
         /\ s[1].do \in {"clear", "assign"} => s[1].area # a
         /\ s[1].do # "assign_copy" => Ready(s, a)
<1>1. /\ Len(s) \in Nat /\ Len(s) >= 1 /\ Len(Tail(s)) = Len(s) - 1
      /\ \A i \in 1..Len(s) - 1 : Tail(s)[i] = s[i + 1]
  BY TailWellFormed
<1> DEFINE T == Tail(s)
<1> HIDE DEF T
<1>2. PICK i \in 1..Len(T) : /\ T[i].do \in Copies /\ T[i].area = a
                            /\ \A j \in 1..i - 1 : T[j].do # "assign_copy"
  BY DEF Ready, T
<1>3. i + 1 \in 1..Len(s) /\ s[i + 1] = T[i] /\ 1 \in 1..(i + 1) - 1
  BY <1>1 DEF T
<1>4. \A j \in 1..(i + 1) - 1 : j = 1 \/ (j - 1 \in 1..i - 1 /\ s[j] = T[j - 1])
  <2> TAKE j \in 1..(i + 1) - 1
  <2>1. j = 1 \/ (j - 1 \in 1..i - 1 /\ j - 1 \in 1..Len(s) - 1 /\ j - 1 + 1 = j)
    BY <1>1 DEF T
  <2> QED BY <2>1, <1>1 DEF T
<1>5. CopyClean(s)
  BY DEF WellFormed
<1>6. /\ s[1].do = "assign_copy" => s[1].area = a
      /\ s[1].do \in {"clear", "assign"} => s[1].area # a
  BY <1>2, <1>3, <1>5 DEF CopyClean
<1>7. ASSUME s[1].do # "assign_copy" PROVE Ready(s, a)
  <2>1. \A j \in 1..(i + 1) - 1 : s[j].do # "assign_copy"
    BY <1>2, <1>4, <1>7
  <2> QED BY <2>1, <1>2, <1>3 DEF Ready
<1> QED BY <1>6, <1>7

\* A first step that uses a copy uses one made before.
LEMMA HeadReady ==
  ASSUME NEW n, NEW t, NEW s, WellFormed(n, t, s), s # <<>>, s[1].do \in Copies
  PROVE  Ready(s, s[1].area)
<1>1. Len(s) \in Nat /\ Len(s) >= 1
  BY TailWellFormed
<1>2. 1 \in 1..Len(s) /\ \A j \in 1..1 - 1 : FALSE
  BY <1>1
<1> QED BY <1>2 DEF Ready

\* A whole operation uses no copy made before it.
LEMMA OperationNotReady ==
  ASSUME NEW n, NEW t, NEW s, Operation(n, t, s), NEW a
  PROVE  ~Ready(s, a)
  BY DEF Operation, Ready

\* A thread without steps promises nothing.
LEMMA EmptySteps ==
  /\ \A n, t : WellFormed(n, t, <<>>)
  /\ \A a : ~CoversAny(<<>>, a) /\ ~CoversLater(<<>>, a) /\ ~Ready(<<>>, a)
  /\ ~HasApply(<<>>)
  BY DEF WellFormed, Covered, CopyClean, CoversAny, CoversLater, Ready, HasApply

\* The steps put in front of others promise what both promise.
LEMMA ConcatCovers ==
  ASSUME NEW n, NEW t, NEW s1, NEW s2, Plain(n, t, s1), WellFormed(n, t, s2), NEW a,
         CoversAny(s1, a) \/ CoversAny(s2, a)
  PROVE  CoversAny(s1 \o s2, a)
<1> DEFINE u == s1 \o s2
           S == Steps(n, t)
<1>0. s1 \in Seq(S) /\ s2 \in Seq(S)
  BY DEF Plain, WellFormed
<1> HIDE DEF S
<1>1. /\ \A i \in 1..Len(s1) : i \in 1..Len(u) /\ u[i] = s1[i]
      /\ \A i \in 1..Len(s2) : Len(s1) + i \in 1..Len(u) /\ u[Len(s1) + i] = s2[i]
  BY <1>0, Positions
<1> HIDE DEF u
<1>2. CoversAny(u, a)
  BY <1>1 DEF CoversAny
<1> QED BY <1>2 DEF u
-----------------------------------------------------------------------------
(* Values and pages *)

\* Factory values and torn ones fit every area.
LEMMA GoodValues ==
  ASSUME NEW a
  PROVE  /\ Default \in Good(a) /\ Torn \in Good(a) /\ Default.ok
         /\ Good(a) \subseteq Value /\ \A ok \in BOOLEAN : Factory(ok) \in Good(a)
<1>0. PsiPages \in Nat \ {0}
  BY ConfigAssumption
<1>1. \A ok \in BOOLEAN : Factory(ok) \in Value /\ Factory(ok).n = 1 /\ Factory(ok).full = FALSE
  BY <1>0 DEF Factory, Value
<1>2. Default \in Value /\ Default.n = 1 /\ Default.full = FALSE /\ Default.ok
  BY <1>0 DEF Default, Factory, Value
<1>3. Torn \in Value /\ Torn.n = 1 /\ Torn.full = FALSE
  BY <1>0 DEF Torn, Value
<1> QED BY <1>1, <1>2, <1>3 DEF Good

\* What an operation stores fits its area.
LEMMA FreshGood ==
  ASSUME NEW t \in {"agent", "fp"}, NEW a, stamp[a] \in Nat, NEW x \in Fresh(t, a)
  PROVE  x \in Good(a)
<1>0. PsiPages \in Nat \ {0} /\ Lengths[t] \subseteq {1, PsiPages}
  BY ConfigAssumption
<1> DEFINE K == IF a = Psi THEN Lengths[t] ELSE {1}
           O == IF t = "agent" /\ a \in {Trans(c) : c \in Rejected} THEN BOOLEAN ELSE {TRUE}
<1>1. x \in [v : {stamp[a] + 1}, n : K, full : BOOLEAN, ok : O] /\ (x.full <=> a = Map \/ x.n > 1)
  BY Zenon DEF Fresh
<1>2. O \subseteq BOOLEAN
  BY Zenon
<1>3. K \subseteq 1..PsiPages /\ \A k \in K : (a # Psi => k = 1) /\ (k > 1 => a = Psi /\ k = PsiPages)
  BY <1>0
<1>4. stamp[a] + 1 \in Nat
  OBVIOUS
<1> HIDE DEF K, O
<1>5. x \in Value /\ x.n \in K
  BY <1>1, <1>2, <1>3, <1>4 DEF Value
<1> QED BY <1>1, <1>3, <1>5 DEF Good
-----------------------------------------------------------------------------
(* Facts of a state that satisfies the invariant *)

\* The areas of this product, and the constants.
LEMMA AreaFacts ==
  ASSUME Typed
  PROVE  /\ Areas = AreaList(chans) /\ Areas = AreasOf[chans] /\ Pad \notin Areas
         /\ {Sys, Net, User, Map, Psi, Mux} \subseteq Areas
         /\ PsiPages \in Nat \ {0} /\ TRY_MAX \in Nat /\ MaxOps \in Nat /\ MaxFaults \in Nat
<1>1. chans \in Products
  BY DEF Typed
<1>2. Areas = AreaList(chans) /\ Areas = AreasOf[chans]
  BY <1>1, AreasListed DEF Areas
<1>3. Pad \notin Areas
  BY <1>1, <1>2 DEF AreasOf
<1>4. {Sys, Net, User, Map, Psi, Mux} \subseteq Areas
  BY <1>2 DEF AreaList
<1> QED BY <1>2, <1>3, <1>4, ConfigAssumption

\* The first step of a thread that has something to do.
LEMMA HeadFacts ==
  ASSUME Typed, ScriptsOK, Quiet, NEW t \in Thread, ~Idle(t)
  PROVE  /\ script[t] # <<>> /\ Head(script[t]) = script[t][1]
         /\ WellFormed(chans, t, script[t]) /\ Head(script[t]) \in Steps(chans, t)
         /\ up # "off"
<1>1. script[t] # <<>> /\ WellFormed(chans, t, script[t])
  BY DEF Idle, ScriptsOK
<1>2. Head(script[t]) = script[t][1] /\ Head(script[t]) \in Steps(chans, t)
  BY <1>1, TailWellFormed
<1> QED BY <1>1, <1>2 DEF Quiet

\* What is known of a step by its kind and its area.
LEMMA StepFacts ==
  ASSUME NEW n, NEW t, NEW h \in Steps(n, t)
  PROVE  /\ h.do \in Stores \cup Saves \cup {"apply"} => h.area \in AreasOf[n]
         /\ h.do \in {"request", "check"} => h.area \in FlagAreas
         /\ h.do \in Saves /\ h.area = Psi => t = "main" /\ h.do = "save"
         /\ h.do \in {"save_copy", "assign_copy"} => h.area # Psi
         /\ h.do = "apply" => h.area = Map
         /\ t = "main" => h.do \notin Copies \cup Stores
         /\ h.do = "check" => t = "main"
         /\ h.do \in {"request", "check"} /\ h.area = Pmt => n = 1
         /\ h.do \in Stores /\ h.area = Map => h.do = "assign_copy"
  BY DEF Steps

\* What a save would write: what memory holds, or the local copy of it.
LEMMA SourceFacts ==
  ASSUME Typed, ScriptsOK, Quiet, CopiesOK, NEW t \in Thread, ~Idle(t),
         Head(script[t]).do \in Saves
  PROVE  LET a == Head(script[t]).area IN
         /\ a \in Areas /\ Source(t) \in Good(a)
         /\ a \notin crossed => Source(t) = ram[a]
         /\ a = Psi => t = "main" /\ Source(t) = ram[a]
         /\ Source(t).n = ram[a].n /\ Source(t).n \in 1..PsiPages /\ (a # Psi => Source(t).n = 1)
         /\ Source(t).full \in BOOLEAN
         /\ Source(t).full => a = Map \/ (a = Psi /\ Source(t).n = PsiPages)
<1> DEFINE h == Head(script[t])
           a == h.area
<1>1. /\ script[t] # <<>> /\ h = script[t][1] /\ WellFormed(chans, t, script[t])
      /\ h \in Steps(chans, t)
  BY HeadFacts
<1>2. a \in Areas /\ (a = Psi => t = "main" /\ h.do = "save") /\ ram[a] \in Good(a)
  BY <1>1, StepFacts, AreaFacts, SMTT(60) DEF Typed
<1>3. Source(t) = IF h.do = "save_copy" THEN buf[t] ELSE ram[a]
  BY DEF Source, Target
<1>4. h.do = "save_copy" => Ready(script[t], a)
  BY <1>1, HeadReady DEF Copies
<1>5. h.do = "save_copy" => buf[t] \in Good(a) /\ (a \notin crossed => buf[t] = ram[a])
  BY <1>2, <1>4 DEF CopiesOK
<1>6. /\ Source(t) \in Good(a) /\ (a \notin crossed => Source(t) = ram[a])
      /\ (a = Psi => Source(t) = ram[a])
  BY <1>2, <1>3, <1>5
<1>7. \A x \in Good(a) : /\ x.n \in 1..PsiPages /\ (a # Psi => x.n = 1) /\ x.full \in BOOLEAN
                         /\ x.full => a = Map \/ (a = Psi /\ x.n = PsiPages)
  BY DEF Good, Value
<1>8. Source(t).n = ram[a].n
  <2>1. CASE a = Psi
    BY <2>1, <1>6
  <2>2. CASE a # Psi
    BY <2>2, <1>2, <1>6, <1>7
  <2> QED BY <2>1, <2>2
<1> QED BY <1>2, <1>6, <1>7, <1>8
-----------------------------------------------------------------------------
(* What several actions have in common *)

\* Thread t has done the first of its steps.
LEMMA TailScripts ==
  ASSUME Typed, ScriptsOK, Quiet, NEW t \in Thread, ~Idle(t), NextStep(t), chans' = chans, up' = up
  PROVE  /\ ScriptsOK' /\ Quiet'
         /\ script'[t] = Tail(script[t]) /\ \A u \in Thread \ {t} : script'[u] = script[u]
<1>1. script' = [script EXCEPT ![t] = Tail(script[t])] /\ DOMAIN script = Thread
  BY DEF NextStep, ScriptsOK
<1>2. script'[t] = Tail(script[t]) /\ \A u \in Thread \ {t} : script'[u] = script[u]
  BY <1>1
<1>3. WellFormed(chans, t, Tail(script[t])) /\ up # "off"
  BY HeadFacts, TailWellFormed
<1>4. DOMAIN script' = Thread
  BY <1>1
<1> QED BY <1>2, <1>3, <1>4 DEF ScriptsOK, Quiet

\* What waits to be saved still does, unless t's first step was to see to it.
LEMMA TailPending ==
  ASSUME Typed, ScriptsOK, Quiet, NEW t \in Thread, ~Idle(t), NextStep(t), chans' = chans, up' = up,
         \A u \in Thread \ {t} : Calling(u)' <=> Calling(u), ~Calling(t)',
         flag' = flag, NEW a, Pending(a), Calling(t) \/ ~Covers(script[t][1], a)
  PROVE  Pending(a)'
<1>1. script'[t] = Tail(script[t]) /\ \A u \in Thread \ {t} : script'[u] = script[u]
  BY TailScripts
<1>2. CASE a[1] \in Flags /\ flag[a[1]]
  BY <1>2 DEF Pending
<1>3. ASSUME NEW u \in Thread \ {t}, Waits(a, u) PROVE Pending(a)'
  <2>1. Waits(a, u)'
    BY <1>1, <1>3 DEF Waits
  <2> QED BY <2>1 DEF Pending
<1>4. CASE Waits(a, t)
  <2>1. script[t] # <<>> /\ WellFormed(chans, t, script[t])
    BY HeadFacts
  <2>2. CoversAny(Tail(script[t]), a)
    BY <2>1, <1>4, TailCovers DEF Waits
  <2>3. Waits(a, t)'
    BY <2>2, <1>1 DEF Waits
  <2> QED BY <2>3 DEF Pending
<1> QED BY <1>2, <1>3, <1>4 DEF Pending

\* Copies stay good when a step that makes none is done.
LEMMA TailCopies ==
  ASSUME Typed, ScriptsOK, Quiet, CopiesOK, NEW t \in Thread, ~Idle(t), NextStep(t),
         chans' = chans, up' = up, buf' = buf, ram' = ram, crossed' = crossed,
         Head(script[t]).do # "assign_copy"
  PROVE  CopiesOK'
<1>1. script'[t] = Tail(script[t]) /\ \A u \in Thread \ {t} : script'[u] = script[u]
  BY TailScripts
<1>2. /\ script[t] # <<>> /\ Head(script[t]) = script[t][1] /\ WellFormed(chans, t, script[t])
  BY HeadFacts
<1>3. ASSUME NEW a, Ready(Tail(script[t]), a) PROVE Ready(script[t], a)
  BY <1>2, <1>3, TailReady
<1>4. \A u \in Thread : \A a : Ready(script'[u], a) => Ready(script[u], a)
  BY <1>1, <1>3
<1>5. Areas' = Areas
  BY DEF Areas
<1> QED BY <1>4, <1>5 DEF CopiesOK

\* A pid map waits for its application as long as that is not the step done.
LEMMA TailMapApplied ==
  ASSUME Typed, ScriptsOK, Quiet, MapApplied, NEW t \in Thread, ~Idle(t), NextStep(t),
         chans' = chans, up' = up, fpga' = fpga, ram' = ram, crossed' = crossed,
         Head(script[t]).do # "apply"
  PROVE  MapApplied'
<1>1. script'[t] = Tail(script[t]) /\ \A u \in Thread \ {t} : script'[u] = script[u]
  BY TailScripts
<1>2. /\ script[t] # <<>> /\ Head(script[t]) = script[t][1] /\ WellFormed(chans, t, script[t])
  BY HeadFacts
<1>3. HasApply(script[t]) => HasApply(Tail(script[t]))
  BY <1>2, TailApply
<1>4. \A u \in Thread : HasApply(script[u]) => HasApply(script'[u])
  BY <1>1, <1>3
<1> QED BY <1>4 DEF MapApplied

\* Calls that go on unchanged.
LEMMA CallFrame ==
  ASSUME NEW u, CallOK(u), wr'[u] = wr[u], Calling(u) => Head(script'[u]) = Head(script[u]) /\ script'[u] # <<>>,
         wr[u].area \in damaged => wr[u].area \in damaged'
  PROVE  CallOK(u)'
  BY DEF CallOK, Calling

\* Memory and EEPROM still agree on an area when neither changes it.
LEMMA ConsistentFrame ==
  ASSUME NEW a, Consistent(a), chans' = chans, dev' = dev, ram'[a] = ram[a]
  PROVE  Consistent(a)'
  BY DEF Consistent, Intact, Loaded, Head1, Offset

\* A save under way is still under way when neither calls nor memory change.
LEMMA InProgressFrame ==
  ASSUME NEW a, InProgress(a), wr' = wr, ram'[a] = ram[a]
  PROVE  InProgress(a)'
  BY DEF InProgress, Calling

\* Typing does not depend on the steps.
LEMMA PagesFrame ==
  ASSUME PagesOwn, chans' = chans, dev' = dev
  PROVE  PagesOwn'
  BY DEF PagesOwn
-----------------------------------------------------------------------------
(* One lemma per action *)

\* Before the first start of the device.
LEMMA InitKeeps == Init => IInv
<1> SUFFICES ASSUME Init PROVE IInv
  OBVIOUS
<1>0. chans \in Products
  BY DEF Init
<1>1. Areas = AreaList(chans) /\ Areas = AreasOf[chans] /\ Sys \in Areas
  BY <1>0, AreasListed DEF Areas, AreaList
<1>2. PsiPages \in Nat \ {0} /\ TRY_MAX \in Nat /\ MaxOps \in Nat /\ MaxFaults \in Nat
  BY ConfigAssumption
<1>3. \A a \in Areas : Default \in Good(a) /\ Default \in Value
  BY GoodValues
<1> DEFINE L == Layout[chans]
<1>4. PICK ok \in BOOLEAN : dev = [p \in DOMAIN L |->
         IF L[p] = Pad THEN Garbage(Pad)
         ELSE PageOf(L[p], 1, Factory(ok \/ L[p] \notin {Sys, Net, User}))]
  BY Zenon DEF Init
<1>5. \A p \in DOMAIN L : L[p] # Pad => L[p] \in Areas
  BY <1>0, <1>1 DEF AreasOf, Range
<1>6. \A p \in DOMAIN L : (ok \/ L[p] \notin {Sys, Net, User}) \in BOOLEAN
  BY Zenon
<1> HIDE DEF L
<1>7. ASSUME NEW p \in DOMAIN L
      PROVE  /\ dev[p] \in Page
             /\ L[p] # Pad => dev[p].area = L[p] /\ dev[p].val \in Good(L[p])
  <2>1. CASE L[p] = Pad
    <3>1. dev[p] = [area |-> Pad, i |-> 0, val |-> Torn]
      BY <2>1, <1>4 DEF Garbage, PageOf
    <3>2. Torn \in Value /\ 0 \in 0..PsiPages
      BY GoodValues, <1>2
    <3> QED BY <2>1, <3>1, <3>2 DEF Page
  <2>2. CASE L[p] # Pad
    <3> DEFINE b == ok \/ L[p] \notin {Sys, Net, User}
    <3>0. b \in BOOLEAN
      BY <1>6
    <3>1. dev[p] = [area |-> L[p], i |-> 1, val |-> Factory(b)]
      BY <2>2, <1>4 DEF PageOf
    <3> HIDE DEF b
    <3>2. Factory(b) \in Good(L[p]) /\ Factory(b) \in Value /\ 1 \in 0..PsiPages
      BY <3>0, GoodValues, <1>2
    <3> QED BY <2>2, <3>1, <3>2, <1>5 DEF Page
  <2> QED BY <2>1, <2>2
<1>8. dev \in [DOMAIN L -> Page]
  BY <1>4, <1>7
<1>9. Typed
  <2>1. /\ ram \in [Areas -> Value] /\ \A a \in Areas : ram[a] \in Good(a)
        /\ fpga \in Value /\ buf \in [Thread -> Value]
    BY <1>1, <1>3 DEF Init
  <2>2. busy \in BOOLEAN /\ race \in BOOLEAN
    BY Zenon DEF Init
  <2>3. flag \in [Flags -> BOOLEAN]
    BY DEF Init
  <2>4. /\ up \in {"off", "booting", "up"} /\ stamp \in [Areas -> Nat]
        /\ ops \in 0..MaxOps /\ faults \in 0..MaxFaults
        /\ crossed \subseteq Areas /\ damaged \subseteq Areas
    BY <1>2 DEF Init
  <2> QED BY <1>0, <1>8, <2>1, <2>2, <2>3, <2>4 DEF Typed, L
<1>10. PagesOwn
  BY <1>7 DEF PagesOwn, L
<1>11. DOMAIN script = Thread /\ \A t \in Thread : script[t] = <<>>
  BY DEF Init
<1>12. ScriptsOK
  BY <1>11, EmptySteps DEF ScriptsOK
<1>13. NoWrite \in Write /\ NoWrite.at = "none"
  BY <1>1, <1>2, GoodValues DEF NoWrite, Write
<1>14. wr \in [Thread -> Write] /\ \A t \in Thread : wr[t].at = "none"
  BY <1>13 DEF Init
<1>15. CallsOK /\ OneInside
  BY <1>14 DEF CallsOK, CallOK, Calling, OneInside, Inside
<1>16. CopiesOK
  BY <1>11, EmptySteps DEF CopiesOK
<1>17. "main" \in Thread /\ up = "off"
  BY DEF Thread, Init
<1>18. LengthOK /\ Follows /\ MapApplied /\ Quiet
  BY <1>11, <1>14, <1>17 DEF LengthOK, Calling, Follows, MapApplied, Quiet
<1> QED BY <1>9, <1>10, <1>12, <1>15, <1>16, <1>18 DEF IInv

\* An idle thread gets the steps of an operation.
LEMMA OperationKeeps ==
  ASSUME IInv, NEW t \in Thread, NEW steps, Operation(chans, t, steps), Idle(t), up = "up",
         script' = [script EXCEPT ![t] = steps], ops' \in 0..MaxOps,
         UNCHANGED <<chans, dev, busy, ram, flag, fpga, wr, buf, up, stamp, faults, history>>
  PROVE  IInv'
<1>0. /\ Typed /\ PagesOwn /\ ScriptsOK /\ CallsOK /\ OneInside
      /\ CopiesOK /\ LengthOK /\ Follows /\ MapApplied /\ Quiet
  BY DEF IInv
<1>1. /\ chans' = chans /\ dev' = dev /\ busy' = busy /\ ram' = ram /\ flag' = flag /\ fpga' = fpga
      /\ wr' = wr /\ buf' = buf /\ up' = up /\ stamp' = stamp /\ faults' = faults /\ race' = race
      /\ crossed' = crossed /\ damaged' = damaged
  BY DEF history
<1>2. Areas' = Areas /\ Page' = Page
  BY <1>1 DEF Areas, Page
<1>3. Typed'
  BY <1>0, <1>1, <1>2 DEF Typed
<1>4. PagesOwn'
  BY <1>0, <1>1, PagesFrame
<1>5. /\ DOMAIN script' = Thread /\ script'[t] = steps /\ script[t] = <<>>
      /\ \A u \in Thread \ {t} : script'[u] = script[u]
  BY <1>0 DEF ScriptsOK, Idle
<1>6. ScriptsOK'
  BY <1>0, <1>1, <1>5 DEF ScriptsOK, Operation
<1>7. ~Calling(t)
  BY <1>0, <1>5 DEF CallsOK, CallOK
<1>8. \A u \in Thread : CallOK(u)'
  <2> TAKE u \in Thread
  <2>1. CallOK(u)
    BY <1>0 DEF CallsOK
  <2>2. Calling(u) => u # t /\ script[u] # <<>>
    BY <2>1, <1>7 DEF CallOK
  <2>3. Calling(u) => Head(script'[u]) = Head(script[u]) /\ script'[u] # <<>>
    BY <2>2, <1>5
  <2> QED BY <2>1, <2>3, <1>1, CallFrame
<1>9. CallsOK' /\ OneInside'
  <2>1. Write' = Write
    BY <1>2 DEF Write
  <2> QED BY <1>0, <1>1, <1>8, <2>1 DEF CallsOK, OneInside, Inside
<1>10. CopiesOK'
  <2>1. \A a : ~Ready(script'[t], a)
    BY <1>5, OperationNotReady
  <2> QED BY <1>0, <1>1, <1>2, <1>5, <2>1 DEF CopiesOK
<1>11. ASSUME NEW a, Pending(a) PROVE Pending(a)'
  <2>1. ASSUME NEW u \in Thread, Waits(a, u) PROVE Waits(a, u)'
    <3>1. u # t
      BY <2>1, <1>5, <1>7, EmptySteps DEF Waits
    <3> QED BY <2>1, <3>1, <1>1, <1>5 DEF Waits, Calling
  <2> QED BY <1>11, <2>1, <1>1 DEF Pending
<1>12. LengthOK'
  BY <1>0, <1>1, <1>11 DEF LengthOK, Calling
<1>13. Follows'
  BY <1>0, <1>1, <1>2, <1>11, ConsistentFrame, InProgressFrame DEF Follows
<1>14. MapApplied'
  <2>1. \A u \in Thread : HasApply(script[u]) => HasApply(script'[u])
    BY <1>5, EmptySteps
  <2> QED BY <1>0, <1>1, <2>1 DEF MapApplied
<1>15. Quiet'
  BY <1>1 DEF Quiet
<1> QED BY <1>3, <1>4, <1>6, <1>9, <1>10, <1>12, <1>13, <1>14, <1>15 DEF IInv

\* An operation is started.
LEMMA StartKeeps ==
  ASSUME IInv, NEW t \in Thread, NEW steps, Operation(chans, t, steps), Start(t, steps)
  PROVE  IInv'
<1>1. ops \in 0..MaxOps /\ MaxOps \in Nat
  BY ConfigAssumption DEF IInv, Typed
<1>2. ops' \in 0..MaxOps
  BY <1>1 DEF Start
<1> QED BY <1>2, OperationKeeps DEF Start

\* The operations of the agent and the front panel.
LEMMA CallersKeep ==
  ASSUME IInv,
         \/ PidTransSet \/ NetSet \/ UserSet \/ ApplyPsiSet \/ MuxProgramInfoGet \/ MuxProgramInfoSet
         \/ MiscSet \/ TunnerParamSet \/ FpApply \/ OutRate \/ ResetNet
  PROVE  IInv'
<1>1. chans \in Products
  BY DEF IInv, Typed
<1>2. "agent" \in Thread \ {"main"} /\ "fp" \in Thread \ {"main"} /\ {"agent", "fp"} \subseteq Thread \ {"main"}
  BY DEF Thread
<1>3. CASE PidTransSet
  BY <1>1, <1>2, <1>3, Operations, StartKeeps DEF PidTransSet
<1>4. CASE NetSet
  BY <1>1, <1>2, <1>4, Operations, StartKeeps DEF NetSet
<1>5. CASE UserSet
  BY <1>1, <1>2, <1>5, Operations, StartKeeps DEF UserSet
<1>6. CASE ApplyPsiSet
  BY <1>1, <1>2, <1>6, Operations, StartKeeps DEF ApplyPsiSet
<1>7. CASE MuxProgramInfoGet
  BY <1>1, <1>2, <1>7, Operations, StartKeeps DEF MuxProgramInfoGet
<1>8. CASE MuxProgramInfoSet
  BY <1>1, <1>2, <1>8, Operations, StartKeeps DEF MuxProgramInfoSet
<1>9. CASE MiscSet
  BY <1>1, <1>2, <1>9, Operations, StartKeeps DEF MiscSet
<1>10. CASE TunnerParamSet
  BY <1>1, <1>2, <1>10, Operations, StartKeeps DEF TunnerParamSet
<1>11. CASE FpApply
  BY <1>1, <1>2, <1>11, Operations, StartKeeps DEF FpApply
<1>12. CASE OutRate
  BY <1>1, <1>2, <1>12, Operations, StartKeeps DEF OutRate
<1>13. CASE ResetNet
  BY <1>1, <1>2, <1>13, Operations, StartKeeps DEF ResetNet
<1> QED BY <1>3, <1>4, <1>5, <1>6, <1>7, <1>8, <1>9, <1>10, <1>11, <1>12, <1>13

\* A turn of the main loop is started.
LEMMA MainPassKeeps ==
  ASSUME IInv, MainPass
  PROVE  IInv'
<1>1. chans \in Products /\ ops \in 0..MaxOps
  BY DEF IInv, Typed
<1>2. Operation(chans, "main", main_pass)
  BY <1>1, MainSteps, PlainOperation
<1>3. /\ UNCHANGED <<chans, dev, busy, ram, flag, fpga, wr, buf, up, stamp, faults, history>>
      /\ ops' \in 0..MaxOps
  BY <1>1 DEF MainPass, counters
<1>4. "main" \in Thread
  BY DEF Thread
<1> QED BY <1>2, <1>3, <1>4, OperationKeeps DEF MainPass

\* Other threads' calls go on while t, which has none, takes a step.
LEMMA OthersCall ==
  ASSUME CallsOK, NEW t \in Thread, wr[t].at = "none",
         \A u \in Thread \ {t} : script'[u] = script[u],
         chans' = chans, wr' = wr, damaged' = damaged
  PROVE  CallsOK'
<1>1. \A u \in Thread : CallOK(u)'
  <2> TAKE u \in Thread
  <2>1. CallOK(u)
    BY DEF CallsOK
  <2>2. Calling(u) => u # t /\ script[u] # <<>>
    BY <2>1 DEF CallOK, Calling
  <2>3. Calling(u) => Head(script'[u]) = Head(script[u]) /\ script'[u] # <<>>
    BY <2>2
  <2> QED BY <2>1, <2>3, CallFrame
<1>2. Write' = Write
  BY DEF Write, Areas
<1> QED BY <1>1, <1>2 DEF CallsOK

\* A store into g_eeprom_param: the save that must follow is among the steps left,
\* and who holds an older copy of the area is remembered in crossed.
LEMMA AssignRamKeeps ==
  ASSUME IInv, NEW t \in Thread, AssignRam(t)
  PROVE  IInv'
<1>0. /\ Typed /\ PagesOwn /\ ScriptsOK /\ CallsOK /\ OneInside
      /\ CopiesOK /\ LengthOK /\ Follows /\ MapApplied /\ Quiet
  BY DEF IInv
<1> DEFINE s == script[t]
           h == Head(s)
<1>a. PICK a : a = h.area
  OBVIOUS
<1>1. /\ wr[t].at = "none" /\ ~Idle(t) /\ h.do \in Stores /\ NextStep(t)
      /\ Target(t) = a
  BY <1>a DEF AssignRam, At, Stores, Target
<1>2. /\ chans' = chans /\ dev' = dev /\ busy' = busy /\ flag' = flag /\ fpga' = fpga
      /\ wr' = wr /\ up' = up /\ ops' = ops /\ faults' = faults /\ race' = race
      /\ damaged' = damaged
  BY DEF AssignRam, counters
<1>3. /\ s # <<>> /\ h = s[1] /\ WellFormed(chans, t, s) /\ h \in Steps(chans, t) /\ up # "off"
  BY <1>0, <1>1, HeadFacts
<1>4. Areas = AreasOf[chans] /\ Areas' = Areas /\ Page' = Page
  BY <1>0, <1>2, AreaFacts DEF Areas, Page
<1>5. /\ a \in Areas /\ t # "main" /\ (a = Map => h.do = "assign_copy")
      /\ (h.do = "assign_copy" => a # Psi)
  BY <1>a, <1>1, <1>3, <1>4, StepFacts
<1>6. At(t, {"clear"}) <=> h.do = "clear"
  BY <1>1 DEF At
<1>7. At(t, {"assign_copy"}) <=> h.do = "assign_copy"
  BY <1>1 DEF At
<1>8. PICK x \in (IF At(t, {"clear"}) THEN {Default} ELSE Fresh(t, a)) :
        /\ ram' = [ram EXCEPT ![a] = x]
        /\ buf' = IF At(t, {"assign_copy"}) THEN [buf EXCEPT ![t] = x] ELSE buf
  BY <1>1 DEF AssignRam
<1>9. stamp[a] \in Nat /\ stamp \in [Areas -> Nat]
  BY <1>0, <1>5 DEF Typed
<1>10. x \in Good(a) /\ x \in Value
  <2>1. t \in {"agent", "fp"}
    BY <1>5 DEF Thread
  <2>2. QED
    BY <1>8, <1>9, <2>1, GoodValues, FreshGood
<1>11. stamp' \in [Areas -> Nat]
  BY <1>1, <1>5, <1>9 DEF AssignRam
<1>12. /\ crossed' = crossed \cup {b \in {a} : \E u \in Thread \ {t} : \E i \in DOMAIN script[u] :
              script[u][i].do \in {"save_copy", "apply"} /\ script[u][i].area = b}
  BY <1>1 DEF AssignRam
<1>13. crossed \subseteq crossed' /\ crossed' \subseteq crossed \cup {a}
  BY <1>12
<1>14. /\ ram'[a] = x /\ \A b \in Areas \ {a} : ram'[b] = ram[b]
       /\ ram' \in [Areas -> Value]
  BY <1>0, <1>5, <1>8, <1>10 DEF Typed
<1>15. /\ \A u \in Thread \ {t} : buf'[u] = buf[u]
       /\ h.do = "assign_copy" => buf'[t] = x
       /\ h.do # "assign_copy" => buf'[t] = buf[t]
       /\ buf' \in [Thread -> Value]
  BY <1>0, <1>7, <1>8, <1>10 DEF Typed
<1>16. /\ script'[t] = Tail(s) /\ (\A u \in Thread \ {t} : script'[u] = script[u])
       /\ ScriptsOK' /\ Quiet'
  BY <1>0, <1>1, <1>2, TailScripts
<1> HIDE DEF s, h
<1>17. Typed'
  <2>1. \A b \in Areas : ram'[b] \in Good(b)
    BY <1>0, <1>10, <1>14 DEF Typed
  <2>2. crossed' \subseteq Areas
    BY <1>0, <1>5, <1>13 DEF Typed
  <2> QED BY <1>0, <1>2, <1>4, <1>11, <1>14, <1>15, <2>1, <2>2 DEF Typed
<1>18. PagesOwn'
  BY <1>0, <1>2, PagesFrame
<1>19. CallsOK' /\ OneInside'
  BY <1>0, <1>1, <1>2, <1>16, OthersCall DEF OneInside, Inside
<1>20. CopiesOK'
  <2> SUFFICES ASSUME NEW u \in Thread, NEW b \in Areas, Ready(script'[u], b)
               PROVE  buf'[u] \in Good(b) /\ (b \notin crossed' => buf'[u] = ram'[b])
    BY <1>4 DEF CopiesOK
  <2>1. CASE u = t
    <3>1. Ready(Tail(s), b)
      BY <2>1, <1>16
    <3>2. /\ h.do = "assign_copy" => a = b
          /\ h.do \in {"clear", "assign"} => a # b
          /\ h.do # "assign_copy" => Ready(s, b)
      BY <3>1, <1>3, <1>a, TailReady
    <3>3. CASE h.do = "assign_copy"
      BY <3>2, <3>3, <2>1, <1>10, <1>14, <1>15
    <3>4. CASE h.do # "assign_copy"
      <4>1. a # b /\ Ready(s, b)
        BY <3>2, <3>4, <1>1 DEF Stores
      <4>2. buf[t] \in Good(b) /\ (b \notin crossed => buf[t] = ram[b])
        BY <4>1, <1>0 DEF CopiesOK, s
      <4> QED BY <4>1, <4>2, <3>4, <2>1, <1>13, <1>14, <1>15
    <3> QED BY <3>3, <3>4
  <2>2. CASE u # t
    <3>1. Ready(script[u], b) /\ buf'[u] = buf[u]
      BY <2>2, <1>15, <1>16
    <3>2. buf[u] \in Good(b) /\ (b \notin crossed => buf[u] = ram[b])
      BY <3>1, <1>0 DEF CopiesOK
    <3>3. b = a => a \in crossed'
      <4> SUFFICES ASSUME b = a PROVE a \in crossed'
        OBVIOUS
      <4>1. PICK i \in 1..Len(script[u]) : script[u][i].do \in Copies /\ script[u][i].area = a
        BY <3>1 DEF Ready
      <4>2. script[u] \in Seq(Steps(chans, u))
        BY <1>0 DEF ScriptsOK, WellFormed
      <4>3. i \in DOMAIN script[u]
        BY <4>2
      <4> QED BY <4>1, <4>3, <2>2, <1>12 DEF Copies
    <3> QED BY <3>1, <3>2, <3>3, <1>13, <1>14
  <2> QED BY <2>1, <2>2
<1>21. ASSUME NEW b, Pending(b) PROVE Pending(b)'
  <2>1. ~Covers(s[1], b)
    BY <1>1, <1>3 DEF Covers, Stores, Saves
  <2>2. ~Calling(t)' /\ \A u \in Thread \ {t} : Calling(u)' <=> Calling(u)
    BY <1>1, <1>2 DEF Calling
  <2> QED BY <2>1, <2>2, <1>0, <1>1, <1>2, <1>21, TailPending DEF s
<1>22. a # Mux => Pending(a)'
  <2> HAVE a # Mux
  <2>1. CoversLater(s, a)
    BY <1>1, <1>3, <1>a, StoreCovered
  <2>2. CoversAny(Tail(s), a)
    BY <2>1, <1>3, TailCovers
  <2>3. Waits(a, t)'
    BY <2>2, <1>1, <1>2, <1>16 DEF Waits, Calling
  <2> QED BY <2>3 DEF Pending
<1>23. LengthOK'
  <2>1. CASE a = Psi
    BY <2>1, <1>22, Distinct DEF LengthOK
  <2>2. CASE a # Psi
    <3>1. ram'[Psi] = ram[Psi]
      BY <2>2, <1>14, <1>0, AreaFacts
    <3> QED BY <3>1, <1>0, <1>2, <1>21 DEF LengthOK, Calling
  <2> QED BY <2>1, <2>2
<1>24. Follows'
  <2> SUFFICES ASSUME NEW b \in Areas \ (damaged' \cup crossed' \cup {Mux}), ram'[b].ok
               PROVE  Pending(b)' \/ InProgress(b)' \/ Consistent(b)'
    BY <1>4 DEF Follows
  <2>1. CASE b = a
    BY <2>1, <1>22
  <2>2. CASE b # a
    <3>1. ram'[b] = ram[b] /\ b \notin damaged /\ b \notin crossed
      BY <2>2, <1>2, <1>13, <1>14
    <3>2. Pending(b) \/ InProgress(b) \/ Consistent(b)
      BY <3>1, <1>0, <1>3 DEF Follows
    <3> QED BY <3>1, <3>2, <1>2, <1>21, ConsistentFrame, InProgressFrame
  <2> QED BY <2>1, <2>2
<1>25. MapApplied'
  <2>1. CASE a = Map
    <3>1. HasApply(script'[t])
      BY <2>1, <1>1, <1>3, <1>16, <1>a, StoreCovered
    <3> QED BY <3>1 DEF MapApplied
  <2>2. CASE a # Map
    <3>1. ram'[Map] = ram[Map] /\ (Map \notin crossed' => Map \notin crossed)
      BY <2>2, <1>13, <1>14, <1>0, AreaFacts
    <3>2. HasApply(s) => HasApply(Tail(s))
      BY <1>1, <1>3, TailApply DEF Stores
    <3>3. \A u \in Thread : HasApply(script[u]) => HasApply(script'[u])
      BY <3>2, <1>16 DEF s
    <3> QED BY <3>1, <3>3, <1>0, <1>2 DEF MapApplied
  <2> QED BY <2>1, <2>2
<1> QED BY <1>16, <1>17, <1>18, <1>19, <1>20, <1>23, <1>24, <1>25 DEF IInv

\* A thread without a call takes a step that stores nothing and loses nothing
\* that waits to be saved.
LEMMA StepKeeps ==
  ASSUME IInv, NEW t \in Thread, wr[t].at = "none",
         \A u \in Thread \ {t} : script'[u] = script[u],
         UNCHANGED <<chans, dev, busy, ram, wr, buf, up, stamp, counters, history>>,
         fpga' \in Value, flag' \in [Flags -> BOOLEAN], ScriptsOK', CopiesOK', MapApplied', Quiet',
         \A a \in Areas : Pending(a) /\ (ram[a].ok \/ a = Psi) => Pending(a)'
  PROVE  IInv'
<1>0. /\ Typed /\ PagesOwn /\ CallsOK /\ OneInside /\ LengthOK /\ Follows
  BY DEF IInv
<1>1. /\ chans' = chans /\ dev' = dev /\ busy' = busy /\ ram' = ram /\ wr' = wr /\ buf' = buf
      /\ up' = up /\ stamp' = stamp /\ ops' = ops /\ faults' = faults /\ race' = race
      /\ crossed' = crossed /\ damaged' = damaged
  BY DEF history, counters
<1>2. Areas' = Areas /\ Page' = Page
  BY <1>1 DEF Areas, Page
<1>3. Typed' /\ PagesOwn'
  BY <1>0, <1>1, <1>2, PagesFrame DEF Typed
<1>4. CallsOK' /\ OneInside'
  BY <1>0, <1>1, OthersCall DEF OneInside, Inside
<1>5. LengthOK'
  <2>1. Psi \in Areas
    BY <1>0, AreaFacts
  <2> QED BY <2>1, <1>0, <1>1 DEF LengthOK, Calling
<1>6. Follows'
  BY <1>0, <1>1, <1>2, ConsistentFrame, InProgressFrame DEF Follows
<1> QED BY <1>3, <1>4, <1>5, <1>6 DEF IInv

\* The pid map that goes to the FPGA is the one memory holds, unless two threads
\* stored it at once.
LEMMA ApplyMapKeeps ==
  ASSUME IInv, NEW t \in Thread, ApplyMap(t)
  PROVE  IInv'
<1>0. Typed /\ ScriptsOK /\ CopiesOK /\ Quiet
  BY DEF IInv
<1>1. wr[t].at = "none" /\ ~Idle(t) /\ Head(script[t]).do = "apply" /\ NextStep(t) /\ fpga' = buf[t]
  BY DEF ApplyMap, At
<1>2. /\ UNCHANGED <<chans, dev, busy, ram, wr, buf, up, stamp, counters, history>>
      /\ chans' = chans /\ ram' = ram /\ buf' = buf /\ up' = up /\ crossed' = crossed
      /\ flag' = flag /\ wr' = wr
  BY DEF ApplyMap, history
<1>3. /\ script[t] # <<>> /\ Head(script[t]) = script[t][1] /\ WellFormed(chans, t, script[t])
      /\ Head(script[t]) \in Steps(chans, t) /\ up # "off"
  BY <1>0, <1>1, HeadFacts
<1>4. Head(script[t]).area = Map /\ Map \in Areas
  BY <1>0, <1>1, <1>3, StepFacts, AreaFacts
<1>5. Ready(script[t], Map)
  <2>1. script[t][1].do \in Copies
    BY <1>1, <1>3 DEF Copies
  <2> QED BY <2>1, <1>3, <1>4, HeadReady
<1>6. Map \notin crossed => fpga' = ram'[Map]
  BY <1>0, <1>1, <1>2, <1>4, <1>5 DEF CopiesOK
<1>7. MapApplied'
  BY <1>2, <1>6 DEF MapApplied
<1>8. /\ ScriptsOK' /\ Quiet' /\ CopiesOK' /\ \A u \in Thread \ {t} : script'[u] = script[u]
  BY <1>0, <1>1, <1>2, TailScripts, TailCopies
<1>9. fpga' \in Value /\ flag' \in [Flags -> BOOLEAN]
  BY <1>0, <1>1, <1>2 DEF Typed
<1>10. ASSUME NEW a \in Areas, Pending(a) PROVE Pending(a)'
  <2>1. ~Covers(script[t][1], a)
    BY <1>1, <1>3 DEF Covers, Saves
  <2>2. ~Calling(t)' /\ \A u \in Thread \ {t} : Calling(u)' <=> Calling(u)
    BY <1>1, <1>2 DEF Calling
  <2> QED BY <2>1, <2>2, <1>0, <1>1, <1>2, <1>10, TailPending
<1> QED BY <1>1, <1>2, <1>7, <1>8, <1>9, <1>10, StepKeeps

\* A request is remembered in its flag.
LEMMA RequestSaveKeeps ==
  ASSUME IInv, NEW t \in Thread, RequestSave(t)
  PROVE  IInv'
<1>0. Typed /\ ScriptsOK /\ CopiesOK /\ Quiet /\ MapApplied
  BY DEF IInv
<1> DEFINE h == Head(script[t])
<1>f. PICK f : f = h.area[1]
  OBVIOUS
<1>1. wr[t].at = "none" /\ ~Idle(t) /\ h.do = "request" /\ NextStep(t)
      /\ flag' = [flag EXCEPT ![f] = TRUE]
  BY <1>f DEF RequestSave, At, Target
<1>2. /\ UNCHANGED <<chans, dev, busy, ram, wr, buf, up, stamp, counters, history>>
      /\ chans' = chans /\ ram' = ram /\ buf' = buf /\ up' = up /\ crossed' = crossed
      /\ fpga' = fpga /\ wr' = wr
  BY DEF RequestSave, history
<1>3. /\ script[t] # <<>> /\ h = script[t][1] /\ WellFormed(chans, t, script[t])
      /\ h \in Steps(chans, t)
  BY <1>0, <1>1, HeadFacts
<1>4. h.area \in FlagAreas
  BY <1>1, <1>3, StepFacts
<1>5. f \in Flags /\ h.area = Area(f)
  BY <1>f, <1>4, FlagNames DEF FlagAreas
<1>6. flag \in [Flags -> BOOLEAN]
  BY <1>0 DEF Typed
<1>7. flag' \in [Flags -> BOOLEAN] /\ flag'[f] /\ \A g \in Flags : flag[g] => flag'[g]
  BY <1>1, <1>5, <1>6
<1>8. fpga' \in Value
  BY <1>0, <1>2 DEF Typed
<1>9. ScriptsOK' /\ Quiet' /\ CopiesOK' /\ MapApplied'
      /\ script'[t] = Tail(script[t]) /\ \A u \in Thread \ {t} : script'[u] = script[u]
  BY <1>0, <1>1, <1>2, TailScripts, TailCopies, TailMapApplied
<1>10. ASSUME NEW a \in Areas, Pending(a) PROVE Pending(a)'
  <2>1. CASE a[1] \in Flags /\ flag[a[1]]
    BY <2>1, <1>7 DEF Pending
  <2>2. CASE \E u \in Thread \ {t} : Waits(a, u)
    <3>1. \E u \in Thread \ {t} : Waits(a, u)'
      BY <2>2, <1>2, <1>9 DEF Waits, Calling
    <3> QED BY <3>1 DEF Pending
  <2>3. CASE Waits(a, t)
    <3>1. CoversAny(script[t], a)
      BY <2>3, <1>1 DEF Waits, Calling
    <3>2. Covers(h, a) \/ CoversAny(Tail(script[t]), a)
      BY <3>1, <1>3, TailCovers
    <3>3. CASE Covers(h, a)
      <4>1. a[1] \in Flags /\ Area(f) = Area(a[1])
        BY <3>3, <1>1, <1>5 DEF Covers, Saves
      <4>2. a[1] = f
        BY <4>1, FlagNames
      <4> QED BY <4>1, <4>2, <1>7 DEF Pending
    <3>4. CASE CoversAny(Tail(script[t]), a)
      <4>1. Waits(a, t)'
        BY <3>4, <1>1, <1>2, <1>9 DEF Waits, Calling
      <4> QED BY <4>1 DEF Pending
    <3> QED BY <3>2, <3>3, <3>4
  <2> QED BY <1>10, <2>1, <2>2, <2>3 DEF Pending
<1> QED BY <1>1, <1>2, <1>7, <1>8, <1>9, <1>10, StepKeeps

\* A flag is cleared before its areas are written, and the writes follow.
LEMMA CheckRequestKeeps ==
  ASSUME IInv, NEW t \in Thread, CheckRequest(t)
  PROVE  IInv'
<1>0. Typed /\ ScriptsOK /\ CopiesOK /\ Quiet /\ MapApplied
  BY DEF IInv
<1> DEFINE h == Head(script[t])
           T == Tail(script[t])
<1>f. PICK f : f = h.area[1]
  OBVIOUS
<1> DEFINE D == IF flag[f] THEN Deferred(f) ELSE <<>>
<1>1. wr[t].at = "none" /\ ~Idle(t) /\ h.do = "check"
      /\ flag' = [flag EXCEPT ![f] = FALSE] /\ script' = [script EXCEPT ![t] = D \o T]
  BY <1>f DEF CheckRequest, At, Target
<1>2. /\ UNCHANGED <<chans, dev, busy, ram, wr, buf, up, stamp, counters, history>>
      /\ chans' = chans /\ ram' = ram /\ buf' = buf /\ up' = up /\ crossed' = crossed
      /\ fpga' = fpga /\ wr' = wr
  BY DEF CheckRequest, history
<1>3. /\ script[t] # <<>> /\ h = script[t][1] /\ WellFormed(chans, t, script[t])
      /\ h \in Steps(chans, t) /\ up # "off"
  BY <1>0, <1>1, HeadFacts
<1>4. h.area \in FlagAreas /\ t = "main" /\ (h.area = Pmt => chans = 1)
  BY <1>1, <1>3, StepFacts
<1>5. f \in Flags /\ h.area = Area(f) /\ (f = "pmt" => chans = 1)
  BY <1>f, <1>4, FlagNames DEF FlagAreas, Pmt
<1>6. flag \in [Flags -> BOOLEAN] /\ fpga' \in Value /\ chans \in Products /\ Areas = AreasOf[chans]
  BY <1>0, <1>2, AreaFacts DEF Typed
<1>7. flag' \in [Flags -> BOOLEAN] /\ \A g \in Flags : g # f => flag'[g] = flag[g]
  BY <1>1, <1>5, <1>6
<1>8. WellFormed(chans, "main", T) /\ Plain(chans, "main", T)
  BY <1>3, <1>4, TailWellFormed, MainPlain
<1>9. Plain(chans, "main", D)
  BY <1>5, <1>6, DeferredOK, EmptyPlain
<1>10. DOMAIN script = Thread /\ script'[t] = D \o T /\ \A u \in Thread \ {t} : script'[u] = script[u]
  BY <1>0, <1>1 DEF ScriptsOK
<1>11. \A a \in Areas : flag[f] /\ a[1] = f => CoversAny(D, a)
  BY <1>5, <1>6, DeferredOK DEF CoversAny
<1> HIDE DEF D, T
<1>12. Operation(chans, t, D \o T)
  BY <1>4, <1>8, <1>9, PlainConcat, PlainOperation
<1>13. ScriptsOK' /\ Quiet'
  <2>1. DOMAIN script' = Thread
    BY <1>1, <1>10
  <2> QED BY <2>1, <1>0, <1>2, <1>3, <1>10, <1>12 DEF ScriptsOK, Quiet, Operation
<1>14. CopiesOK'
  <2>1. \A a : ~Ready(script'[t], a)
    BY <1>10, <1>12, OperationNotReady
  <2>2. Areas' = Areas
    BY <1>2 DEF Areas
  <2>3. \A u \in Thread : \A a : Ready(script'[u], a) => Ready(script[u], a)
    BY <1>10, <2>1
  <2> QED BY <1>0, <1>2, <2>2, <2>3 DEF CopiesOK
<1>15. MapApplied'
  <2>1. ~HasApply(script[t])
    <3>1. Plain(chans, "main", script[t])
      BY <1>3, <1>4, MainPlain
    <3> QED BY <3>1 DEF Plain, HasApply, Copies
  <2> QED BY <1>0, <1>2, <1>10, <2>1 DEF MapApplied
<1>16. ASSUME NEW a \in Areas, Pending(a) PROVE Pending(a)'
  <2>1. CASE a[1] \in Flags /\ flag[a[1]]
    <3>1. CASE a[1] = f
      <4>1. CoversAny(D, a)
        BY <2>1, <3>1, <1>11
      <4>2. CoversAny(D \o T, a)
        BY <4>1, <1>8, <1>9, ConcatCovers
      <4>3. Waits(a, t)'
        BY <4>2, <1>1, <1>2, <1>10 DEF Waits, Calling
      <4> QED BY <4>3 DEF Pending
    <3>2. CASE a[1] # f
      BY <2>1, <3>2, <1>7 DEF Pending
    <3> QED BY <3>1, <3>2
  <2>2. CASE \E u \in Thread \ {t} : Waits(a, u)
    <3>1. \E u \in Thread \ {t} : Waits(a, u)'
      BY <2>2, <1>2, <1>10 DEF Waits, Calling
    <3> QED BY <3>1 DEF Pending
  <2>3. CASE Waits(a, t)
    <3>1. CoversAny(script[t], a)
      BY <2>3, <1>1 DEF Waits, Calling
    <3>2. ~Covers(script[t][1], a)
      BY <1>1, <1>3 DEF Covers, Saves
    <3>3. CoversAny(T, a)
      BY <3>1, <3>2, <1>3, TailCovers DEF T
    <3>4. CoversAny(D \o T, a)
      BY <3>3, <1>8, <1>9, ConcatCovers
    <3>5. Waits(a, t)'
      BY <3>4, <1>1, <1>2, <1>10 DEF Waits, Calling
    <3> QED BY <3>5 DEF Pending
  <2> QED BY <1>16, <2>1, <2>2, <2>3 DEF Pending
<1> QED BY <1>1, <1>2, <1>6, <1>7, <1>10, <1>13, <1>14, <1>15, <1>16, StepKeeps

\* A call of eeprom_write goes on: what is asked for and under way stays.
LEMMA CallGoesOn ==
  ASSUME IInv, UNCHANGED <<chans, ram, flag, fpga, script, buf, up, crossed>>,
         \A u \in Thread : /\ Calling(u)' <=> Calling(u)
                           /\ wr'[u].area = wr[u].area /\ wr'[u].n = wr[u].n
  PROVE  /\ ScriptsOK' /\ CopiesOK' /\ LengthOK' /\ MapApplied' /\ Quiet' /\ Areas' = Areas
         /\ \A a : (Pending(a) => Pending(a)') /\ (InProgress(a) => InProgress(a)')
<1>0. ScriptsOK /\ CopiesOK /\ LengthOK /\ MapApplied /\ Quiet
  BY DEF IInv
<1>1. Areas' = Areas
  BY DEF Areas
<1>2. ScriptsOK' /\ MapApplied' /\ Quiet'
  BY <1>0 DEF ScriptsOK, MapApplied, Quiet
<1>3. CopiesOK'
  BY <1>0, <1>1 DEF CopiesOK
<1>4. ASSUME NEW a, Pending(a) PROVE Pending(a)'
  <2>1. \A u \in Thread : Waits(a, u) => Waits(a, u)'
    BY DEF Waits
  <2> QED BY <1>4, <2>1 DEF Pending
<1>5. ASSUME NEW a, InProgress(a) PROVE InProgress(a)'
  BY <1>5 DEF InProgress
<1>6. LengthOK'
  <2>1. "main" \in Thread
    BY DEF Thread
  <2> QED BY <2>1, <1>0, <1>4 DEF LengthOK
<1> QED BY <1>1, <1>2, <1>3, <1>4, <1>5, <1>6

\* What thread t does in its call leaves the calls of the others alone.
LEMMA OtherCalls ==
  ASSUME IInv, NEW t \in Thread, chans' = chans, CallOK(t)', wr'[t] \in Write,
         wr' = [wr EXCEPT ![t] = wr'[t]],
         \A u \in Thread \ {t} : script'[u] = script[u],
         \A u \in Thread \ {t} : wr[u].at = "read_back" /\ wr[u].area \in damaged => wr[u].area \in damaged'
  PROVE  CallsOK'
<1>0. CallsOK
  BY DEF IInv
<1>1. Write' = Write
  BY DEF Write, Areas
<1>2. wr \in [Thread -> Write] /\ \A u \in Thread : CallOK(u)
  BY <1>0 DEF CallsOK
<1>3. wr' \in [Thread -> Write] /\ \A u \in Thread \ {t} : wr'[u] = wr[u]
  BY <1>2
<1>4. ASSUME NEW u \in Thread \ {t} PROVE CallOK(u)'
  BY <1>2, <1>3 DEF CallOK, Calling
<1> QED BY <1>1, <1>3, <1>4 DEF CallsOK
\* A channel that is not valid is not saved, and need not be.
LEMMA SkipKeeps ==
  ASSUME IInv, NEW t \in Thread, CallWrite(t), At(t, {"save_valid"}), ~ram[Target(t)].ok
  PROVE  IInv'
<1>0. Typed /\ ScriptsOK /\ CopiesOK /\ Quiet /\ MapApplied
  BY DEF IInv
<1> DEFINE h == Head(script[t])
<1>1. wr[t].at = "none" /\ ~Idle(t) /\ h.do = "save_valid" /\ NextStep(t) /\ ~ram[h.area].ok
  BY DEF CallWrite, At, Target
<1>2. /\ UNCHANGED <<chans, dev, busy, ram, wr, buf, up, stamp, counters, history>>
      /\ chans' = chans /\ ram' = ram /\ buf' = buf /\ up' = up /\ crossed' = crossed
      /\ fpga' = fpga /\ wr' = wr /\ flag' = flag
  BY DEF CallWrite, history
<1>3. /\ script[t] # <<>> /\ h = script[t][1] /\ h \in Steps(chans, t)
  BY <1>0, <1>1, HeadFacts
<1>4. h.area # Psi
  BY <1>1, <1>3, StepFacts DEF Saves
<1>5. fpga' \in Value /\ flag' \in [Flags -> BOOLEAN]
  BY <1>0, <1>2 DEF Typed
<1>6. ScriptsOK' /\ Quiet' /\ CopiesOK' /\ MapApplied' /\ \A u \in Thread \ {t} : script'[u] = script[u]
  BY <1>0, <1>1, <1>2, TailScripts, TailCopies, TailMapApplied
<1>7. ASSUME NEW a \in Areas, Pending(a), ram[a].ok \/ a = Psi PROVE Pending(a)'
  <2>1. ~Covers(script[t][1], a)
    BY <1>1, <1>3, <1>4, <1>7 DEF Covers
  <2>2. ~Calling(t)' /\ \A u \in Thread \ {t} : Calling(u)' <=> Calling(u)
    BY <1>1, <1>2 DEF Calling
  <2> QED BY <2>1, <2>2, <1>0, <1>1, <1>2, <1>7, TailPending
<1> QED BY <1>1, <1>2, <1>5, <1>6, <1>7, StepKeeps

\* A call takes the length of what it is to save; from now on the save is under way.
LEMMA CallWriteKeeps ==
  ASSUME IInv, NEW t \in Thread, CallWrite(t)
  PROVE  IInv'
<1>s. CASE At(t, {"save_valid"}) /\ ~ram[Target(t)].ok
  BY <1>s, SkipKeeps
<1>c. CASE ~(At(t, {"save_valid"}) /\ ~ram[Target(t)].ok)
  <2>0. /\ Typed /\ PagesOwn /\ ScriptsOK /\ CallsOK /\ OneInside
        /\ CopiesOK /\ LengthOK /\ Follows /\ MapApplied /\ Quiet
    BY DEF IInv
  <2> DEFINE h == Head(script[t])
  <2>a. PICK a : a = h.area
    OBVIOUS
  <2> DEFINE w == [NoWrite EXCEPT !.at = "poll", !.area = a, !.n = Source(t).n, !.full = Source(t).full]
  <2>1. wr[t].at = "none" /\ ~Idle(t) /\ h.do \in Saves
    BY DEF CallWrite, At, Saves
  <2>2. wr' = [wr EXCEPT ![t] = w] /\ script' = script
    BY <1>c, <2>a DEF CallWrite, Target
  <2>3. /\ chans' = chans /\ dev' = dev /\ busy' = busy /\ ram' = ram /\ flag' = flag /\ fpga' = fpga
        /\ buf' = buf /\ up' = up /\ stamp' = stamp /\ ops' = ops /\ faults' = faults
        /\ race' = race /\ crossed' = crossed /\ damaged' = damaged
    BY DEF CallWrite, counters, history
  <2>4. /\ script[t] # <<>> /\ h = script[t][1] /\ WellFormed(chans, t, script[t])
        /\ h \in Steps(chans, t)
    BY <2>0, <2>1, HeadFacts
  <2>5. /\ a \in Areas /\ (a = Psi => t = "main")
        /\ Source(t).n = ram[a].n /\ Source(t).n \in 1..PsiPages /\ (a # Psi => Source(t).n = 1)
        /\ Source(t).full \in BOOLEAN
        /\ Source(t).full => a = Map \/ (a = Psi /\ Source(t).n = PsiPages)
    BY <2>0, <2>1, <2>a, SourceFacts
  <2>6. /\ w.at = "poll" /\ w.area = a /\ w.n = Source(t).n /\ w.full = Source(t).full
        /\ w.k = 1 /\ w.try = 0 /\ w.val = Default
    BY DEF NoWrite
  <2>7. w \in Write
    <3>1. PsiPages \in Nat \ {0} /\ TRY_MAX \in Nat
      BY ConfigAssumption
    <3>2. Source(t).n \in 0..PsiPages /\ 1 \in 1..PsiPages + 1 /\ 0 \in 0..TRY_MAX
      BY <2>5, <3>1
    <3>3. Default \in Value
      BY GoodValues
    <3> QED BY <2>5, <3>2, <3>3 DEF Write, NoWrite
  <2>8. /\ wr \in [Thread -> Write]
    BY <2>0 DEF CallsOK
  <2> HIDE DEF w
  <2>9. /\ wr'[t] = w /\ \A u \in Thread \ {t} : wr'[u] = wr[u]
    BY <2>2, <2>8
  <2>10. CallOK(t)'
    <3>1. w.n >= 1 /\ w.k = 1 /\ w.at # "write" /\ w.at # "read_back"
      BY <2>5, <2>6
    <3> QED BY <2>1, <2>2, <2>4, <2>5, <2>6, <2>9, <3>1, <2>a DEF CallOK
  <2>11. CallsOK'
    <3>1. wr' = [wr EXCEPT ![t] = wr'[t]] /\ wr'[t] \in Write
      BY <2>2, <2>7, <2>9
    <3> QED BY <3>1, <2>2, <2>3, <2>10, OtherCalls
  <2>12. OneInside'
    <3>1. \A u \in Thread : Inside(u)' => u # t /\ Inside(u)
      BY <2>6, <2>9 DEF Inside
    <3> QED BY <3>1, <2>0, <2>3 DEF OneInside
  <2>13. Areas' = Areas /\ Page' = Page
    BY <2>3 DEF Areas, Page
  <2>14. Typed' /\ PagesOwn' /\ ScriptsOK' /\ CopiesOK' /\ MapApplied' /\ Quiet'
    <3>1. Typed'
      BY <2>0, <2>3, <2>13 DEF Typed
    <3>2. PagesOwn'
      BY <2>0, <2>3, PagesFrame
    <3> QED BY <3>1, <3>2, <2>0, <2>2, <2>3, <2>13 DEF ScriptsOK, CopiesOK, MapApplied, Quiet
  <2>15. ASSUME NEW b, b # a, Pending(b) PROVE Pending(b)'
    <3>1. ~Covers(script[t][1], b)
      BY <2>1, <2>4, <2>15, <2>a DEF Covers, Saves
    <3>2. CoversAny(script[t], b) => CoversLater(script[t], b)
      BY <3>1, <2>4, TailCovers
    <3>3. \A u \in Thread : Waits(b, u) => Waits(b, u)'
      BY <3>2, <2>1, <2>2, <2>9 DEF Waits, Calling
    <3> QED BY <3>3, <2>15, <2>3 DEF Pending
  <2>16. InProgress(a)'
    BY <2>3, <2>5, <2>6, <2>9 DEF InProgress, Calling
  <2>17. LengthOK'
    <3>1. CASE t = "main"
      BY <3>1, <2>3, <2>5, <2>6, <2>9 DEF LengthOK
    <3>2. CASE t # "main"
      <4>1. "main" \in Thread /\ a # Psi
        BY <3>2, <2>5 DEF Thread
      <4>2. wr'["main"] = wr["main"]
        BY <4>1, <3>2, <2>9
      <4> QED BY <4>1, <4>2, <2>0, <2>3, <2>15 DEF LengthOK, Calling
    <3> QED BY <3>1, <3>2
  <2>18. Follows'
    <3> SUFFICES ASSUME NEW b \in Areas \ (damaged \cup crossed \cup {Mux}), ram[b].ok, up # "off", b # a
                 PROVE  Pending(b)' \/ InProgress(b)' \/ Consistent(b)'
      BY <2>3, <2>13, <2>16 DEF Follows
    <3>1. Pending(b) \/ InProgress(b) \/ Consistent(b)
      BY <2>0 DEF Follows
    <3>2. InProgress(b) => InProgress(b)'
      BY <2>1, <2>3, <2>9 DEF InProgress, Calling
    <3> QED BY <3>1, <3>2, <2>3, <2>15, ConsistentFrame
  <2> QED BY <2>11, <2>12, <2>14, <2>17, <2>18 DEF IInv
<1> QED BY <1>s, <1>c
\* Thread t goes on to the next part of its call: neither the pages nor what
\* counts as damaged change.
LEMMA GotoKeeps ==
  ASSUME IInv, NEW t \in Thread, NEW at \in {"set", "write"},
         wr[t].at # "none", wr[t].at # "write", at = "write" => wr[t].n >= 1,
         Goto(t, at), busy' \in BOOLEAN, race' \in BOOLEAN, OneInside',
         UNCHANGED <<chans, dev, ram, flag, fpga, script, buf, up, stamp, counters, crossed, damaged>>
  PROVE  IInv'
<1>0. Typed /\ PagesOwn /\ CallsOK /\ Follows
  BY DEF IInv
<1>1. /\ chans' = chans /\ dev' = dev /\ ram' = ram /\ flag' = flag /\ fpga' = fpga /\ script' = script
      /\ buf' = buf /\ up' = up /\ stamp' = stamp /\ ops' = ops /\ faults' = faults
      /\ crossed' = crossed /\ damaged' = damaged
  BY DEF counters
<1>2. wr \in [Thread -> Write] /\ CallOK(t) /\ wr[t] \in Write
  BY <1>0 DEF CallsOK
<1>3. wr' = [wr EXCEPT ![t] = [wr[t] EXCEPT !.at = at]]
  BY DEF Goto
<1> DEFINE w == [wr[t] EXCEPT !.at = at]
<1>4. /\ w \in Write /\ w.at = at /\ w.area = wr[t].area /\ w.n = wr[t].n /\ w.full = wr[t].full
      /\ w.k = wr[t].k /\ w.val = wr[t].val
  BY <1>2 DEF Write
<1> HIDE DEF w
<1>5. wr'[t] = w /\ \A u \in Thread \ {t} : wr'[u] = wr[u]
  BY <1>2, <1>3 DEF w
<1>6. CallOK(t)'
  <2>1. w.k = 1 /\ w.n \in Nat
    BY <1>2, <1>4 DEF CallOK, Calling, Write
  <2>2. Pages(w) >= w.n /\ Pages(w) \in Nat
    BY <2>1 DEF Pages
  <2>3. w.at = "write" => w.k <= Pages(w)
    BY <2>1, <2>2, <1>4
  <2>4. ~(w.k > 1) /\ w.at # "read_back"
    BY <2>1, <1>4
  <2> QED BY <2>1, <2>3, <2>4, <1>1, <1>2, <1>4, <1>5 DEF CallOK, Calling
<1>7. CallsOK'
  <2>1. wr' = [wr EXCEPT ![t] = wr'[t]] /\ wr'[t] \in Write
    BY <1>3, <1>4, <1>5 DEF w
  <2> QED BY <2>1, <1>1, <1>6, OtherCalls
<1>8. \A u \in Thread : /\ Calling(u)' <=> Calling(u)
                        /\ wr'[u].area = wr[u].area /\ wr'[u].n = wr[u].n
  BY <1>4, <1>5 DEF Calling
<1>9. /\ ScriptsOK' /\ CopiesOK' /\ LengthOK' /\ MapApplied' /\ Quiet' /\ Areas' = Areas
      /\ \A a : (Pending(a) => Pending(a)') /\ (InProgress(a) => InProgress(a)')
  BY <1>1, <1>8, CallGoesOn
<1>10. Page' = Page
  BY <1>1, <1>9 DEF Page
<1>11. Typed' /\ PagesOwn'
  BY <1>0, <1>1, <1>9, <1>10, PagesFrame DEF Typed
<1>12. Follows'
  BY <1>0, <1>1, <1>9, ConsistentFrame DEF Follows
<1> QED BY <1>7, <1>9, <1>11, <1>12 DEF IInv

\* The busy flag was found free.
LEMMA PollKeeps ==
  ASSUME IInv, NEW t \in Thread, Poll(t)
  PROVE  IInv'
<1>1. wr[t].at = "poll" /\ Goto(t, "set") /\ wr \in [Thread -> Write]
  BY DEF Poll, IInv, CallsOK
<1>2. busy' \in BOOLEAN /\ race' \in BOOLEAN /\ race' = race
  BY DEF Poll, IInv, Typed, history
<1>3. wr'[t].at = "set" /\ \A u \in Thread \ {t} : wr'[u] = wr[u]
  BY <1>1 DEF Goto, Write
<1>4. OneInside'
  <2>1. \A u \in Thread : Inside(u)' => Inside(u)
    BY <1>3 DEF Inside
  <2> QED BY <2>1, <1>2 DEF IInv, OneInside
<1>5. UNCHANGED <<chans, dev, ram, flag, fpga, script, buf, up, stamp, counters, crossed, damaged>>
  BY DEF Poll, history
<1> QED BY <1>1, <1>2, <1>4, <1>5, GotoKeeps

\* The flag is taken; that another thread took it too is remembered in race.
LEMMA SetBusyKeeps ==
  ASSUME IInv, NEW t \in Thread, SetBusy(t)
  PROVE  IInv'
<1>1. wr[t].at = "set" /\ Goto(t, "write") /\ wr \in [Thread -> Write] /\ CallOK(t)
  BY DEF SetBusy, IInv, CallsOK
<1>2. wr[t].n >= 1
  BY <1>1 DEF CallOK, Calling
<1>3. busy' \in BOOLEAN /\ race' \in BOOLEAN
  <2>1. busy' = TRUE /\ race' = (race \/ \E u \in Thread \ {t} : Inside(u))
    BY DEF SetBusy
  <2> QED BY <2>1, Zenon
<1>4. \A u \in Thread \ {t} : wr'[u] = wr[u]
  BY <1>1 DEF Goto
<1>5. OneInside'
  <2> SUFFICES ASSUME ~race' PROVE \A u, v \in Thread : Inside(u)' /\ Inside(v)' => u = v
    BY DEF OneInside
  <2>1. \A u \in Thread \ {t} : ~Inside(u)
    BY DEF SetBusy
  <2>2. \A u \in Thread \ {t} : ~Inside(u)'
    BY <2>1, <1>4 DEF Inside
  <2> QED BY <2>2
<1>6. UNCHANGED <<chans, dev, ram, flag, fpga, script, buf, up, stamp, counters, crossed, damaged>>
  BY DEF SetBusy
<1> QED BY <1>1, <1>2, <1>3, <1>5, <1>6, GotoKeeps
\* The pages a restart reads of an area are its own.
LEMMA PagesRead ==
  ASSUME Typed, PagesOwn, NEW a \in Areas
  PROVE  /\ Head1(a) \in Good(a) /\ Offset(a) \in Nat /\ Offset(a) \in DOMAIN Layout[chans]
         /\ Layout[chans][Offset(a)] = a
         /\ \A i \in 1..PsiPages : i = 1 \/ a = Psi =>
              Offset(a) + i - 1 \in DOMAIN Layout[chans] /\ Layout[chans][Offset(a) + i - 1] = a
<1>0. chans \in Products /\ Areas = AreasOf[chans] /\ a # Pad
  BY AreaFacts DEF Typed
<1>1. Offset(a) \in DOMAIN Layout[chans] /\ Layout[chans][Offset(a)] = a /\ Offset(a) \in Nat
  BY <1>0, OffsetsFit DEF Offset
<1>2. Head1(a) \in Good(a)
  BY <1>0, <1>1 DEF PagesOwn, Head1
<1>3. ASSUME NEW i \in 1..PsiPages, i = 1 \/ a = Psi
      PROVE  Offset(a) + i - 1 \in DOMAIN Layout[chans] /\ Layout[chans][Offset(a) + i - 1] = a
  <2>1. CASE i = 1
    <3>1. Offset(a) + i - 1 = Offset(a)
      BY <2>1, <1>1
    <3> QED BY <3>1, <1>1
  <2>2. CASE a = Psi
    BY <2>2, <1>0, OffsetsFit DEF Offset
  <2> QED BY <1>3, <2>1, <2>2
<1> QED BY <1>1, <1>2, <1>3

\* Page k of a write of area a is a page of the area, or the tail behind it.
LEMMA PageWritten ==
  ASSUME Typed, NEW a \in Areas, NEW n \in 1..PsiPages, a # Psi => n = 1, NEW full \in BOOLEAN,
         full => a = Map \/ (a = Psi /\ n = PsiPages),
         NEW k \in Nat \ {0}, k <= n + (IF full THEN 1 ELSE 0)
  PROVE  /\ Offset(a) + k - 1 \in DOMAIN Layout[chans]
         /\ Layout[chans][Offset(a) + k - 1] \in {a, Pad}
<1>0. /\ chans \in Products /\ Areas = AreasOf[chans] /\ PsiPages \in Nat \ {0} /\ n \in Nat
      /\ n <= PsiPages
  BY AreaFacts DEF Typed
<1>1. Offset(a) \in DOMAIN Layout[chans] /\ Layout[chans][Offset(a)] = a /\ Offset(a) \in Nat
  BY <1>0, OffsetsFit DEF Offset
<1>2. CASE k = 1
  <2>1. Offset(a) + k - 1 = Offset(a)
    BY <1>1, <1>2
  <2> QED BY <2>1, <1>1
<1>3. CASE k # 1 /\ a = Psi
  <2>1. CASE k <= PsiPages
    <3>1. k \in 1..PsiPages
      BY <2>1, <1>0
    <3> QED BY <3>1, <1>0, <1>3, OffsetsFit DEF Offset
  <2>2. CASE k > PsiPages
    <3>1. k = PsiPages + 1
      BY <2>2, <1>0
    <3>2. Offset(a) + k - 1 = Offset(a) + PsiPages
      BY <3>1, <1>0, <1>1
    <3> QED BY <3>2, <1>0, <1>3, OffsetsFit DEF Offset
  <2> QED BY <2>1, <2>2, <1>0
<1>4. CASE k # 1 /\ a # Psi
  <2>1. a = Map /\ k = 2
    BY <1>4
  <2>2. Offset(a) + k - 1 = Offset(a) + 1
    BY <2>1, <1>1
  <2> QED BY <2>1, <2>2, <1>0, OffsetsFit DEF Offset
<1> QED BY <1>2, <1>3, <1>4

\* A page that is not of area a does not change what a restart loads for a.
LEMMA DevFrame ==
  ASSUME Typed, PagesOwn, NEW a \in Areas, Consistent(a), NEW q, NEW y,
         Layout[chans][q] # a, chans' = chans, ram'[a] = ram[a], dev' = [dev EXCEPT ![q] = y]
  PROVE  Consistent(a)'
<1>1. /\ Head1(a) \in Good(a) /\ Offset(a) \in Nat /\ Offset(a) \in DOMAIN Layout[chans]
      /\ Layout[chans][Offset(a)] = a
      /\ \A i \in 1..PsiPages : i = 1 \/ a = Psi =>
           Offset(a) + i - 1 \in DOMAIN Layout[chans] /\ Layout[chans][Offset(a) + i - 1] = a
  BY PagesRead
<1>2. DOMAIN dev = DOMAIN Layout[chans]
  BY DEF Typed
<1>3. \A p \in DOMAIN Layout[chans] : Layout[chans][p] = a => dev'[p] = dev[p]
  BY <1>2
<1>4. Offset(a)' = Offset(a)
  BY DEF Offset
<1>5. Head1(a)' = Head1(a)
  BY <1>1, <1>3, <1>4 DEF Head1
<1>6. Head1(a).n \in 1..PsiPages /\ (a # Psi => Head1(a).n = 1) /\ PsiPages \in Nat \ {0}
  BY <1>1, ConfigAssumption DEF Good, Value
<1>7. ASSUME NEW i \in 1..Head1(a).n PROVE dev'[Offset(a) + i - 1] = dev[Offset(a) + i - 1]
  <2>1. i \in 1..PsiPages /\ (i = 1 \/ a = Psi)
    BY <1>6
  <2> QED BY <2>1, <1>1, <1>3
<1>8. Intact(a)'
  BY <1>4, <1>5, <1>7 DEF Consistent, Intact
<1> QED BY <1>5, <1>8 DEF Consistent, Loaded
\* A page is written, or fails: only pages of the call's own area and the tail
\* behind it change, and the area counts as damaged until it is read back.
LEMMA WritePageKeeps ==
  ASSUME IInv, NEW t \in Thread, WritePage(t)
  PROVE  IInv'
<1>0. /\ Typed /\ PagesOwn /\ ScriptsOK /\ CallsOK /\ OneInside /\ CopiesOK /\ Follows /\ Quiet
  BY DEF IInv
<1> DEFINE w == wr[t]
           k == w.k
           x == IF w.k = 1 THEN Source(t) ELSE w.val
           last == w.k = Pages(w)
<1>a. PICK a : a = w.area
  OBVIOUS
<1>q. PICK q : q = Offset(a) + k - 1
  OBVIOUS
<1>1. PICK fails \in {b \in BOOLEAN : b => faults < MaxFaults /\ k <= w.n /\ a \in Failing} :
        /\ dev' = [dev EXCEPT ![q] = IF fails THEN Garbage(a) ELSE PageAt(w, x)]
        /\ faults' = IF fails THEN faults + 1 ELSE faults
  BY <1>a, <1>q DEF WritePage
<1>2. /\ w.at = "write" /\ damaged' = damaged \cup {a}
      /\ wr' = [wr EXCEPT ![t] = [w EXCEPT !.k = IF last THEN 1 ELSE w.k + 1,
                                           !.val = IF last THEN Default ELSE x,
                                           !.at = IF last THEN "read_back" ELSE w.at]]
  BY <1>a DEF WritePage
<1>3. /\ chans' = chans /\ busy' = busy /\ ram' = ram /\ flag' = flag /\ fpga' = fpga
      /\ script' = script /\ buf' = buf /\ up' = up /\ stamp' = stamp /\ ops' = ops
      /\ race' = race /\ crossed' = crossed
  BY DEF WritePage
<1>4. /\ wr \in [Thread -> Write] /\ CallOK(t) /\ w \in Write
  BY <1>0 DEF CallsOK
<1>5. /\ w.n \in 0..PsiPages /\ k \in 1..PsiPages + 1 /\ w.full \in BOOLEAN /\ a \in Areas
  BY <1>4, <1>a DEF Write
<1>6. /\ script[t] # <<>> /\ Head(script[t]).do \in Saves /\ Head(script[t]).area = a
      /\ w.n >= 1 /\ (a # Psi => w.n = 1)
      /\ w.full => a = Map \/ (a = Psi /\ w.n = PsiPages)
      /\ k <= Pages(w) /\ (k > 1 => w.val \in Good(a))
  BY <1>2, <1>4, <1>a DEF CallOK, Calling
<1>7. PsiPages \in Nat \ {0} /\ MaxFaults \in Nat
  BY ConfigAssumption
<1>8. w.n \in 1..PsiPages /\ k \in Nat \ {0} /\ k <= w.n + (IF w.full THEN 1 ELSE 0)
  BY <1>5, <1>6, <1>7 DEF Pages
<1>9. q \in DOMAIN Layout[chans] /\ Layout[chans][q] \in {a, Pad}
  BY <1>0, <1>5, <1>6, <1>8, <1>q, PageWritten
<1>10. x \in Good(a)
  <2>1. ~Idle(t)
    BY <1>6 DEF Idle
  <2>2. Source(t) \in Good(a)
    BY <2>1, <1>0, <1>6, SourceFacts
  <2> QED BY <2>2, <1>6, <1>8
<1>11. Good(a) \subseteq Value /\ Torn \in Good(a) /\ Default \in Value
  BY GoodValues
<1> DEFINE y == IF fails THEN Garbage(a) ELSE PageAt(w, x)
<1> HIDE DEF x
<1>12. y \in Page /\ y.area = a /\ y.val \in Good(a)
  <2>1. /\ Garbage(a) \in Page /\ Garbage(a).area = a /\ Garbage(a).val = Torn
    <3>1. 0 \in 0..PsiPages
      BY <1>7
    <3> QED BY <3>1, <1>5, <1>11 DEF Garbage, PageOf, Page
  <2>2. CASE fails \/ k > w.n
    BY <2>1, <2>2, <1>a, <1>11 DEF PageAt
  <2>3. CASE ~fails /\ ~(k > w.n)
    <3>1. y = [area |-> a, i |-> k, val |-> x]
      BY <2>3, <1>a DEF PageAt, PageOf
    <3>2. k \in 0..PsiPages
      BY <2>3, <1>5, <1>7
    <3> QED BY <3>1, <3>2, <1>5, <1>10, <1>11 DEF Page
  <2> QED BY <2>2, <2>3
<1> HIDE DEF y
<1>13. dev' = [dev EXCEPT ![q] = y]
  BY <1>1 DEF y
<1>14. Areas' = Areas /\ Page' = Page
  BY <1>3 DEF Areas, Page
<1>15. Typed'
  <2>1. dev' \in [DOMAIN Layout[chans] -> Page]
    BY <1>0, <1>12, <1>13 DEF Typed
  <2>2. faults' \in 0..MaxFaults
    BY <1>0, <1>1, <1>7 DEF Typed
  <2>3. damaged' \subseteq Areas
    BY <1>0, <1>2, <1>5 DEF Typed
  <2> QED BY <2>1, <2>2, <2>3, <1>0, <1>3, <1>14 DEF Typed
<1>16. PagesOwn'
  <2>1. DOMAIN dev = DOMAIN Layout[chans]
    BY <1>0 DEF Typed
  <2> QED BY <2>1, <1>0, <1>3, <1>9, <1>12, <1>13 DEF PagesOwn
<1> DEFINE v == [w EXCEPT !.k = IF last THEN 1 ELSE w.k + 1, !.val = IF last THEN Default ELSE x,
                          !.at = IF last THEN "read_back" ELSE w.at]
<1>17. /\ v.at = (IF last THEN "read_back" ELSE "write") /\ v.area = a /\ v.n = w.n
       /\ v.full = w.full /\ v.k = (IF last THEN 1 ELSE k + 1) /\ v.val = (IF last THEN Default ELSE x)
       /\ Pages(v) = Pages(w)
  BY <1>2, <1>4, <1>a DEF Write, Pages
<1>18. last \/ (k + 1 <= Pages(w) /\ k + 1 \in 1..PsiPages + 1)
  BY <1>6, <1>8, <1>7 DEF Pages
<1>19. v \in Write
  <2>1. (IF last THEN 1 ELSE k + 1) \in 1..PsiPages + 1
    BY <1>18, <1>7
  <2>2. (IF last THEN Default ELSE x) \in Value
    BY <1>10, <1>11
  <2>3. (IF last THEN "read_back" ELSE w.at) \in {"none", "poll", "set", "write", "read_back"}
    BY <1>2
  <2> HIDE DEF last, k
  <2> QED BY <2>1, <2>2, <2>3, <1>4 DEF Write, k
<1> HIDE DEF v
<1>20. wr'[t] = v /\ \A u \in Thread \ {t} : wr'[u] = wr[u]
  BY <1>2, <1>4 DEF v
<1>21. CallOK(t)'
  <2>1. v.at = "write" => v.k <= Pages(v)
    BY <1>17, <1>18
  <2>2. v.at # "write" => v.k = 1
    BY <1>17
  <2>3. v.k > 1 => v.val \in Good(v.area)
    BY <1>10, <1>17
  <2>4. v.at = "read_back" => v.area \in damaged'
    BY <1>2, <1>17
  <2> HIDE DEF last, k, w
  <2> QED BY <2>1, <2>2, <2>3, <2>4, <1>3, <1>6, <1>17, <1>20 DEF CallOK
<1>22. CallsOK'
  <2>1. wr' = [wr EXCEPT ![t] = wr'[t]] /\ wr'[t] \in Write
    BY <1>2, <1>19, <1>20 DEF v
  <2> QED BY <2>1, <1>2, <1>3, <1>21, OtherCalls
<1>23. \A u \in Thread : /\ Calling(u)' <=> Calling(u)
                         /\ wr'[u].area = wr[u].area /\ wr'[u].n = wr[u].n
                         /\ Inside(u)' <=> Inside(u)
  BY <1>2, <1>17, <1>20, <1>a DEF Calling, Inside
<1>24. OneInside'
  BY <1>0, <1>3, <1>23 DEF OneInside
<1>25. /\ ScriptsOK' /\ CopiesOK' /\ LengthOK' /\ MapApplied' /\ Quiet'
       /\ \A b : (Pending(b) => Pending(b)') /\ (InProgress(b) => InProgress(b)')
  BY <1>3, <1>23, CallGoesOn
<1>26. Follows'
  <2> SUFFICES ASSUME NEW b \in Areas \ (damaged' \cup crossed \cup {Mux}), ram[b].ok, up # "off"
               PROVE  Pending(b)' \/ InProgress(b)' \/ Consistent(b)'
    BY <1>3, <1>14 DEF Follows
  <2>1. b # a /\ b \notin damaged /\ b # Pad
    BY <1>0, <1>2, AreaFacts
  <2>2. Pending(b) \/ InProgress(b) \/ Consistent(b)
    BY <2>1, <1>0 DEF Follows
  <2>3. Consistent(b) => Consistent(b)'
    BY <2>1, <1>0, <1>3, <1>9, <1>13, DevFrame
  <2> QED BY <2>2, <2>3, <1>25
<1> QED BY <1>15, <1>16, <1>22, <1>24, <1>25, <1>26 DEF IInv
\* The area just compared holds what memory holds, or is to be saved again.
LEMMA MatchesConsistent ==
  ASSUME IInv, NEW t \in Thread, wr[t].at = "read_back", Matches(t), NEW a, a = wr[t].area,
         a \notin crossed, ram[a].ok
  PROVE  Consistent(a) \/ (a = Psi /\ Pending(a) /\ t = "main")
<1>0. Typed /\ PagesOwn /\ ScriptsOK /\ CallsOK /\ CopiesOK /\ Quiet /\ LengthOK
  BY DEF IInv
<1>1. CallOK(t) /\ wr[t] \in Write
  BY <1>0 DEF CallsOK
<1>2. /\ script[t] # <<>> /\ Head(script[t]).do \in Saves /\ Head(script[t]).area = a
      /\ wr[t].n >= 1 /\ (a # Psi => wr[t].n = 1) /\ ~Idle(t) /\ Calling(t)
  BY <1>1 DEF CallOK, Calling, Idle
<1>3. /\ a \in Areas /\ Source(t) = ram[a] /\ (a = Psi => t = "main")
      /\ Source(t).n = ram[a].n /\ Source(t).n \in 1..PsiPages /\ (a # Psi => Source(t).n = 1)
  BY <1>0, <1>2, SourceFacts
<1>4. wr[t].n = ram[a].n \/ (a = Psi /\ Pending(a) /\ t = "main")
  BY <1>0, <1>2, <1>3 DEF LengthOK
<1>5. ASSUME wr[t].n = ram[a].n PROVE Consistent(a)
  <2>1. \A i \in 1..ram[a].n : dev[Offset(a) + i - 1] = PageOf(a, i, ram[a])
    BY <1>3, <1>5 DEF Matches
  <2>2. Offset(a) \in Nat /\ ram[a].n \in 1..PsiPages
    BY <1>0, <1>3, PagesRead
  <2>3. 1 \in 1..ram[a].n /\ Offset(a) + 1 - 1 = Offset(a)
    BY <2>2
  <2>4. dev[Offset(a)] = PageOf(a, 1, ram[a])
    BY <2>1, <2>3
  <2>5. Head1(a) = ram[a]
    BY <2>4 DEF Head1, PageOf
  <2> QED BY <2>1, <2>5 DEF Consistent, Intact, Loaded
<1> QED BY <1>4, <1>5

\* A write is read back: it ends with what memory holds in the EEPROM, or is
\* given up, and its area stays damaged, or is tried again.
LEMMA ReadBackKeeps ==
  ASSUME IInv, ~race, NEW t \in Thread, ReadBack(t)
  PROVE  IInv'
<1>0. /\ Typed /\ PagesOwn /\ ScriptsOK /\ CallsOK /\ OneInside
      /\ CopiesOK /\ LengthOK /\ Follows /\ MapApplied /\ Quiet
  BY DEF IInv
<1> DEFINE w == wr[t]
<1>a. PICK a : a = w.area
  OBVIOUS
<1>1. /\ w.at = "read_back" /\ busy' = BusyAfter(t)
      /\ damaged' = IF Matches(t) THEN damaged \ {a} ELSE damaged
  BY <1>a DEF ReadBack
<1>2. /\ chans' = chans /\ dev' = dev /\ ram' = ram /\ flag' = flag /\ fpga' = fpga
      /\ buf' = buf /\ up' = up /\ stamp' = stamp /\ ops' = ops /\ faults' = faults
      /\ race' = race /\ crossed' = crossed
  BY DEF ReadBack, counters
<1>3. /\ wr \in [Thread -> Write] /\ CallOK(t) /\ w \in Write /\ Calling(t)
  BY <1>0, <1>1 DEF CallsOK, Calling
<1>4. /\ script[t] # <<>> /\ Head(script[t]).do \in Saves /\ Head(script[t]).area = a
      /\ w.n >= 1 /\ w.k = 1 /\ a \in damaged /\ ~Idle(t) /\ a \in Areas
      /\ (w.full => a = Map \/ (a = Psi /\ w.n = PsiPages)) /\ (a # Psi => w.n = 1)
  BY <1>1, <1>3, <1>a DEF CallOK, Idle, Write
<1>5. Areas' = Areas /\ Page' = Page
  BY <1>2 DEF Areas, Page
<1>6. busy' \in BOOLEAN
  BY <1>1, Zenon DEF BusyAfter
<1>7. damaged' \subseteq damaged /\ (\A b \in damaged : b # a => b \in damaged')
  BY <1>1
<1>8. Typed' /\ PagesOwn'
  BY <1>0, <1>2, <1>5, <1>6, <1>7, PagesFrame DEF Typed
<1>9. \A u \in Thread \ {t} : ~Inside(u)
  BY <1>0, <1>1 DEF OneInside, Inside
<1>10. \A u \in Thread \ {t} : wr[u].at # "read_back"
  BY <1>9 DEF Inside
<1>11. CASE Matches(t) \/ GivesUp(t)
  <2>1. NextStep(t) /\ wr' = [wr EXCEPT ![t] = NoWrite]
    BY <1>11 DEF ReadBack
  <2>2. /\ ScriptsOK' /\ Quiet' /\ CopiesOK' /\ MapApplied'
        /\ \A u \in Thread \ {t} : script'[u] = script[u]
    <3>1. Head(script[t]).do # "assign_copy" /\ Head(script[t]).do # "apply"
      BY <1>4 DEF Saves
    <3> QED BY <3>1, <2>1, <1>0, <1>2, <1>4, TailScripts, TailCopies, TailMapApplied
  <2>3. NoWrite \in Write /\ NoWrite.at = "none"
    <3>1. Sys \in Areas
      BY <1>0, AreaFacts
    <3> QED BY <3>1, ConfigAssumption, GoodValues DEF NoWrite, Write
  <2>4. wr'[t] = NoWrite /\ \A u \in Thread \ {t} : wr'[u] = wr[u]
    BY <2>1, <1>3
  <2>5. ~Calling(t)' /\ \A u \in Thread \ {t} : Calling(u)' <=> Calling(u)
    BY <2>3, <2>4 DEF Calling
  <2>6. CallsOK'
    <3>1. CallOK(t)'
      BY <2>5 DEF CallOK
    <3>2. wr' = [wr EXCEPT ![t] = wr'[t]] /\ wr'[t] \in Write
      BY <2>1, <2>3, <2>4
    <3> QED BY <3>1, <3>2, <2>2, <1>2, <1>10, OtherCalls
  <2>7. OneInside'
    <3>1. \A u \in Thread : ~Inside(u)'
      BY <1>9, <2>3, <2>4 DEF Inside
    <3> QED BY <3>1 DEF OneInside
  <2>8. \A b : Pending(b) => Pending(b)'
    BY <2>1, <2>5, <1>0, <1>2, <1>3, <1>4, TailPending
  <2>9. LengthOK'
    <3>1. CASE t = "main"
      BY <3>1, <2>5 DEF LengthOK
    <3>2. CASE t # "main"
      <4>1. wr'["main"] = wr["main"]
        BY <3>2, <2>4 DEF Thread
      <4> QED BY <4>1, <2>8, <1>0, <1>2 DEF LengthOK, Calling
    <3> QED BY <3>1, <3>2
  <2>10. Follows'
    <3> SUFFICES ASSUME NEW b \in Areas \ (damaged' \cup crossed \cup {Mux}), ram[b].ok, up # "off"
                 PROVE  Pending(b)' \/ InProgress(b)' \/ Consistent(b)'
      BY <1>2, <1>5 DEF Follows
    <3>1. CASE b = a
      <4>1. Matches(t)
        BY <3>1, <1>1, <1>4
      <4>2. Consistent(b) \/ Pending(b)
        BY <4>1, <3>1, <1>1, <1>a, MatchesConsistent
      <4> QED BY <4>2, <2>8, <1>2, ConsistentFrame
    <3>2. CASE b # a
      <4>1. Pending(b) \/ InProgress(b) \/ Consistent(b)
        BY <3>2, <1>0, <1>7 DEF Follows
      <4>2. InProgress(b) => InProgress(b)'
        BY <3>2, <2>4, <2>5, <1>2, <1>a DEF InProgress
      <4> QED BY <4>1, <4>2, <2>8, <1>2, ConsistentFrame
    <3> QED BY <3>1, <3>2
  <2> QED BY <1>8, <2>2, <2>6, <2>7, <2>9, <2>10 DEF IInv
<1>12. CASE ~(Matches(t) \/ GivesUp(t))
  <2> DEFINE v == [w EXCEPT !.try = w.try + 1, !.at = "write"]
  <2>1. script' = script /\ wr' = [wr EXCEPT ![t] = v]
    BY <1>12 DEF ReadBack
  <2>2. w.try + 1 \in 0..TRY_MAX
    BY <1>3, <1>12, ConfigAssumption DEF GivesUp, Write
  <2>3. v \in Write
    BY <2>2, <1>3 DEF Write
  <2>4. /\ v.at = "write" /\ v.area = a /\ v.n = w.n /\ v.full = w.full /\ v.k = w.k
        /\ v.val = w.val
    BY <1>3, <1>a DEF Write
  <2> HIDE DEF v
  <2>5. wr'[t] = v /\ \A u \in Thread \ {t} : wr'[u] = wr[u]
    BY <2>1, <1>3
  <2>6. CallOK(t)'
    <3>1. v.n \in Nat /\ v.n >= 1 /\ v.k = 1
      BY <2>3, <2>4, <1>4 DEF Write
    <3>2. v.k <= Pages(v) /\ ~(v.k > 1)
      BY <3>1 DEF Pages
    <3> QED BY <3>1, <3>2, <2>1, <2>4, <2>5, <1>4 DEF CallOK
  <2>7. CallsOK'
    <3>1. wr' = [wr EXCEPT ![t] = wr'[t]] /\ wr'[t] \in Write
      BY <2>1, <2>3, <2>5
    <3> QED BY <3>1, <2>1, <2>6, <1>2, <1>10, OtherCalls
  <2>8. OneInside'
    <3>1. \A u \in Thread \ {t} : ~Inside(u)'
      BY <1>9, <2>5 DEF Inside
    <3> QED BY <3>1 DEF OneInside
  <2>9. \A u \in Thread : /\ Calling(u)' <=> Calling(u)
                          /\ wr'[u].area = wr[u].area /\ wr'[u].n = wr[u].n
    BY <2>4, <2>5, <1>3, <1>a DEF Calling
  <2>10. /\ ScriptsOK' /\ CopiesOK' /\ LengthOK' /\ MapApplied' /\ Quiet'
         /\ \A b : (Pending(b) => Pending(b)') /\ (InProgress(b) => InProgress(b)')
    BY <2>1, <2>9, <1>2, CallGoesOn
  <2>11. damaged' = damaged
    BY <1>1, <1>12
  <2>12. Follows'
    BY <2>10, <2>11, <1>0, <1>2, <1>5, ConsistentFrame DEF Follows
  <2> QED BY <1>8, <2>7, <2>8, <2>10, <2>12 DEF IInv
<1> QED BY <1>11, <1>12
\* Without power nothing is under way; only the pages and what counts as damaged stay.
LEMMA PowerCutKeeps ==
  ASSUME IInv, PowerCut
  PROVE  IInv'
<1>0. Typed /\ PagesOwn
  BY DEF IInv
<1>1. /\ chans' = chans /\ dev' = dev /\ stamp' = stamp /\ ops' = ops /\ race' = race
      /\ damaged' = damaged /\ crossed' = {} /\ up' = "off"
  BY DEF PowerCut
<1>2. Areas' = Areas /\ Page' = Page
  BY <1>1 DEF Areas, Page
<1>3. \A a \in Areas : Default \in Good(a) /\ Default \in Value
  BY GoodValues
<1>4. Sys \in Areas
  BY <1>0, AreaFacts
<1>5. Typed'
  <2>1. /\ ram' \in [Areas -> Value] /\ \A a \in Areas : ram'[a] \in Good(a)
        /\ fpga' \in Value /\ buf' \in [Thread -> Value]
    BY <1>3, <1>4 DEF PowerCut
  <2>2. busy' \in BOOLEAN
    <3>1. busy' = FALSE
      BY DEF PowerCut
    <3> QED BY <3>1, Zenon
  <2>3. flag' \in [Flags -> BOOLEAN]
    BY DEF PowerCut
  <2>4. faults' \in 0..MaxFaults
    BY <1>0, ConfigAssumption DEF PowerCut, Typed
  <2> QED BY <1>0, <1>1, <1>2, <2>1, <2>2, <2>3, <2>4 DEF Typed
<1>6. PagesOwn'
  BY <1>0, <1>1, PagesFrame
<1>7. DOMAIN script' = Thread /\ \A t \in Thread : script'[t] = <<>>
  BY DEF PowerCut
<1>8. ScriptsOK' /\ Quiet'
  BY <1>7, EmptySteps DEF ScriptsOK, Quiet
<1>9. NoWrite \in Write /\ NoWrite.at = "none" /\ Write' = Write
  BY <1>2, <1>4, ConfigAssumption, GoodValues DEF NoWrite, Write
<1>10. wr' \in [Thread -> Write] /\ \A t \in Thread : wr'[t].at = "none"
  BY <1>9 DEF PowerCut
<1>11. CallsOK' /\ OneInside'
  BY <1>9, <1>10 DEF CallsOK, CallOK, Calling, OneInside, Inside
<1>12. CopiesOK'
  BY <1>7, EmptySteps DEF CopiesOK
<1>13. LengthOK' /\ Follows' /\ MapApplied'
  <2>1. "main" \in Thread
    BY DEF Thread
  <2> QED BY <2>1, <1>1, <1>10 DEF LengthOK, Calling, Follows, MapApplied
<1> QED BY <1>5, <1>6, <1>8, <1>11, <1>12, <1>13 DEF IInv

\* What a load finds whole is what memory then holds; the rest counts as damaged.
LEMMA LoadKeeps ==
  ASSUME IInv, LoadFromEeprom
  PROVE  IInv'
<1>0. /\ Typed /\ PagesOwn /\ ScriptsOK /\ CallsOK /\ OneInside /\ Quiet
  BY DEF IInv
<1>1. PICK torn \in SUBSET {a \in Areas : ~Intact(a) /\ Torn \in Reload(a)} :
        ram' = [a \in Areas |-> IF a \in torn THEN Torn ELSE IF Intact(a) THEN Loaded(a) ELSE Default]
  BY DEF LoadFromEeprom
<1>2. /\ chans' = chans /\ dev' = dev /\ busy' = busy /\ flag' = flag /\ fpga' = fpga
      /\ wr' = wr /\ buf' = buf /\ stamp' = stamp /\ ops' = ops /\ faults' = faults
      /\ race' = race /\ crossed' = crossed
      /\ up = "off" /\ up' = "booting" /\ damaged' = {a \in Areas : ~Intact(a)}
  BY DEF LoadFromEeprom, counters
<1>3. Areas' = Areas /\ Page' = Page /\ Write' = Write
  BY <1>2 DEF Areas, Page, Write
<1>4. \A t \in Thread : script[t] = <<>> /\ ~Calling(t)
  BY <1>0, <1>2 DEF Quiet, CallsOK, CallOK
<1>5. ASSUME NEW a \in Areas PROVE ram'[a] \in Good(a) /\ ram'[a] \in Value
  <2>1. Head1(a) \in Good(a)
    BY <1>0, PagesRead
  <2>2. Loaded(a) \in Good(a)
    BY <2>1, GoodValues DEF Loaded
  <2> QED BY <2>2, <1>1, GoodValues
<1>6. ram' \in [Areas -> Value] /\ \A a \in Areas : ram'[a] \in Good(a)
  BY <1>1, <1>5
<1>7. Typed' /\ PagesOwn'
  BY <1>0, <1>2, <1>3, <1>6, PagesFrame DEF Typed
<1> DEFINE m == Repair(Sys) \o Repair(Net) \o Repair(User)
<1>8. Operation(chans, "main", m)
  <2>0. chans \in Products
    BY <1>0 DEF Typed
  <2>1. ASSUME NEW a \in {Sys, Net, User} PROVE Plain(chans, "main", Repair(a))
    <3>1. Plain(chans, "main", <<Save(a)>>) /\ Plain(chans, "main", <<>>)
      BY <2>0, MainSteps, EmptyPlain
    <3> QED BY <3>1 DEF Repair
  <2>2. Plain(chans, "main", Repair(Sys)) /\ Plain(chans, "main", Repair(Net))
        /\ Plain(chans, "main", Repair(User))
    BY <2>1
  <2>3. Plain(chans, "main", Repair(Sys) \o Repair(Net))
    BY <2>2, PlainConcat
  <2> QED BY <2>2, <2>3, PlainConcat, PlainOperation
<1>9. script' = [script EXCEPT !["main"] = m]
  BY DEF LoadFromEeprom
<1> HIDE DEF m
<1>10. /\ DOMAIN script' = Thread /\ script'["main"] = m
       /\ \A t \in Thread : t = "main" \/ script'[t] = <<>>
  BY <1>0, <1>4, <1>9 DEF ScriptsOK, Thread
<1>11. ScriptsOK' /\ Quiet'
  BY <1>2, <1>8, <1>10, EmptySteps DEF ScriptsOK, Quiet, Operation
<1>12. CallsOK' /\ OneInside'
  BY <1>0, <1>2, <1>3, <1>4 DEF CallsOK, CallOK, Calling, OneInside, Inside
<1>13. CopiesOK'
  <2>1. \A t \in Thread : \A a : ~Ready(script'[t], a)
    BY <1>8, <1>10, EmptySteps, OperationNotReady
  <2> QED BY <2>1 DEF CopiesOK
<1>14. LengthOK' /\ MapApplied'
  <2>1. "main" \in Thread
    BY DEF Thread
  <2> QED BY <2>1, <1>2, <1>4 DEF LengthOK, Calling, MapApplied
<1>15. Follows'
  <2> SUFFICES ASSUME NEW a \in Areas \ damaged' PROVE Consistent(a)'
    BY <1>3 DEF Follows
  <2>1. Intact(a) /\ a \notin torn
    BY <1>1, <1>2
  <2>2. ram'[a] = Loaded(a)
    BY <2>1, <1>1
  <2>3. Intact(a)' /\ Loaded(a)' = Loaded(a)
    BY <2>1, <1>2 DEF Intact, Loaded, Head1, Offset
  <2> QED BY <2>2, <2>3 DEF Consistent
<1> QED BY <1>7, <1>11, <1>12, <1>13, <1>14, <1>15 DEF IInv

\* The threads start with the pid map in the FPGA.
LEMMA RestoreKeeps ==
  ASSUME IInv, RestoreWorkField
  PROVE  IInv'
<1>0. /\ Typed /\ PagesOwn /\ ScriptsOK /\ CallsOK /\ OneInside
      /\ CopiesOK /\ LengthOK /\ Follows /\ MapApplied /\ Quiet
  BY DEF IInv
<1>1. /\ chans' = chans /\ dev' = dev /\ busy' = busy /\ ram' = ram /\ flag' = flag
      /\ script' = script /\ wr' = wr /\ buf' = buf /\ stamp' = stamp /\ ops' = ops
      /\ faults' = faults /\ race' = race /\ crossed' = crossed /\ damaged' = damaged
      /\ fpga' = ram[Map] /\ up = "booting" /\ up' = "up"
  BY DEF RestoreWorkField, counters, history
<1>2. Areas' = Areas /\ Page' = Page /\ Write' = Write /\ Map \in Areas
  BY <1>0, <1>1, AreaFacts DEF Areas, Page, Write
<1>3. Typed' /\ PagesOwn'
  BY <1>0, <1>1, <1>2, PagesFrame DEF Typed
<1>4. ScriptsOK' /\ CopiesOK' /\ MapApplied' /\ Quiet'
  BY <1>0, <1>1, <1>2 DEF ScriptsOK, CopiesOK, MapApplied, Quiet
<1>5. \A u \in Thread : CallOK(u)'
  BY <1>0, <1>1 DEF CallsOK, CallOK, Calling
<1>6. CallsOK' /\ OneInside'
  BY <1>0, <1>1, <1>2, <1>5 DEF CallsOK, OneInside, Inside
<1>7. \A a : Pending(a) => Pending(a)'
  BY <1>1 DEF Pending, Waits, Calling
<1>8. LengthOK'
  BY <1>0, <1>1, <1>7 DEF LengthOK, Calling
<1>9. Follows'
  BY <1>0, <1>1, <1>2, <1>7, ConsistentFrame, InProgressFrame DEF Follows
<1> QED BY <1>3, <1>4, <1>6, <1>8, <1>9 DEF IInv

\* Every step of the system keeps the invariant.
LEMMA NextKeeps == IInv /\ [Next]_vars => IInv'
<1> SUFFICES ASSUME IInv, [Next]_vars PROVE IInv'
  OBVIOUS
<1>1. CASE UNCHANGED vars
  <2>1. /\ chans' = chans /\ dev' = dev /\ busy' = busy /\ ram' = ram /\ flag' = flag /\ fpga' = fpga
        /\ script' = script /\ wr' = wr /\ buf' = buf /\ up' = up /\ stamp' = stamp /\ ops' = ops
        /\ faults' = faults /\ race' = race /\ crossed' = crossed /\ damaged' = damaged
    BY <1>1 DEF vars
  <2>2. Areas' = Areas /\ Page' = Page /\ Write' = Write
    BY <2>1 DEF Areas, Page, Write
  <2>3. /\ ScriptsOK' /\ CopiesOK' /\ LengthOK' /\ MapApplied' /\ Quiet'
        /\ \A a : (Pending(a) => Pending(a)') /\ (InProgress(a) => InProgress(a)')
    <3>1. \A u \in Thread : /\ Calling(u)' <=> Calling(u)
                            /\ wr'[u].area = wr[u].area /\ wr'[u].n = wr[u].n
      BY <2>1 DEF Calling
    <3> QED BY <3>1, <2>1, CallGoesOn
  <2>4. Typed' /\ PagesOwn'
    BY <2>1, <2>2, PagesFrame DEF IInv, Typed
  <2>5. \A u \in Thread : CallOK(u)'
    BY <2>1 DEF IInv, CallsOK, CallOK, Calling
  <2>6. CallsOK' /\ OneInside'
    BY <2>1, <2>2, <2>5 DEF IInv, CallsOK, OneInside, Inside
  <2>7. Follows'
    BY <2>1, <2>2, <2>3, ConsistentFrame DEF IInv, Follows
  <2> QED BY <2>3, <2>4, <2>6, <2>7 DEF IInv
<1>2. ASSUME NEW t \in Thread, Step(t), ~race PROVE IInv'
  BY <1>2, AssignRamKeeps, ApplyMapKeeps, RequestSaveKeeps, CheckRequestKeeps, CallWriteKeeps,
     PollKeeps, SetBusyKeeps, WritePageKeeps, ReadBackKeeps DEF Step
<1>3. CASE Next
  BY <1>2, <1>3, CallersKeep, MainPassKeeps, PowerCutKeeps, LoadKeeps, RestoreKeeps DEF Next
<1> QED BY <1>1, <1>3
-----------------------------------------------------------------------------
(* The theorems *)

\* The invariant holds in every reachable state.
THEOREM Inductive == Spec => []IInv
<1> QED BY InitKeeps, NextKeeps, PTL DEF Spec

\* No page of an area is ever overwritten by the write of another, although the
\* driver (i2c_s3c.c) writes a page too many behind a full one: the tails of
\* struct xmux_eeprom_param are where they are needed, in every product.
THEOREM WritesStayInTheirArea == Spec => []NoForeignWrite
<1>1. IInv => NoForeignWrite
  <2> SUFFICES ASSUME IInv, NEW p \in DOMAIN dev PROVE Layout[chans][p] \in {Pad, dev[p].area}
    BY DEF NoForeignWrite
  <2>1. PagesOwn /\ p \in DOMAIN Layout[chans]
    BY DEF IInv, Typed
  <2> QED BY <2>1 DEF PagesOwn
<1> QED BY <1>1, Inductive, PTL

\* A settled area has nothing left to do for it.
LEMMA SettledQuiet ==
  ASSUME IInv, NEW a \in Areas, Settled(a)
  PROVE  ~Pending(a) /\ ~InProgress(a)
<1>0. Typed /\ ScriptsOK /\ CallsOK
  BY DEF IInv
<1>1. \A t \in Thread : \A i \in 1..Len(script[t]) : ~Covers(script[t][i], a)
  <2> TAKE t \in Thread
  <2>1. script[t] \in Seq(Steps(chans, t))
    BY <1>0 DEF ScriptsOK, WellFormed
  <2>2. DOMAIN script[t] = 1..Len(script[t])
    BY <2>1
  <2> TAKE i \in 1..Len(script[t])
  <2>3. /\ script[t][i].area # a
        /\ script[t][i].do \in {"request", "check"} => script[t][i].area[1] # a[1]
    BY <2>2 DEF Settled
  <2> QED BY <2>3, FlagNames DEF Covers
<1>2. ASSUME NEW t \in Thread PROVE ~Waits(a, t)
  <2>1. script[t] \in Seq(Steps(chans, t))
    BY <1>0 DEF ScriptsOK, WellFormed
  <2>2. Len(script[t]) \in Nat
    BY <2>1
  <2>3. 2..Len(script[t]) \subseteq 1..Len(script[t])
    BY <2>2
  <2> QED BY <2>3, <1>1 DEF Waits, CoversAny, CoversLater
<1>3. ~Pending(a)
  BY <1>2 DEF Pending, Settled
<1>4. ASSUME NEW t \in Thread, Calling(t), wr[t].area = a PROVE FALSE
  <2>1. /\ script[t] # <<>> /\ Head(script[t]).do \in Saves /\ Head(script[t]).area = a
    BY <1>0, <1>4 DEF CallsOK, CallOK
  <2>2. Head(script[t]) = script[t][1] /\ Len(script[t]) \in Nat /\ Len(script[t]) >= 1
    BY <2>1, <1>0, TailWellFormed DEF ScriptsOK
  <2>3. 1 \in 1..Len(script[t])
    BY <2>2
  <2> QED BY <2>1, <2>2, <2>3, <1>1 DEF Covers
<1> QED BY <1>3, <1>4 DEF InProgress

\* What the device works with is what a restart would load, for every product,
\* every area, every interleaving of the three threads and any number of pages
\* that fail and of power cuts: memory, FPGA and EEPROM agree when nobody is
\* about to save (xmux_config.c, eeprom_write).
THEOREM RestartLoadsWhatWorks == Spec => []SavedIsCurrent
<1>1. IInv => TypeOK
  <2> SUFFICES ASSUME IInv PROVE TypeOK
    OBVIOUS
  <2>1. Typed /\ wr \in [Thread -> Write]
    BY DEF IInv, CallsOK
  <2>2. \A t \in Thread : wr[t].area \in Areas /\ wr[t].try \in 0..TRY_MAX /\ wr[t].k \in 1..(PsiPages + 1)
    BY <2>1 DEF Write
  <2> QED BY <2>1, <2>2 DEF Typed, TypeOK
<1>2. IInv => SavedFollows
  <2> SUFFICES ASSUME IInv, NEW a \in Areas \ (damaged \cup crossed \cup {Mux}), Settled(a), ram[a].ok
               PROVE  Reload(a) = {ram[a]}
    BY DEF SavedFollows
  <2>1. Pending(a) \/ InProgress(a) \/ Consistent(a)
    BY DEF IInv, Follows, Settled
  <2>2. Consistent(a)
    BY <2>1, SettledQuiet
  <2> QED BY <2>2 DEF Consistent, Reload
<1>3. IInv => OutputIsSaved
  <2> SUFFICES ASSUME IInv, Settled(Map), Map \notin crossed PROVE fpga = ram[Map]
    BY DEF OutputIsSaved
  <2>0. Typed /\ ScriptsOK /\ MapApplied
    BY DEF IInv
  <2>1. ASSUME NEW t \in Thread, HasApply(script[t]) PROVE FALSE
    <3>1. script[t] \in Seq(Steps(chans, t))
      BY <2>0 DEF ScriptsOK, WellFormed
    <3>2. PICK i \in 1..Len(script[t]) : script[t][i].do = "apply"
      BY <2>1 DEF HasApply
    <3>3. script[t][i] \in Steps(chans, t) /\ i \in DOMAIN script[t]
      BY <3>1
    <3>4. script[t][i].area = Map
      BY <3>2, <3>3, StepFacts
    <3> QED BY <3>3, <3>4 DEF Settled
  <2> QED BY <2>0, <2>1 DEF MapApplied, Settled
<1>4. IInv => SavedIsCurrent
  BY <1>1, <1>2, <1>3 DEF SavedIsCurrent
<1> QED BY <1>4, Inductive, PTL
=============================================================================
