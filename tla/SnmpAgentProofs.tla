-------------------------- MODULE SnmpAgentProofs --------------------------
(***************************************************************************)
(* Proofs about SnmpAgent, for any numbers of channels, programs, sections *)
(* and nodes, any tables and any requests: an oid leads to the object      *)
(* registered under it and a set changes only what its oid names, a value  *)
(* read alone is the one set last, and a reply accounts for every binding. *)
(* That no oid lies above another is proved of the oids registered; that   *)
(* the pool has a node for each is a hypothesis.                           *)
(***************************************************************************)
EXTENDS SnmpAgent, FiniteSetTheorems, SequenceTheorems, WellFoundedInduction, TLAPS

-----------------------------------------------------------------------------
(* Recursion and least elements *)

\* A set of naturals that is not empty has a least element.
LEMMA LeastNat ==
  ASSUME NEW T, T \subseteq Nat, T # {}
  PROVE  \E x \in T : \A y \in T : x <= y
<1> DEFINE R == OpToRel(<, Nat)
<1>1. IsWellFoundedOn(R, Nat)
  BY NatLessThanWellFounded
<1> HIDE DEF R
<1>2. PICK x \in T : \A y \in T : ~(<<y, x>> \in R)
  BY <1>1, WFMin
<1>3. \A y \in T : y < x => <<y, x>> \in R
  BY DEF R, OpToRel
<1>4. ASSUME NEW y \in T PROVE x <= y
  <2>1. ~(y < x)
    BY <1>2, <1>3
  <2>2. x \in Nat /\ y \in Nat
    OBVIOUS
  <2> QED BY <2>1, <2>2
<1> QED BY <1>4

\* What holds at a and is kept from each number to the next holds up to b.
LEMMA UpTo ==
  ASSUME NEW a \in Nat, NEW b \in Nat, NEW Good \in SUBSET (a..b),
         a <= b => a \in Good,
         \A n \in a..b : n \in Good /\ n + 1 <= b => n + 1 \in Good
  PROVE  Good = a..b
<1> DEFINE Bad == (a..b) \ Good
<1> SUFFICES ASSUME Bad # {} PROVE FALSE
  OBVIOUS
<1>1. PICK m \in Bad : \A y \in Bad : m <= y
  <2>1. Bad \subseteq Nat
    OBVIOUS
  <2> HIDE DEF Bad
  <2> QED BY <2>1, LeastNat
<1>2. m \in a..b /\ m \notin Good
  BY <1>1
<1>3. m # a
  BY <1>2
<1>4. m - 1 \in a..b /\ ~(m <= m - 1) /\ (m - 1) + 1 = m
  BY <1>2, <1>3
<1>5. m - 1 \in Good
  BY <1>1, <1>4
<1> QED BY <1>2, <1>4, <1>5

\* The functions on a..b computed from x by G one step at a time; there is one.
Steps(T, x, a, b, G) ==
  {f \in [a..b -> T] : f[a] = x /\ \A n \in (a + 1)..b : f[n] = G[<<n, f[n - 1]>>]}
LEMMA StepsExist ==
  ASSUME NEW T, NEW x \in T, NEW a \in Nat, NEW b \in Nat, a <= b,
         NEW G \in [((a + 1)..b) \X T -> T]
  PROVE  Steps(T, x, a, b, G) # {}
<1> DEFINE Good == {m \in a..b : Steps(T, x, a, m, G) # {}}
<1>1. a \in Good
  <2> DEFINE g == [n \in a..a |-> x]
  <2>1. g \in [a..a -> T] /\ g[a] = x /\ \A n \in (a + 1)..a : FALSE
    OBVIOUS
  <2>2. g \in Steps(T, x, a, a, G)
    BY <2>1 DEF Steps
  <2>3. a \in a..b
    OBVIOUS
  <2> QED BY <2>2, <2>3
<1>2. ASSUME NEW k \in a..b, k \in Good, k + 1 <= b PROVE k + 1 \in Good
  <2> DEFINE m == k + 1
  <2>1. m \in (a + 1)..b /\ m \in Nat /\ k \in Nat /\ k \in a..k /\ m \in a..b
    BY <1>2
  <2>2. PICK f \in Steps(T, x, a, k, G) : TRUE
    BY <1>2
  <2>3. f \in [a..k -> T] /\ f[a] = x /\ \A n \in (a + 1)..k : f[n] = G[<<n, f[n - 1]>>]
    BY <2>2 DEF Steps
  <2> DEFINE g == [n \in a..m |-> IF n = m THEN G[<<m, f[k]>>] ELSE f[n]]
  <2>4. G[<<m, f[k]>>] \in T
    BY <2>1, <2>3
  <2>5. g \in [a..m -> T] /\ g[a] = x
    BY <2>1, <2>3, <2>4
  <2>6. ASSUME NEW n \in (a + 1)..m PROVE g[n] = G[<<n, g[n - 1]>>]
    <3>1. n - 1 \in a..m /\ n - 1 # m /\ n \in a..m
      BY <2>1
    <3>2. g[n - 1] = f[n - 1]
      BY <3>1
    <3>3. CASE n = m
      BY <3>1, <3>2, <3>3
    <3>4. CASE n # m
      <4>1. n \in (a + 1)..k
        BY <3>4, <2>1
      <4> QED BY <4>1, <3>1, <3>2, <3>4, <2>3
    <3> QED BY <3>3, <3>4
  <2>7. g \in Steps(T, x, a, m, G)
    BY <2>5, <2>6 DEF Steps
  <2> QED BY <2>7, <2>1
<1>3. Good = a..b
  <2>1. Good \in SUBSET (a..b)
    OBVIOUS
  <2> HIDE DEF Good
  <2> QED BY <1>1, <1>2, <2>1, UpTo
<1>4. b \in a..b
  OBVIOUS
<1> QED BY <1>3, <1>4

-----------------------------------------------------------------------------
(* The registered objects *)

\* A list of lists is laid end to end.
LEMMA Flatten ==
  ASSUME NEW S, NEW N \in Nat \ {0}, NEW s \in [1..N -> Seq(S)]
  PROVE  FlattenSeq(s) \in Seq(S)
<1>1. s \in Seq(Seq(S)) /\ Len(s) = N /\ N # 0
  OBVIOUS
<1> DEFINE T == Seq(S)
           G == [e \in (2..N) \X T |-> e[2] \o s[e[1]]]
           Solves(f) == f = [i \in 1..Len(s) |-> IF i = 1 THEN s[i] ELSE f[i - 1] \o s[i]]
           flat == CHOOSE f : Solves(f)
<1>2. FlattenSeq(s) = flat[Len(s)]
  BY <1>1 DEF FlattenSeq
<1>3. s[1] \in T /\ G \in [(2..N) \X T -> T]
  OBVIOUS
<1>4. PICK f \in Steps(T, s[1], 1, N, G) : TRUE
  <2>1. 1 \in Nat /\ N \in Nat /\ 1 <= N /\ 1 + 1 = 2
    OBVIOUS
  <2> HIDE DEF T, G
  <2> QED BY <2>1, <1>3, StepsExist, ZenonT(60)
<1>5. f \in [1..N -> T] /\ f[1] = s[1] /\ \A n \in 2..N : f[n] = G[<<n, f[n - 1]>>]
  <2>1. 1 + 1 = 2
    OBVIOUS
  <2> HIDE DEF T, G
  <2> QED BY <1>4, <2>1 DEF Steps
<1>6. Solves(f)
  <2>1. ASSUME NEW n \in 1..N, n # 1 PROVE f[n] = f[n - 1] \o s[n]
    <3>1. n \in 2..N /\ n - 1 \in 1..N
      BY <2>1
    <3>2. f[n - 1] \in T
      BY <3>1, <1>5
    <3>3. f[n] = G[<<n, f[n - 1]>>]
      BY <3>1, <1>5
    <3> QED BY <3>1, <3>2, <3>3
  <2> QED BY <2>1, <1>5, <1>1
<1>7. Solves(flat)
  BY <1>6
<1> HIDE DEF flat
<1> DEFINE Good == {n \in 1..N : flat[n] \in T}
<1>8. 1 \in Good
  BY <1>7, <1>1
<1>9. ASSUME NEW n \in 1..N, n \in Good, n + 1 <= N PROVE n + 1 \in Good
  <2>1. n + 1 \in 1..N /\ n + 1 # 1 /\ (n + 1) - 1 = n
    BY <1>9
  <2>2. flat[n + 1] = flat[n] \o s[n + 1]
    BY <2>1, <1>7, <1>1
  <2>3. flat[n] \in Seq(S) /\ s[n + 1] \in Seq(S)
    BY <2>1, <1>9
  <2>4. flat[n] \o s[n + 1] \in Seq(S)
    BY <2>3
  <2> QED BY <2>1, <2>2, <2>4
<1>10. Good = 1..N
  <2>1. Good \in SUBSET (1..N) /\ 1 \in Nat /\ N \in Nat
    OBVIOUS
  <2> HIDE DEF Good
  <2> QED BY <2>1, <1>8, <1>9, UpTo
<1>11. N \in 1..N
  OBVIOUS
<1> QED BY <1>1, <1>2, <1>10, <1>11

\* What is registered, without the order: the objects of the channels, the nodes of
\* the tables, and those of which there is one.
TransOid(i) == XMUX_ROOT_OID \o <<12, i>>
ChanObjects == {"PAT", "PMT", "SDT", "EIT"}
Kinds == {<<"PMT", 2>>, <<"SDT", 5>>, <<"EIT", 6>>}
ChannelOids ==
  {Reg("PAT", ChanOid(c, <<1>>)) : c \in Chans}
  \cup {Reg(e[1][1], ChanOid(e[2], <<e[1][2], e[3]>>)) : e \in Kinds \X Chans \X Nat}
Regular ==
  ChannelOids
  \cup {Reg("PID_TRANS_INFO", TransOid(i)) : i \in 1..(CHANNEL_MAX_NUM * NODE_NUM)}
  \cup {Reg("PSI_STATUS", XMUX_ROOT_OID \o <<16>>), Reg("APPLY_PSI", XMUX_ROOT_OID \o <<17>>),
        Reg("TUNNER_0_PARAM", XMUX_ROOT_OID \o <<19>>), Reg("LOAD_INFO", LoadOid)}

LEMMA ConstantFacts ==
  /\ CHANNEL_MAX_NUM \in Nat \ {0} /\ PROGRAM_MAX_NUM \in Nat \ {0}
  /\ SDT_SECTION_NUM \in Nat \ {0} /\ EIT_SECTION_NUM \in Nat \ {0}
  /\ NODE_NUM \in Nat \ {0} /\ NODE_MAX_SIZE \in Nat \ {0}
  /\ NODE_SIZE \in Nat /\ MaxBinds \in Nat /\ MaxRequests \in Nat
  /\ CHANNEL_MAX_NUM * NODE_NUM \in Nat
<1>1. CHANNEL_MAX_NUM \in Nat /\ NODE_NUM \in Nat
  BY AgentAssumption
<1>2. CHANNEL_MAX_NUM * NODE_NUM \in Nat
  BY <1>1
<1> QED BY AgentAssumption, <1>2

LEMMA ConcatNat ==
  ASSUME NEW s \in Seq(Nat), NEW t \in Seq(Nat)
  PROVE  /\ s \o t \in Seq(Nat) /\ Len(s \o t) = Len(s) + Len(t)
         /\ \A i \in 1..(Len(s) + Len(t)) : (s \o t)[i] = IF i <= Len(s) THEN s[i] ELSE t[i - Len(s)]
OBVIOUS

\* The oids of a channel, number by number.
LEMMA ChanOidFacts ==
  ASSUME NEW c \in Nat, NEW rest \in Seq(Nat), Len(rest) >= 1
  PROVE  /\ ChanOid(c, rest) \in Seq(Nat) /\ Len(ChanOid(c, rest)) = 7 + Len(rest)
         /\ ChanOid(c, rest)[7] = c /\ ChanOid(c, rest)[8] = rest[1]
<1> DEFINE h == XMUX_ROOT_OID \o <<c>>
<1>1. h \in Seq(Nat) /\ Len(h) = 7
  BY DEF XMUX_ROOT_OID
<1>2. h[7] = c
  BY DEF XMUX_ROOT_OID
<1>3. ChanOid(c, rest) = h \o rest
  BY DEF ChanOid
<1> HIDE DEF h
<1>4. /\ h \o rest \in Seq(Nat) /\ Len(h \o rest) = Len(h) + Len(rest)
      /\ \A i \in 1..(Len(h) + Len(rest)) : (h \o rest)[i] = IF i <= Len(h) THEN h[i] ELSE rest[i - Len(h)]
  BY <1>1, ConcatNat
<1>5. Len(rest) \in Nat /\ 7 \in 1..(7 + Len(rest)) /\ 8 \in 1..(7 + Len(rest))
  OBVIOUS
<1>6. (h \o rest)[7] = h[7] /\ (h \o rest)[8] = rest[1]
  BY <1>1, <1>4, <1>5
<1> QED BY <1>1, <1>2, <1>3, <1>4, <1>6

LEMMA PatOidFacts ==
  ASSUME NEW c \in Nat, NEW x \in Nat
  PROVE  /\ ChanOid(c, <<x>>) \in Seq(Nat) /\ Len(ChanOid(c, <<x>>)) = 8
         /\ ChanOid(c, <<x>>)[7] = c /\ ChanOid(c, <<x>>)[8] = x
<1>1. <<x>> \in Seq(Nat) /\ Len(<<x>>) = 1 /\ <<x>>[1] = x
  OBVIOUS
<1>2. PICK t : t = <<x>>
  OBVIOUS
<1>3. t \in Seq(Nat) /\ Len(t) = 1 /\ t[1] = x
  BY <1>1, <1>2
<1>4. Len(t) >= 1
  BY <1>3
<1>5. /\ ChanOid(c, t) \in Seq(Nat) /\ Len(ChanOid(c, t)) = 7 + Len(t)
      /\ ChanOid(c, t)[7] = c /\ ChanOid(c, t)[8] = t[1]
  BY <1>3, <1>4, ChanOidFacts
<1> QED BY <1>2, <1>3, <1>5

LEMMA SectionOidFacts ==
  ASSUME NEW c \in Nat, NEW x \in Nat, NEW y \in Nat
  PROVE  /\ ChanOid(c, <<x, y>>) \in Seq(Nat) /\ Len(ChanOid(c, <<x, y>>)) = 9
         /\ ChanOid(c, <<x, y>>)[7] = c /\ ChanOid(c, <<x, y>>)[8] = x
<1>1. <<x, y>> \in Seq(Nat) /\ Len(<<x, y>>) = 2 /\ <<x, y>>[1] = x
  OBVIOUS
<1>2. PICK t : t = <<x, y>>
  OBVIOUS
<1>3. t \in Seq(Nat) /\ Len(t) = 2 /\ t[1] = x
  BY <1>1, <1>2
<1>4. Len(t) >= 1
  BY <1>3
<1>5. /\ ChanOid(c, t) \in Seq(Nat) /\ Len(ChanOid(c, t)) = 7 + Len(t)
      /\ ChanOid(c, t)[7] = c /\ ChanOid(c, t)[8] = t[1]
  BY <1>3, <1>4, ChanOidFacts
<1> QED BY <1>2, <1>3, <1>5

LEMMA ChanNat == \A c \in Chans : c \in Nat /\ c >= 1 /\ c <= CHANNEL_MAX_NUM + 1
BY ConstantFacts DEF Chans

LEMMA ChannelOidsAre ==
  ASSUME NEW r
  PROVE  r \in ChannelOids <=>
           \/ \E c \in Chans : r = Reg("PAT", ChanOid(c, <<1>>))
           \/ \E k \in Kinds, c \in Chans, i \in Nat : r = Reg(k[1], ChanOid(c, <<k[2], i>>))
<1> DEFINE F(e) == Reg(e[1][1], ChanOid(e[2], <<e[1][2], e[3]>>))
<1>1. ASSUME NEW k \in Kinds, NEW c \in Chans, NEW i \in Nat
      PROVE  Reg(k[1], ChanOid(c, <<k[2], i>>)) \in {F(e) : e \in Kinds \X Chans \X Nat}
  <2>1. <<k, c, i>> \in Kinds \X Chans \X Nat /\ F(<<k, c, i>>) = Reg(k[1], ChanOid(c, <<k[2], i>>))
    OBVIOUS
  <2> HIDE DEF F
  <2> QED BY <2>1
<1>2. ASSUME NEW e \in Kinds \X Chans \X Nat
      PROVE  \E k \in Kinds, c \in Chans, i \in Nat : F(e) = Reg(k[1], ChanOid(c, <<k[2], i>>))
  <2>1. e[1] \in Kinds /\ e[2] \in Chans /\ e[3] \in Nat
    OBVIOUS
  <2> QED BY <2>1
<1>3. ChannelOids = {Reg("PAT", ChanOid(c, <<1>>)) : c \in Chans} \cup {F(e) : e \in Kinds \X Chans \X Nat}
  BY DEF ChannelOids
<1> HIDE DEF F
<1> QED BY <1>1, <1>2, <1>3

LEMMA RegularCases ==
  ASSUME NEW r \in Regular
  PROVE  \/ r.obj \in ChanObjects
         \/ r.obj = "PID_TRANS_INFO"
            /\ \E i \in 1..(CHANNEL_MAX_NUM * NODE_NUM) : r = Reg("PID_TRANS_INFO", TransOid(i))
         \/ r.obj \in {"PSI_STATUS", "APPLY_PSI", "TUNNER_0_PARAM", "LOAD_INFO"}
<1>1. CASE r \in ChannelOids
  <2>1. \A k \in Kinds : k[1] \in ChanObjects
    BY DEF Kinds, ChanObjects
  <2>2. "PAT" \in ChanObjects
    BY DEF ChanObjects
  <2>3. CASE \E c \in Chans : r = Reg("PAT", ChanOid(c, <<1>>))
    <3>1. r.obj = "PAT"
      BY <2>3 DEF Reg
    <3> QED BY <3>1, <2>2
  <2>4. CASE \E k \in Kinds, c \in Chans, i \in Nat : r = Reg(k[1], ChanOid(c, <<k[2], i>>))
    <3>1. PICK k \in Kinds, c \in Chans, i \in Nat : r = Reg(k[1], ChanOid(c, <<k[2], i>>))
      BY <2>4
    <3>2. r.obj = k[1]
      BY <3>1 DEF Reg
    <3> QED BY <3>2, <2>1
  <2> QED BY <1>1, <2>3, <2>4, ChannelOidsAre
<1>2. CASE r \notin ChannelOids
  BY <1>2 DEF Regular, Reg
<1> QED BY <1>1, <1>2

\* The list of registrations, and the nodes of the tables in it.
LEMMA RegistryFacts ==
  /\ xmux_snmp_register_all_oids \in Seq(Regular)
  /\ Registered \subseteq Regular
  /\ \A i \in 1..Len(xmux_snmp_register_all_oids) : xmux_snmp_register_all_oids[i] \in Registered
  /\ \A r \in Registered : \E i \in 1..Len(xmux_snmp_register_all_oids) :
       xmux_snmp_register_all_oids[i] = r
  /\ \A i \in 1..(CHANNEL_MAX_NUM * NODE_NUM) : Reg("PID_TRANS_INFO", TransOid(i)) \in Registered
<1> DEFINE channels == [c \in Chans |-> register_channel_oids(c)]
           a == FlattenSeq(channels)
           b == register_input_trans_oids
           d == register_solo_oids
           all == xmux_snmp_register_all_oids
<1>1. ASSUME NEW c \in Chans PROVE register_channel_oids(c) \in Seq(Regular)
  <2>3. ASSUME NEW k \in Kinds, NEW n \in Nat
        PROVE  register_sections(k[1], c, k[2], n) \in Seq(Regular)
    <3>1. ASSUME NEW i \in 1..n PROVE Reg(k[1], ChanOid(c, <<k[2], i>>)) \in Regular
      BY ChannelOidsAre DEF Regular
    <3> QED BY <3>1 DEF register_sections
  <2>4. <<Reg("PAT", ChanOid(c, <<1>>))>> \in Seq(Regular)
    <3>1. Reg("PAT", ChanOid(c, <<1>>)) \in Regular
      BY ChannelOidsAre DEF Regular
    <3> QED BY <3>1
  <2>5. /\ register_sections("PMT", c, 2, PROGRAM_MAX_NUM) \in Seq(Regular)
        /\ register_sections("SDT", c, 5, SDT_SECTION_NUM) \in Seq(Regular)
        /\ register_sections("EIT", c, 6, EIT_SECTION_NUM) \in Seq(Regular)
    <3>1. \A t, o : <<t, o>>[1] = t /\ <<t, o>>[2] = o
      OBVIOUS
    <3>2. <<"PMT", 2>> \in Kinds /\ <<"SDT", 5>> \in Kinds /\ <<"EIT", 6>> \in Kinds
      BY DEF Kinds
    <3> QED BY <2>3, <3>1, <3>2, ConstantFacts
  <2> QED BY <2>4, <2>5 DEF register_channel_oids
<1>2. a \in Seq(Regular)
  <2>1. Chans = 1..(CHANNEL_MAX_NUM + 1) /\ CHANNEL_MAX_NUM + 1 \in Nat \ {0}
    BY ConstantFacts DEF Chans
  <2>2. channels \in [1..(CHANNEL_MAX_NUM + 1) -> Seq(Regular)]
    BY <1>1, <2>1
  <2> HIDE DEF channels
  <2> QED BY <2>1, <2>2, Flatten
<1>3. b \in Seq(Regular) /\ Len(b) = CHANNEL_MAX_NUM * NODE_NUM
      /\ \A i \in 1..Len(b) : b[i] = Reg("PID_TRANS_INFO", TransOid(i))
  <2> DEFINE n == CHANNEL_MAX_NUM * NODE_NUM
  <2>1. n \in Nat
    BY ConstantFacts
  <2>2. \A i \in 1..n : Reg("PID_TRANS_INFO", TransOid(i)) \in Regular
    BY DEF Regular
  <2>3. b = [i \in 1..n |-> Reg("PID_TRANS_INFO", TransOid(i))]
    BY DEF register_input_trans_oids, TransOid
  <2> HIDE DEF n, b
  <2>4. b \in Seq(Regular) /\ Len(b) = n /\ \A i \in 1..n : b[i] = Reg("PID_TRANS_INFO", TransOid(i))
    BY <2>1, <2>2, <2>3
  <2> QED BY <2>4 DEF n
<1>4. d \in Seq(Regular)
  <2>1. /\ Reg("PSI_STATUS", XMUX_ROOT_OID \o <<16>>) \in Regular
        /\ Reg("APPLY_PSI", XMUX_ROOT_OID \o <<17>>) \in Regular
        /\ Reg("TUNNER_0_PARAM", XMUX_ROOT_OID \o <<19>>) \in Regular
        /\ Reg("LOAD_INFO", LoadOid) \in Regular
    BY DEF Regular
  <2> QED BY <2>1 DEF register_solo_oids
<1>5. all = (a \o b) \o d
  BY DEF xmux_snmp_register_all_oids
<1> HIDE DEF a, b, d, all
<1>6. a \o b \in Seq(Regular) /\ all \in Seq(Regular)
  BY <1>2, <1>3, <1>4, <1>5
<1>7. Registered = {all[i] : i \in 1..Len(all)}
  BY <1>6 DEF Registered, Range, all
<1>8. Registered \subseteq Regular
  BY <1>6, <1>7
<1>9. ASSUME NEW i \in 1..Len(b) PROVE b[i] \in Registered
  <2>1. Len(a) + i \in 1..Len(a \o b) /\ (a \o b)[Len(a) + i] = b[i]
    BY <1>2, <1>3
  <2>2. Len(a) + i \in 1..Len(all) /\ all[Len(a) + i] = (a \o b)[Len(a) + i]
    BY <2>1, <1>4, <1>5, <1>6
  <2> QED BY <2>1, <2>2, <1>7
<1> QED BY <1>3, <1>6, <1>7, <1>8, <1>9 DEF all
-----------------------------------------------------------------------------
(* The tree *)

Objects == {r.obj : r \in Registered}

\* The nodes of an oid are its beginnings.
LEMMA PathFacts ==
  ASSUME NEW oid \in Seq(Nat) \ {<<>>}
  PROVE  /\ oid \in Path(oid) /\ <<>> \notin Path(oid) /\ IsFiniteSet(Path(oid))
         /\ \A p \in Path(oid) : Len(p) \in 1..Len(oid) /\ p = SubSeq(oid, 1, Len(p))
         /\ \A k \in 1..Len(oid) : /\ SubSeq(oid, 1, k) \in Path(oid)
                                   /\ Len(SubSeq(oid, 1, k)) = k
                                   /\ k > 1 => Front(SubSeq(oid, 1, k)) = SubSeq(oid, 1, k - 1)
<1>1. Len(oid) \in Nat /\ Len(oid) # 0 /\ Len(oid) \in 1..Len(oid)
  OBVIOUS
<1>2. oid = SubSeq(oid, 1, Len(oid))
  BY <1>1
<1>3. ASSUME NEW k \in 1..Len(oid)
      PROVE  /\ SubSeq(oid, 1, k) \in Seq(Nat)
             /\ Len(SubSeq(oid, 1, k)) = k
             /\ \A i \in 1..k : SubSeq(oid, 1, k)[i] = oid[i]
             /\ k > 1 => Front(SubSeq(oid, 1, k)) = SubSeq(oid, 1, k - 1)
  <2> DEFINE p == SubSeq(oid, 1, k)
  <2>1. p \in Seq(Nat) /\ Len(p) = k /\ \A i \in 1..k : p[i] = oid[i]
    BY <1>1
  <2>2. ASSUME k > 1 PROVE Front(p) = SubSeq(oid, 1, k - 1)
    <3>1. Front(p) = SubSeq(p, 1, k - 1)
      BY <2>1 DEF Front
    <3> HIDE DEF p
    <3>2. k - 1 \in 1..k /\ k - 1 \in 1..Len(oid)
      BY <2>2
    <3>3. /\ SubSeq(p, 1, k - 1) \in Seq(Nat) /\ Len(SubSeq(p, 1, k - 1)) = k - 1
          /\ \A i \in 1..(k - 1) : SubSeq(p, 1, k - 1)[i] = p[i]
      BY <2>1, <3>2
    <3>4. /\ SubSeq(oid, 1, k - 1) \in Seq(Nat) /\ Len(SubSeq(oid, 1, k - 1)) = k - 1
          /\ \A i \in 1..(k - 1) : SubSeq(oid, 1, k - 1)[i] = oid[i]
      BY <1>1, <3>2
    <3>5. \A i \in 1..(k - 1) : i \in 1..k
      OBVIOUS
    <3>6. SubSeq(p, 1, k - 1) = SubSeq(oid, 1, k - 1)
      BY <3>3, <3>4, <3>5, <2>1, SeqEqual
    <3> QED BY <3>1, <3>6
  <2> QED BY <2>1, <2>2
<1>4. IsFiniteSet(Path(oid))
  <2> DEFINE f == [k \in 1..Len(oid) |-> SubSeq(oid, 1, k)]
  <2>1. f \in Surjection(1..Len(oid), Path(oid))
    BY DEF Surjection, Path
  <2>2. IsFiniteSet(1..Len(oid))
    BY <1>1, FS_Interval
  <2> HIDE DEF f
  <2> QED BY <2>1, <2>2, FS_Surjection
<1>5. \A p \in Path(oid) : \E k \in 1..Len(oid) : p = SubSeq(oid, 1, k)
  BY DEF Path
<1>6. \A k \in 1..Len(oid) : SubSeq(oid, 1, k) \in Path(oid)
  BY DEF Path
<1>7. \A p \in Path(oid) : Len(p) \in 1..Len(oid) /\ p = SubSeq(oid, 1, Len(p))
  BY <1>3, <1>5
<1>8. <<>> \notin Path(oid)
  <2>1. Len(<<>>) = 0
    OBVIOUS
  <2> QED BY <1>7, <2>1
<1>9. oid \in Path(oid)
  BY <1>1, <1>2, <1>6
<1> QED BY <1>3, <1>4, <1>6, <1>7, <1>8, <1>9

\* What has a length has elements.
LEMMA LongNotEmpty ==
  ASSUME NEW s, Len(s) \in {7, 8, 9}
  PROVE  s # <<>>
<1>1. Len(<<>>) = 0
  OBVIOUS
<1> QED BY <1>1

LEMMA RegisteredFacts ==
  ASSUME NEW r \in Registered
  PROVE  r.oid \in Seq(Nat) \ {<<>>} /\ r.obj \in Objects /\ r.obj # NULL
<1>1. r \in Regular /\ r.obj \in Objects
  BY RegistryFacts DEF Objects
<1>2. CASE r \in ChannelOids
  <2>1. CASE \E c \in Chans : r = Reg("PAT", ChanOid(c, <<1>>))
    <3>1. PICK c \in Chans : r = Reg("PAT", ChanOid(c, <<1>>))
      BY <2>1
    <3>2. ChanOid(c, <<1>>) \in Seq(Nat) /\ Len(ChanOid(c, <<1>>)) = 8
      BY ChanNat, PatOidFacts
    <3>3. r.oid = ChanOid(c, <<1>>) /\ r.obj = "PAT"
      BY <3>1 DEF Reg
    <3>4. ChanOid(c, <<1>>) # <<>>
      BY <3>2, LongNotEmpty
    <3>5. "PAT" # NULL
      BY DEF NULL
    <3> HIDE DEF NULL
    <3> QED BY <1>1, <3>2, <3>3, <3>4, <3>5, ZenonT(60)
  <2>2. CASE \E k \in Kinds, c \in Chans, i \in Nat : r = Reg(k[1], ChanOid(c, <<k[2], i>>))
    <3>1. PICK k \in Kinds, c \in Chans, i \in Nat : r = Reg(k[1], ChanOid(c, <<k[2], i>>))
      BY <2>2
    <3>2. k[1] \in {"PMT", "SDT", "EIT"} /\ k[2] \in Nat
      BY DEF Kinds
    <3>3. ChanOid(c, <<k[2], i>>) \in Seq(Nat) /\ Len(ChanOid(c, <<k[2], i>>)) = 9
      BY <3>2, ChanNat, SectionOidFacts
    <3>4. r.oid = ChanOid(c, <<k[2], i>>) /\ r.obj = k[1]
      BY <3>1 DEF Reg
    <3>5. k[1] # NULL
      BY <3>2 DEF NULL
    <3>6. ChanOid(c, <<k[2], i>>) # <<>>
      BY <3>3, LongNotEmpty
    <3> HIDE DEF Reg, NULL
    <3> QED BY <1>1, <3>3, <3>4, <3>5, <3>6, ZenonT(60)
  <2> QED BY <1>2, <2>1, <2>2, ChannelOidsAre
<1>3. CASE r \in {Reg("PID_TRANS_INFO", TransOid(i)) : i \in 1..(CHANNEL_MAX_NUM * NODE_NUM)}
  <2>1. PICK i \in 1..(CHANNEL_MAX_NUM * NODE_NUM) : r = Reg("PID_TRANS_INFO", TransOid(i))
    BY <1>3
  <2>2. i \in Nat
    BY ConstantFacts
  <2>3. TransOid(i) \in Seq(Nat) /\ Len(TransOid(i)) = 8
    BY <2>2 DEF TransOid, XMUX_ROOT_OID
  <2>4. r.oid = TransOid(i) /\ r.obj = "PID_TRANS_INFO"
    BY <2>1 DEF Reg
  <2>5. TransOid(i) # <<>>
    BY <2>3, LongNotEmpty
  <2>6. "PID_TRANS_INFO" # NULL
    BY DEF NULL
  <2> HIDE DEF NULL
  <2> QED BY <1>1, <2>3, <2>4, <2>5, <2>6, ZenonT(60)
<1>4. CASE \E obj \in {"PSI_STATUS", "APPLY_PSI", "TUNNER_0_PARAM", "LOAD_INFO"}, n \in Nat :
             r = Reg(obj, XMUX_ROOT_OID \o <<n>>)
  <2>1. PICK obj \in {"PSI_STATUS", "APPLY_PSI", "TUNNER_0_PARAM", "LOAD_INFO"}, n \in Nat :
          r = Reg(obj, XMUX_ROOT_OID \o <<n>>)
    BY <1>4
  <2>2. XMUX_ROOT_OID \o <<n>> \in Seq(Nat) /\ Len(XMUX_ROOT_OID \o <<n>>) = 7
    BY DEF XMUX_ROOT_OID
  <2>3. r.oid = XMUX_ROOT_OID \o <<n>> /\ r.obj = obj
    BY <2>1 DEF Reg
  <2>4. XMUX_ROOT_OID \o <<n>> # <<>>
    BY <2>2, LongNotEmpty
  <2>5. obj # NULL
    BY DEF NULL
  <2> HIDE DEF NULL
  <2> QED BY <1>1, <2>2, <2>3, <2>4, <2>5, ZenonT(60)
<1>5. r \in {Reg("PSI_STATUS", XMUX_ROOT_OID \o <<16>>), Reg("APPLY_PSI", XMUX_ROOT_OID \o <<17>>),
        Reg("TUNNER_0_PARAM", XMUX_ROOT_OID \o <<19>>), Reg("LOAD_INFO", XMUX_ROOT_OID \o <<100>>)}
      => \E obj \in {"PSI_STATUS", "APPLY_PSI", "TUNNER_0_PARAM", "LOAD_INFO"}, n \in Nat :
             r = Reg(obj, XMUX_ROOT_OID \o <<n>>)
  OBVIOUS
<1> QED BY <1>1, <1>2, <1>3, <1>4, <1>5 DEF Regular, LoadOid

\* An oid tells by its numbers what is registered there.
ObjectAt(oid) ==
  IF Len(oid) = 7
  THEN IF oid[7] = 16 THEN "PSI_STATUS" ELSE IF oid[7] = 17 THEN "APPLY_PSI"
       ELSE IF oid[7] = 19 THEN "TUNNER_0_PARAM" ELSE "LOAD_INFO"
  ELSE IF Len(oid) = 8 THEN IF oid[7] = 12 THEN "PID_TRANS_INFO" ELSE "PAT"
  ELSE IF oid[8] = 2 THEN "PMT" ELSE IF oid[8] = 5 THEN "SDT" ELSE "EIT"

LEMMA Shapes ==
  ASSUME FewChannels, NEW r \in Registered
  PROVE  /\ r = Reg(ObjectAt(r.oid), r.oid)
         /\ \/ Len(r.oid) = 7 /\ r.oid[7] \in {16, 17, 19, 100}
            \/ Len(r.oid) = 8 /\ r.oid[7] \in 1..10 /\ r.oid[8] = 1
            \/ Len(r.oid) = 8 /\ r.oid[7] = 12
            \/ Len(r.oid) = 9 /\ r.oid[7] \in 1..10 /\ r.oid[8] \in {2, 5, 6}
<1>1. r \in Regular
  BY RegistryFacts
<1>2. \A c \in Chans : c \in Nat /\ c \in 1..10
  <2>1. CHANNEL_MAX_NUM \in Nat /\ CHANNEL_MAX_NUM <= 9
    BY ConstantFacts DEF FewChannels
  <2> QED BY <2>1, ChanNat
<1>3. CASE \E c \in Chans : r = Reg("PAT", ChanOid(c, <<1>>))
  <2>1. PICK c \in Chans : r = Reg("PAT", ChanOid(c, <<1>>))
    BY <1>3
  <2>2. r.oid = ChanOid(c, <<1>>) /\ r = Reg("PAT", r.oid)
    BY <2>1 DEF Reg
  <2>3. Len(r.oid) = 8 /\ r.oid[7] = c /\ r.oid[8] = 1
    BY <1>2, <2>2, PatOidFacts
  <2>4. ObjectAt(r.oid) = "PAT"
    BY <1>2, <2>3 DEF ObjectAt
  <2> QED BY <1>2, <2>2, <2>3, <2>4
<1>4. CASE \E k \in Kinds, c \in Chans, i \in Nat : r = Reg(k[1], ChanOid(c, <<k[2], i>>))
  <2>1. PICK k \in Kinds, c \in Chans, i \in Nat : r = Reg(k[1], ChanOid(c, <<k[2], i>>))
    BY <1>4
  <2>2. r.oid = ChanOid(c, <<k[2], i>>) /\ r = Reg(k[1], r.oid)
    BY <2>1 DEF Reg
  <2>3. k[2] \in {2, 5, 6} /\ k[1] = IF k[2] = 2 THEN "PMT" ELSE IF k[2] = 5 THEN "SDT" ELSE "EIT"
    BY DEF Kinds
  <2>4. Len(r.oid) = 9 /\ r.oid[7] = c /\ r.oid[8] = k[2]
    BY <1>2, <2>2, <2>3, SectionOidFacts
  <2>5. ObjectAt(r.oid) = k[1]
    BY <2>3, <2>4 DEF ObjectAt
  <2> QED BY <1>2, <2>2, <2>3, <2>4, <2>5
<1>5. CASE \E i \in 1..(CHANNEL_MAX_NUM * NODE_NUM) : r = Reg("PID_TRANS_INFO", TransOid(i))
  <2>1. PICK i \in 1..(CHANNEL_MAX_NUM * NODE_NUM) : r = Reg("PID_TRANS_INFO", TransOid(i))
    BY <1>5
  <2>2. r.oid = TransOid(i) /\ r = Reg("PID_TRANS_INFO", r.oid)
    BY <2>1 DEF Reg
  <2>3. Len(r.oid) = 8 /\ r.oid[7] = 12
    BY <2>2 DEF TransOid, XMUX_ROOT_OID
  <2>4. ObjectAt(r.oid) = "PID_TRANS_INFO"
    BY <2>3 DEF ObjectAt
  <2> QED BY <2>2, <2>3, <2>4
<1>6. ASSUME NEW obj, NEW n \in {16, 17, 19, 100}, r = Reg(obj, XMUX_ROOT_OID \o <<n>>),
             obj = ObjectAt(XMUX_ROOT_OID \o <<n>>)
      PROVE  r = Reg(ObjectAt(r.oid), r.oid) /\ Len(r.oid) = 7 /\ r.oid[7] \in {16, 17, 19, 100}
  <2>1. r.oid = XMUX_ROOT_OID \o <<n>> /\ r = Reg(obj, r.oid)
    BY <1>6 DEF Reg
  <2>2. Len(r.oid) = 7 /\ r.oid[7] = n
    BY <2>1 DEF XMUX_ROOT_OID
  <2> QED BY <1>6, <2>1, <2>2
<1>7. ASSUME NEW n \in {16, 17, 19, 100}
      PROVE  ObjectAt(XMUX_ROOT_OID \o <<n>>) =
               IF n = 16 THEN "PSI_STATUS" ELSE IF n = 17 THEN "APPLY_PSI"
               ELSE IF n = 19 THEN "TUNNER_0_PARAM" ELSE "LOAD_INFO"
  <2>1. Len(XMUX_ROOT_OID \o <<n>>) = 7 /\ (XMUX_ROOT_OID \o <<n>>)[7] = n
    BY DEF XMUX_ROOT_OID
  <2> QED BY <2>1 DEF ObjectAt
<1>8. CASE r \in {Reg("PSI_STATUS", XMUX_ROOT_OID \o <<16>>), Reg("APPLY_PSI", XMUX_ROOT_OID \o <<17>>),
        Reg("TUNNER_0_PARAM", XMUX_ROOT_OID \o <<19>>), Reg("LOAD_INFO", LoadOid)}
  <2>1. LoadOid = XMUX_ROOT_OID \o <<100>>
    BY DEF LoadOid
  <2>2. \E n \in {16, 17, 19, 100} : r = Reg(ObjectAt(XMUX_ROOT_OID \o <<n>>), XMUX_ROOT_OID \o <<n>>)
    BY <1>7, <1>8, <2>1
  <2> QED BY <1>6, <2>2
<1> QED BY <1>1, <1>3, <1>4, <1>5, <1>8, ChannelOidsAre DEF Regular

\* No oid is registered twice or above another, as the numbers of the channels stay
\* below those of the other objects
\* (register_channel_oids, register_input_trans_oids, register_solo_oids).
THEOREM OidsLieApart ==
  ASSUME FewChannels
  PROVE  OidsApart
<1> SUFFICES ASSUME NEW r \in Registered, NEW s \in Registered, r.oid \in Path(s.oid) PROVE r = s
  BY DEF OidsApart
<1>1. r.oid \in Seq(Nat) \ {<<>>} /\ s.oid \in Seq(Nat) \ {<<>>}
  BY RegisteredFacts
<1> DEFINE k == Len(r.oid)
<1>2. k \in 1..Len(s.oid) /\ r.oid = SubSeq(s.oid, 1, k)
  BY <1>1, PathFacts
<1>3. \A j \in 1..k : r.oid[j] = s.oid[j]
  <2>1. \A j \in 1..k : SubSeq(s.oid, 1, k)[j] = s.oid[j]
    BY <1>1, <1>2
  <2> QED BY <1>2, <2>1
<1>4. /\ \/ k = 7 /\ r.oid[7] \in {16, 17, 19, 100}
         \/ k = 8 /\ r.oid[7] \in 1..10 /\ r.oid[8] = 1
         \/ k = 8 /\ r.oid[7] = 12
         \/ k = 9 /\ r.oid[7] \in 1..10 /\ r.oid[8] \in {2, 5, 6}
      /\ \/ Len(s.oid) = 7 /\ s.oid[7] \in {16, 17, 19, 100}
         \/ Len(s.oid) = 8 /\ s.oid[7] \in 1..10 /\ s.oid[8] = 1
         \/ Len(s.oid) = 8 /\ s.oid[7] = 12
         \/ Len(s.oid) = 9 /\ s.oid[7] \in 1..10 /\ s.oid[8] \in {2, 5, 6}
      /\ r = Reg(ObjectAt(r.oid), r.oid) /\ s = Reg(ObjectAt(s.oid), s.oid)
  BY Shapes
<1>5. Len(s.oid) \in Nat /\ k \in Nat /\ k <= Len(s.oid) /\ k >= 7
  BY <1>1, <1>2, <1>4, SMTT(60)
<1>6. r.oid[7] = s.oid[7] /\ (k >= 8 => r.oid[8] = s.oid[8])
  BY <1>3, <1>5
<1> HIDE DEF k
<1>7. Len(s.oid) = k
  <2>1. s.oid[7] \notin 1..10 \/ s.oid[7] \notin {12, 16, 17, 19, 100}
    OBVIOUS
  <2>2. CASE k = 7
    BY <1>4, <1>6, <2>2
  <2>3. CASE k = 8
    BY <1>4, <1>5, <1>6, <2>3, SMTT(60)
  <2>4. CASE k = 9
    <3>1. Len(s.oid) = 7 \/ Len(s.oid) = 8 \/ Len(s.oid) = 9
      BY <1>4
    <3>2. ~(9 <= 7) /\ ~(9 <= 8)
      OBVIOUS
    <3> QED BY <3>1, <3>2, <1>5, <2>4
  <2> QED BY <1>4, <2>2, <2>3, <2>4
<1>8. r.oid = s.oid
  BY <1>1, <1>3, <1>7, SeqEqual DEF k
<1> QED BY <1>4, <1>8

LEMMA FiniteNodes == IsFiniteSet(AllNodes) /\ Cardinality(AllNodes) \in Nat
<1> DEFINE all == xmux_snmp_register_all_oids
           f == [i \in 1..Len(all) |-> Path(all[i].oid)]
           P == {Path(r.oid) : r \in Registered}
<1>1. Len(all) \in Nat
  BY RegistryFacts
<1>2. f \in Surjection(1..Len(all), P)
  <2>1. \A i \in 1..Len(all) : all[i] \in Registered
    BY RegistryFacts
  <2>2. \A r \in Registered : \E i \in 1..Len(all) : all[i] = r
    BY RegistryFacts
  <2> HIDE DEF all
  <2>3. f \in [1..Len(all) -> P]
    BY <2>1
  <2>4. ASSUME NEW S \in P PROVE \E i \in 1..Len(all) : f[i] = S
    <3>1. PICK r \in Registered : S = Path(r.oid)
      OBVIOUS
    <3>2. PICK i \in 1..Len(all) : all[i] = r
      BY <2>2
    <3> QED BY <3>1, <3>2
  <2> HIDE DEF f, P
  <2> QED BY <2>3, <2>4 DEF Surjection
<1>3. IsFiniteSet(P)
  <2>1. IsFiniteSet(1..Len(all))
    BY <1>1, FS_Interval
  <2> HIDE DEF f, P, all
  <2> QED BY <2>1, <1>2, FS_Surjection
<1>4. \A S \in P : IsFiniteSet(S)
  BY RegisteredFacts, PathFacts
<1>5. IsFiniteSet(UNION P)
  <2> HIDE DEF P
  <2> QED BY <1>3, <1>4, FS_UNION
<1>6. IsFiniteSet({<<>>} \cup UNION P)
  BY <1>5, FS_Singleton, FS_Union
<1> QED BY <1>6, FS_CardinalityType DEF AllNodes

\* An object has all its nodes.
Whole(r) == Path(r.oid) \subseteq DOMAIN tree

\* The nodes in the tree are those of the objects registered so far, in the tree
\* whole, and each holds its own object or none; what is not yet in the tree is to be
\* registered, and every node taken from the pool is in the tree.
TreeInv ==
  /\ regs \in Seq(Registered)
  /\ tree \in [DOMAIN tree -> Objects \cup {NULL}]
  /\ <<>> \in DOMAIN tree /\ DOMAIN tree \subseteq AllNodes
  /\ \A p \in DOMAIN tree \ {<<>>} : \E r \in Registered : Whole(r) /\ p \in Path(r.oid)
  /\ \A p \in DOMAIN tree : tree[p] # NULL => \E r \in Registered : r.oid = p /\ r.obj = tree[p]
  /\ \A r \in Registered : Whole(r) => tree[r.oid] = r.obj
  /\ \A r \in Registered : Whole(r) \/ \E i \in 1..Len(regs) : regs[i] = r
  /\ node_used = Cardinality(DOMAIN tree)

LEMMA TreeInit == Init => TreeInv
<1> SUFFICES ASSUME Init PROVE TreeInv
  OBVIOUS
<1>1. regs = xmux_snmp_register_all_oids /\ tree = [p \in {<<>>} |-> NULL] /\ node_used = 1
  BY DEF Init
<1>2. DOMAIN tree = {<<>>} /\ tree[<<>>] = NULL /\ Cardinality(DOMAIN tree) = 1
  BY <1>1, FS_Singleton
<1>3. regs \in Seq(Registered)
  <2>1. regs \in Seq(Regular) /\ \A i \in 1..Len(regs) : regs[i] \in Registered
    BY <1>1, RegistryFacts
  <2> QED BY <2>1
<1>4. ASSUME NEW r \in Registered PROVE ~Whole(r) /\ \E i \in 1..Len(regs) : regs[i] = r
  <2>1. r.oid \in Path(r.oid) /\ r.oid # <<>>
    BY RegisteredFacts, PathFacts
  <2> QED BY <1>1, <1>2, <2>1, RegistryFacts DEF Whole
<1> QED BY <1>1, <1>2, <1>3, <1>4 DEF TreeInv, AllNodes

\* One more object gets its nodes: there is room for those that are missing.
LEMMA TreeStep ==
  ASSUME OidsApart, NodesSuffice, TreeInv, Register
  PROVE  TreeInv'
<1>0. PICK r \in Registered : r = Head(regs)
  BY DEF TreeInv, Register
<1> DEFINE M == Missing(r.oid)
           D == DOMAIN tree
<1>1. regs \in Seq(Registered) /\ regs # <<>> /\ regs' = Tail(regs) /\ wu_agent_register(r)
  BY <1>0 DEF TreeInv, Register
<1>2. r \in Registered /\ r = regs[1]
  BY <1>0, <1>1
<1>3. r.oid \in Seq(Nat) \ {<<>>} /\ r.obj \in Objects /\ r.obj # NULL
  BY <1>2, RegisteredFacts
<1>4. M = Path(r.oid) \ D /\ M \subseteq AllNodes
  BY <1>2 DEF Missing, AllNodes
<1>5. /\ IsFiniteSet(M) /\ Cardinality(M) \in Nat /\ Cardinality(D) \in Nat /\ node_used = Cardinality(D)
      /\ Cardinality(D \cup M) = node_used + Cardinality(M)
      /\ Cardinality(M) <= NODE_SIZE - node_used
  <2>1. D \subseteq AllNodes /\ node_used = Cardinality(D)
    BY DEF TreeInv
  <2>2. D \cup M \in SUBSET AllNodes /\ D \in SUBSET AllNodes /\ M \in SUBSET AllNodes
    BY <2>1, <1>4
  <2>3. D \cap M = {}
    BY <1>4
  <2> HIDE DEF M, D
  <2>4. IsFiniteSet(D) /\ IsFiniteSet(M) /\ Cardinality(D \cup M) <= Cardinality(AllNodes)
    BY <2>2, FiniteNodes, FS_Subset
  <2>5. Cardinality(D \cap M) = 0
    BY <2>3, FS_EmptySet
  <2>6. Cardinality(D \cup M) = Cardinality(D) + Cardinality(M) - Cardinality(D \cap M)
    BY <2>4, FS_Union
  <2>7. Cardinality(M) \in Nat /\ Cardinality(D) \in Nat
    BY <2>4, FS_CardinalityType
  <2>8. Cardinality(D \cup M) = Cardinality(D) + Cardinality(M)
    BY <2>5, <2>6, <2>7
  <2>9. Cardinality(AllNodes) <= NODE_SIZE /\ NODE_SIZE \in Nat /\ Cardinality(AllNodes) \in Nat
    BY FiniteNodes, ConstantFacts DEF NodesSuffice
  <2> QED BY <2>1, <2>4, <2>7, <2>8, <2>9
<1>6. {p \in M : Cardinality(M \cap Path(p)) <= NODE_SIZE - node_used} = M
  <2> SUFFICES ASSUME NEW p \in M PROVE Cardinality(M \cap Path(p)) <= NODE_SIZE - node_used
    OBVIOUS
  <2> HIDE DEF M
  <2>1. M \cap Path(p) \in SUBSET M
    OBVIOUS
  <2>2. Cardinality(M \cap Path(p)) <= Cardinality(M) /\ IsFiniteSet(M \cap Path(p))
    BY <2>1, <1>5, FS_Subset
  <2>3. Cardinality(M \cap Path(p)) \in Nat
    BY <2>2, FS_CardinalityType
  <2> QED BY <2>2, <2>3, <1>5, ConstantFacts
<1>7. /\ tree' = [p \in D \cup M |-> IF p \in M THEN (IF p = r.oid THEN r.obj ELSE NULL) ELSE tree[p]]
      /\ node_used' = node_used + Cardinality(M)
  BY <1>1, <1>6 DEF wu_agent_register
<1>8. DOMAIN tree' = D \cup M
  BY <1>7
<1> HIDE DEF M
<1>9. \A s : Whole(s) => Whole(s)'
  BY <1>8 DEF Whole
<1>10. Whole(r)'
  BY <1>8, <1>4 DEF Whole
<1>11. regs' \in Seq(Registered)
  BY <1>1
<1>12. tree' \in [DOMAIN tree' -> Objects \cup {NULL}]
  BY <1>7, <1>8, <1>3 DEF TreeInv
<1>13. <<>> \in DOMAIN tree' /\ DOMAIN tree' \subseteq AllNodes
  BY <1>8, <1>4 DEF TreeInv
<1>14. ASSUME NEW p \in DOMAIN tree' \ {<<>>}
       PROVE  \E s \in Registered : Whole(s)' /\ p \in Path(s.oid)
  <2>1. CASE p \in D
    <3>1. PICK s \in Registered : Whole(s) /\ p \in Path(s.oid)
      BY <2>1, <1>14 DEF TreeInv
    <3> QED BY <3>1, <1>9
  <2>2. CASE p \in M
    BY <2>2, <1>2, <1>4, <1>10
  <2> QED BY <2>1, <2>2, <1>8
<1>15. ASSUME NEW p \in DOMAIN tree', tree'[p] # NULL
       PROVE  \E s \in Registered : s.oid = p /\ s.obj = tree'[p]
  <2>1. CASE p \in M
    BY <2>1, <1>2, <1>7, <1>15
  <2>2. CASE p \notin M
    <3>1. p \in D /\ tree'[p] = tree[p]
      BY <2>2, <1>7, <1>8
    <3> QED BY <3>1, <1>15 DEF TreeInv
  <2> QED BY <2>1, <2>2
<1>16. ASSUME NEW s \in Registered, Whole(s)' PROVE tree'[s.oid] = s.obj
  <2>1. s.oid \in Path(s.oid) /\ s.oid # <<>>
    BY RegisteredFacts, PathFacts
  <2>2. s.oid \in D \cup M
    BY <2>1, <1>16, <1>8 DEF Whole
  <2>3. CASE s.oid \in M
    <3>1. s.oid \in Path(r.oid)
      BY <2>3, <1>4
    <3>2. s = r
      BY <3>1, <1>2 DEF OidsApart
    <3> QED BY <2>3, <3>2, <1>7
  <2>4. CASE s.oid \notin M
    <3>1. s.oid \in D /\ tree'[s.oid] = tree[s.oid]
      BY <2>4, <2>2, <1>7
    <3>2. PICK q \in Registered : Whole(q) /\ s.oid \in Path(q.oid)
      BY <3>1, <2>1 DEF TreeInv
    <3>3. s = q
      BY <3>2 DEF OidsApart
    <3> QED BY <3>1, <3>2, <3>3 DEF TreeInv
  <2> QED BY <2>3, <2>4
<1>17. ASSUME NEW s \in Registered PROVE Whole(s)' \/ \E i \in 1..Len(regs') : regs'[i] = s
  <2>1. CASE Whole(s)
    BY <2>1, <1>9
  <2>2. CASE \E i \in 1..Len(regs) : regs[i] = s
    <3>1. PICK i \in 1..Len(regs) : regs[i] = s
      BY <2>2
    <3>2. CASE i = 1
      BY <3>1, <3>2, <1>2, <1>10
    <3>3. CASE i # 1
      <4>1. i - 1 \in 1..Len(regs') /\ regs'[i - 1] = regs[i]
        BY <3>3, <1>1
      <4> QED BY <4>1, <3>1
    <3> QED BY <3>2, <3>3
  <2> QED BY <2>1, <2>2 DEF TreeInv
<1>18. node_used' = Cardinality(DOMAIN tree')
  BY <1>5, <1>7, <1>8
<1> QED BY <1>11, <1>12, <1>13, <1>14, <1>15, <1>16, <1>17, <1>18 DEF TreeInv

\* What is found at an oid is registered there, and everything is found in the end.
LEMMA Found ==
  ASSUME TreeInv, OidsApart
  PROVE  /\ \A d : find_oid_object(d) # NULL =>
                   \E r \in Registered : r.oid = d /\ r.obj = find_oid_object(d)
         /\ regs = <<>> => \A r \in Registered : find_oid_object(r.oid) = r.obj
<1>1. ASSUME NEW d, find_oid_object(d) # NULL
      PROVE  \E r \in Registered : r.oid = d /\ r.obj = find_oid_object(d)
  <2>1. d \in DOMAIN tree /\ find_oid_object(d) = tree[d]
    BY <1>1 DEF find_oid_object
  <2> QED BY <2>1, <1>1 DEF TreeInv
<1>2. ASSUME regs = <<>>, NEW r \in Registered PROVE find_oid_object(r.oid) = r.obj
  <2>1. \A s \in Registered : Whole(s)
    <3>1. Len(regs) = 0
      BY <1>2
    <3> QED BY <3>1 DEF TreeInv
  <2>2. r.oid \in Seq(Nat) \ {<<>>} /\ r.oid \in Path(r.oid)
    BY RegisteredFacts, PathFacts
  <2>3. r.oid \in DOMAIN tree \ {<<>>} /\ tree[r.oid] = r.obj
    BY <2>1, <2>2 DEF TreeInv, Whole
  <2>4. ASSUME NEW p \in DOMAIN tree, Len(p) = Len(r.oid) + 1, Front(p) = r.oid PROVE FALSE
    <3>1. Len(r.oid) \in Nat /\ Len(r.oid) >= 1
      BY <2>2
    <3>2. p # <<>>
      <4>1. Len(<<>>) = 0
        OBVIOUS
      <4> QED BY <2>4, <3>1, <4>1
    <3>3. PICK s \in Registered : p \in Path(s.oid)
      BY <3>2 DEF TreeInv
    <3>4. s.oid \in Seq(Nat) \ {<<>>}
      BY RegisteredFacts
    <3> DEFINE k == Len(p)
    <3>5. k \in 1..Len(s.oid) /\ p = SubSeq(s.oid, 1, k)
      BY <3>3, <3>4, PathFacts
    <3>6. k > 1 /\ k - 1 \in 1..Len(s.oid) /\ Len(s.oid) \in Nat
      BY <3>1, <3>4, <3>5, <2>4
    <3>7. r.oid = SubSeq(s.oid, 1, k - 1)
      BY <3>4, <3>5, <3>6, <2>4, PathFacts
    <3>8. r.oid \in Path(s.oid)
      BY <3>4, <3>6, <3>7, PathFacts
    <3>9. r = s
      BY <3>8 DEF OidsApart
    <3> QED BY <3>9, <3>5, <2>4, <3>1
  <2> QED BY <2>3, <2>4 DEF find_oid_object
<1> QED BY <1>1, <1>2
-----------------------------------------------------------------------------
(* What a pass over a list picks *)

\* The place of i in S is one of the places of S, and the last one if no element is larger.
LEMMA RankFacts ==
  ASSUME NEW n \in Nat, NEW S \in SUBSET (1..n)
  PROVE  /\ IsFiniteSet(S) /\ Cardinality(S) \in Nat
         /\ \A i \in S : Place(S, i) \in 1..Cardinality(S)
         /\ \A i \in S : Place(S, i) = Cardinality(S) => \A j \in S : j <= i
<1>1. IsFiniteSet(1..n)
  BY FS_Interval
<1>2. IsFiniteSet(S) /\ Cardinality(S) \in Nat
  BY <1>1, FS_Subset, FS_CardinalityType
<1>3. ASSUME NEW i \in S PROVE Place(S, i) \in 1..Cardinality(S)
  <2> DEFINE T == {j \in S : j <= i}
  <2>1. T \in SUBSET S /\ i \in T
    OBVIOUS
  <2> HIDE DEF T
  <2>2. IsFiniteSet(T) /\ Cardinality(T) <= Cardinality(S)
    BY <2>1, <1>2, FS_Subset
  <2>3. Cardinality(T) \in Nat /\ Cardinality(T) # 0
    BY <2>1, <2>2, FS_CardinalityType, FS_EmptySet
  <2>4. Cardinality(T) \in 1..Cardinality(S)
    BY <2>2, <2>3, <1>2
  <2> QED BY <2>4 DEF T, Place
<1>4. ASSUME NEW i \in S, Place(S, i) = Cardinality(S) PROVE \A j \in S : j <= i
  <2> DEFINE T == {j \in S : j <= i}
  <2>1. T \in SUBSET S /\ Cardinality(T) = Cardinality(S)
    BY <1>4 DEF Place
  <2> HIDE DEF T
  <2>2. T = S
    BY <2>1, <1>2, FS_Subset
  <2> QED BY <2>2 DEF T
<1> QED BY <1>2, <1>3, <1>4

\* The pass meets every place of S once, in order.
LEMMA PickedFacts ==
  ASSUME NEW n \in Nat, NEW S \in SUBSET (1..n)
  PROVE  LET at == Picked(S, n)[n] IN
         /\ at \in Seq(S) /\ Len(at) = Cardinality(S)
         /\ \A i \in S : at[Place(S, i)] = i
<1> DEFINE T == Seq(Nat)
           G == [e \in (1..n) \X T |-> IF e[1] \in S THEN Append(e[2], e[1]) ELSE e[2]]
           Solves(f) == f = [i \in 0..n |-> IF i = 0 THEN <<>>
                                            ELSE IF i \in S THEN Append(f[i - 1], i) ELSE f[i - 1]]
           met == CHOOSE f : Solves(f)
           At(m) == {i \in S : i <= m}
<1>1. Picked(S, n) = met
  BY DEF Picked
<1>2. Solves(met)
  <2>1. <<>> \in T /\ G \in [(1..n) \X T -> T] /\ 0 <= n /\ 0 \in Nat /\ 0 + 1 = 1
    OBVIOUS
  <2>2. PICK f \in Steps(T, <<>>, 0, n, G) : TRUE
    <3> HIDE DEF T, G
    <3> QED BY <2>1, StepsExist
  <2>3. f \in [0..n -> T] /\ f[0] = <<>> /\ \A i \in 1..n : f[i] = G[<<i, f[i - 1]>>]
    <3> HIDE DEF T, G
    <3> QED BY <2>1, <2>2 DEF Steps
  <2>4. ASSUME NEW i \in 0..n, i # 0
        PROVE  f[i] = IF i \in S THEN Append(f[i - 1], i) ELSE f[i - 1]
    <3>1. i \in 1..n /\ i - 1 \in 0..n
      BY <2>4
    <3>2. f[i - 1] \in T /\ f[i] = G[<<i, f[i - 1]>>]
      BY <3>1, <2>3
    <3> QED BY <3>1, <3>2
  <2>5. Solves(f)
    <3> HIDE DEF T, G
    <3> QED BY <2>3, <2>4
  <2> QED BY <2>5
<1> HIDE DEF met, T, G
<1> DEFINE Right(m) == /\ met[m] \in Seq(S) /\ Len(met[m]) = Cardinality(At(m))
                       /\ \A i \in At(m) : met[m][Place(S, i)] = i
           Good == {m \in 0..n : Right(m)}
<1>a. \A x \in S : x \in Nat /\ x >= 1 /\ x <= n
  OBVIOUS
<1>3. 0 \in Good
  <2>1. At(0) = {}
    <3>1. \A x \in S : ~(x <= 0)
      BY <1>a
    <3> QED BY <3>1
  <2>2. Cardinality(At(0)) = 0
    BY <2>1, FS_EmptySet
  <2>3. 0 \in 0..n /\ met[0] = <<>>
    BY <1>2
  <2>4. Right(0)
    BY <2>1, <2>2, <2>3
  <2> QED BY <2>3, <2>4
<1>4. ASSUME NEW m \in 0..n, m \in Good, m + 1 <= n PROVE m + 1 \in Good
  <2>1. m \in Nat /\ m + 1 \in 1..n /\ m + 1 \in 0..n /\ (m + 1) - 1 = m /\ m + 1 # 0
    BY <1>4
  <2>2. met[m + 1] = IF m + 1 \in S THEN Append(met[m], m + 1) ELSE met[m]
    BY <2>1, <1>2
  <2>3. Right(m)
    BY <1>4
  <2>4. CASE m + 1 \notin S
    <3>1. At(m + 1) = At(m)
      <4>1. \A x \in S : x <= m + 1 <=> x <= m
        BY <1>a, <2>4, <2>1
      <4> QED BY <4>1
    <3>2. met[m + 1] = met[m]
      BY <2>2, <2>4
    <3>3. Right(m + 1)
      <4> HIDE DEF At
      <4> QED BY <3>1, <3>2, <2>3
    <3> QED BY <3>3, <2>1
  <2>5. CASE m + 1 \in S
    <3>1. At(m + 1) = At(m) \cup {m + 1} /\ m + 1 \notin At(m) /\ At(m) \in SUBSET (1..n)
      <4>1. \A x \in S : x <= m + 1 <=> (x <= m \/ x = m + 1)
        BY <1>a, <2>1
      <4>2. ~(m + 1 <= m)
        BY <2>1
      <4>3. At(m + 1) = At(m) \cup {m + 1}
        BY <4>1, <2>5
      <4> QED BY <4>2, <4>3
    <3>2. IsFiniteSet(At(m)) /\ Cardinality(At(m)) \in Nat
      BY <3>1, RankFacts
    <3>3. Cardinality(At(m + 1)) = Cardinality(At(m)) + 1
      <4> HIDE DEF At
      <4> QED BY <3>1, <3>2, FS_AddElement
    <3>4. Place(S, m + 1) = Cardinality(At(m)) + 1
      BY <3>3 DEF Place
    <3>5. ASSUME NEW i \in At(m) PROVE Place(S, i) \in 1..Cardinality(At(m))
      <4>1. {j \in S : j <= i} = {j \in At(m) : j <= i}
        <5>1. i \in Nat /\ i <= m
          BY <1>a
        <5>2. \A x \in S : x <= i => x <= m
          BY <1>a, <5>1, <2>1
        <5> QED BY <5>2
      <4>2. Place(S, i) = Place(At(m), i)
        BY <4>1 DEF Place
      <4> HIDE DEF At
      <4> QED BY <4>2, <3>1, RankFacts
    <3>6. met[m + 1] = Append(met[m], m + 1) /\ met[m] \in Seq(S) /\ Len(met[m]) = Cardinality(At(m))
      BY <2>2, <2>3, <2>5
    <3>7. met[m + 1] \in Seq(S) /\ Len(met[m + 1]) = Cardinality(At(m)) + 1
          /\ met[m + 1][Cardinality(At(m)) + 1] = m + 1
          /\ \A k \in 1..Cardinality(At(m)) : met[m + 1][k] = met[m][k]
      <4> HIDE DEF At
      <4> QED BY <3>6, <2>5, <3>2
    <3>8. \A i \in At(m + 1) : met[m + 1][Place(S, i)] = i
      <4>1. ASSUME NEW i \in At(m) PROVE met[m + 1][Place(S, i)] = i
        <5> HIDE DEF At
        <5> QED BY <3>5, <3>7, <2>3
      <4> HIDE DEF At
      <4> QED BY <4>1, <3>1, <3>4, <3>7
    <3>9. Right(m + 1)
      <4> HIDE DEF At
      <4> QED BY <3>3, <3>7, <3>8
    <3> QED BY <3>9, <2>1
  <2> QED BY <2>4, <2>5
<1>5. Good = 0..n
  <2>1. Good \in SUBSET (0..n) /\ 0 \in Nat
    OBVIOUS
  <2> HIDE DEF Good
  <2> QED BY <2>1, <1>3, <1>4, UpTo
<1>6. n \in 0..n
  OBVIOUS
<1>7. Right(n)
  BY <1>5, <1>6
<1>8. At(n) = S
  BY <1>a
<1> HIDE DEF At
<1> QED BY <1>1, <1>7, <1>8

-----------------------------------------------------------------------------
(* The cells the objects stand for *)

\* The cells that sets of SDT and EIT may hit, and those of the tables' nodes.
Shared == {x \in Cells \cup OwnCells : x[1] \in {"SDT", "EIT"}}
Nodes == {TransCell(i) : i \in 1..(CHANNEL_MAX_NUM * NODE_NUM)}

LEMMA CellFacts ==
  ASSUME NEW r \in Registered
  PROVE  LET c == CellAt(r.obj, r.oid)  own == OwnCell(r.obj, r.oid) IN
         /\ c \in Cells /\ own \in OwnCells /\ own \in Cells
         /\ r.obj # "EIT" => own = c
         /\ own # c => r.obj = "EIT" /\ {c, own} \subseteq Shared
         /\ r.obj = "PID_TRANS_INFO" <=> own[1] = "PID_TRANS_INFO"
         /\ r.obj = "PID_TRANS_INFO" => own \in Nodes
         /\ r.obj = "LOAD_INFO" <=> own = <<"LOAD_INFO", 0, 0>>
         /\ own \in Shared <=> r.obj \in {"SDT", "EIT"}
<1> DEFINE c == CellAt(r.obj, r.oid)
           own == OwnCell(r.obj, r.oid)
<1>1. c \in Cells /\ own \in OwnCells /\ own \in Cells
  BY DEF Cells, OwnCells
<1>2. r \in Regular
  BY RegistryFacts
<1>3. CASE r.obj \in ChanObjects
  <2>1. own[1] = r.obj /\ c[1] \in {r.obj, "SDT"}
    BY <1>3 DEF OwnCell, CellAt, SdtCell, ChanObjects
  <2>2. r.obj # "EIT" => own = c
    BY DEF OwnCell
  <2>3. r.obj = "EIT" => own[1] = "EIT" /\ c[1] = "SDT"
    BY DEF OwnCell, CellAt, SdtCell
  <2> HIDE DEF c, own
  <2>4. own # <<"LOAD_INFO", 0, 0>>
    BY <2>1, <1>3 DEF ChanObjects
  <2> QED BY <1>1, <1>3, <2>1, <2>2, <2>3, <2>4 DEF Shared, ChanObjects, c, own
<1>4. CASE r.obj = "PID_TRANS_INFO"
  <2>1. PICK i \in 1..(CHANNEL_MAX_NUM * NODE_NUM) : r = Reg("PID_TRANS_INFO", TransOid(i))
    BY <1>2, <1>4, RegularCases DEF ChanObjects
  <2>2. r.oid = TransOid(i) /\ i \in Nat
    BY <2>1, ConstantFacts DEF Reg
  <2>3. Last(TransOid(i)) = i
    <3>1. Len(TransOid(i)) = 8 /\ TransOid(i)[8] = i
      BY <2>2 DEF TransOid, XMUX_ROOT_OID
    <3> QED BY <3>1 DEF Last
  <2>4. own = c /\ c = TransCell(i)
    BY <1>4, <2>2, <2>3 DEF OwnCell, CellAt
  <2>5. c[1] = "PID_TRANS_INFO" /\ c # <<"LOAD_INFO", 0, 0>>
    BY <2>4 DEF TransCell
  <2> HIDE DEF c, own
  <2> QED BY <1>1, <1>4, <2>4, <2>5 DEF Shared, Nodes, c, own
<1>5. CASE r.obj \in {"PSI_STATUS", "APPLY_PSI", "TUNNER_0_PARAM", "LOAD_INFO"}
  <2>1. own = c /\ c = <<r.obj, 0, 0>>
    BY <1>5 DEF OwnCell, CellAt
  <2> HIDE DEF c, own
  <2> QED BY <1>1, <1>5, <2>1 DEF Shared, c, own
<1>6. r.obj \in ChanObjects \/ r.obj = "PID_TRANS_INFO"
      \/ r.obj \in {"PSI_STATUS", "APPLY_PSI", "TUNNER_0_PARAM", "LOAD_INFO"}
  BY <1>2, RegularCases
<1> QED BY <1>3, <1>4, <1>5, <1>6

\* A node of a table that is somebody's own is one of the tables' nodes.
LEMMA OwnNodes ==
  /\ \A c \in OwnCells : c[1] = "PID_TRANS_INFO" => c \in Nodes
  /\ Nodes \subseteq OwnCells
<1>1. ASSUME NEW c \in OwnCells, c[1] = "PID_TRANS_INFO" PROVE c \in Nodes
  <2>1. PICK r \in Registered : c = OwnCell(r.obj, r.oid)
    BY DEF OwnCells
  <2> QED BY <2>1, <1>1, CellFacts
<1>2. ASSUME NEW c \in Nodes PROVE c \in OwnCells
  <2>1. PICK i \in 1..(CHANNEL_MAX_NUM * NODE_NUM) : c = TransCell(i)
    BY DEF Nodes
  <2> DEFINE r == Reg("PID_TRANS_INFO", TransOid(i))
  <2>2. r \in Registered /\ r.obj = "PID_TRANS_INFO" /\ r.oid = TransOid(i) /\ i \in Nat
    BY RegistryFacts, ConstantFacts DEF Reg
  <2>3. Last(TransOid(i)) = i
    <3>1. Len(TransOid(i)) = 8 /\ TransOid(i)[8] = i
      BY <2>2 DEF TransOid, XMUX_ROOT_OID
    <3> QED BY <3>1 DEF Last
  <2>4. OwnCell(r.obj, r.oid) = c
    BY <2>1, <2>2, <2>3 DEF OwnCell, CellAt
  <2> HIDE DEF r
  <2> QED BY <2>2, <2>4 DEF OwnCells
<1> QED BY <1>1, <1>2

\* The first node of a node's table is a node, too.
LEMMA FirstNode ==
  ASSUME NEW c \in Nodes
  PROVE  /\ c = <<"PID_TRANS_INFO", c[2], c[3]>> /\ c[3] \in Nat
         /\ <<c[1], c[2], 0>> \in Nodes
<1>1. PICK i \in 1..(CHANNEL_MAX_NUM * NODE_NUM) : c = TransCell(i)
  BY DEF Nodes
<1>2. i \in Nat /\ i >= 1 /\ NODE_NUM \in Nat \ {0} /\ CHANNEL_MAX_NUM * NODE_NUM \in Nat
  BY ConstantFacts
<1> DEFINE N == NODE_NUM
           q == (i - 1) \div N
           k == (i - 1) % N
           j == i - k
<1>3. q \in Int /\ k \in 0..(N - 1) /\ i - 1 = N * q + k
  BY <1>2
<1>4. j - 1 = N * q /\ j <= i
  <2> HIDE DEF q, k
  <2> QED BY <1>2, <1>3
<1>5. q >= 0
  BY <1>2
<1>6. (j - 1) \div N = q /\ (j - 1) % N = 0
  <2>1. \A x \in Int : (N * x) \div N = x /\ (N * x) % N = 0
    BY <1>2, SMTT(30)
  <2> HIDE DEF q, k, j
  <2> QED BY <2>1, <1>3, <1>4
<1>7. N * q >= 0
  <2> HIDE DEF q, k, j, N
  <2>1. N \in Nat
    BY <1>2 DEF N
  <2> QED BY <2>1, <1>3, <1>5
<1>8. j \in 1..(CHANNEL_MAX_NUM * NODE_NUM)
  <2> DEFINE L == CHANNEL_MAX_NUM * NODE_NUM
  <2>1. i <= L /\ L \in Nat
    BY <1>2
  <2> HIDE DEF q, L
  <2> QED BY <2>1, <1>2, <1>3, <1>4, <1>7 DEF L
<1>9. TransCell(j) = <<"PID_TRANS_INFO", q, 0>> /\ c = <<"PID_TRANS_INFO", q, k>>
  BY <1>1, <1>6 DEF TransCell
<1> HIDE DEF q, k, j
<1> QED BY <1>3, <1>8, <1>9, <1>2 DEF Nodes, N
-----------------------------------------------------------------------------
(* Types, and what a binding does *)

Tags == DOMAIN Tables \cup {"none", "zero", "section", "empty"}
Values == Tags \X Int \X Int
Errs == {"noError", "noSuchName", "noAccess", "genErr", "readOnly", "resourceUnavailable"}
Binding == [oid : Asked, err : Errs, val : Values, own : Values]
OidsSeen == {Decoded[o] : o \in Asked} \cup {r.oid : r \in Registered} \cup {<<>>}

Requests == [method : {"none", "get", "set", "other"}, id : Nat, n : 0..MaxBinds,
             bad : 0..MaxBinds, readonly : BOOLEAN]

\* The types of what requests work on.
Types ==
  /\ mib \in [Cells -> Values] /\ expect \in [OwnCells -> Values]
  /\ obj_oid \in [Objects -> OidsSeen]
  /\ smeared \subseteq Shared /\ logged \in BOOLEAN
  /\ pdu \in Requests /\ pdu.bad \in {0, Len(binds) + 1} /\ pdu.bad <= pdu.n
  /\ binds \in Seq(Binding) /\ Len(binds) <= pdu.n
  /\ data_buf \in Values /\ requests \in 0..MaxRequests

LEMMA SomeValues ==
  /\ Unset \in Values /\ Cleared \in Values /\ Zeroed \in Values /\ <<"empty", 0, 0>> \in Values
  /\ \A n \in Int : <<"section", n, 1>> \in Values
BY DEF Unset, Cleared, Zeroed, Values, Tags

\* What is read and what is expected are values.
LEMMA ReadValues ==
  ASSUME Types
  PROVE  /\ \A c \in Cells : Read(c) \in Values /\ \A obj : Getter(obj, c) \subseteq Values
         /\ \A c \in OwnCells : Own(c) \in Values
<1>1. ASSUME NEW c \in Cells PROVE Read(c) \in Values
  <2>1. mib[c] \in Values
    BY DEF Types
  <2>2. \A x : TableLen(x) \in Nat
    BY AgentAssumption DEF TableLen
  <2>3. pid_trans_info_read_size(c) \in Int
    <3> DEFINE len == TableLen(mib[<<c[1], c[2], 0>>][1])
    <3>1. len \in Nat /\ NODE_MAX_SIZE \in Nat \ {0}
      BY <2>2, ConstantFacts
    <3> HIDE DEF len
    <3>2. len % NODE_MAX_SIZE \in Int /\ NODE_MAX_SIZE \in Int
      BY <3>1
    <3> QED BY <3>2 DEF pid_trans_info_read_size, len
  <2>4. <<mib[c][1], mib[c][2], pid_trans_info_read_size(c)>> \in Values
    BY <2>1, <2>3 DEF Values
  <2> QED BY <2>1, <2>4 DEF Read
<1>2. ASSUME NEW c \in OwnCells PROVE Own(c) \in Values
  BY SomeValues DEF Types, Own
<1> QED BY <1>1, <1>2, SomeValues DEF Getter

\* What a client may send is a value.
LEMMA PayloadValues ==
  ASSUME Types, NEW r \in Registered, NEW v \in Payload(r.obj, r.oid)
  PROVE  /\ v \in Values
         /\ r.obj = "PID_TRANS_INFO" =>
              \E tag \in DOMAIN Tables :
                v = Piece(tag, CellAt(r.obj, r.oid)[3]) /\ v[3] > 0
         /\ r.obj # "PID_TRANS_INFO" => v[3] = 1
<1>1. CASE r.obj = "PID_TRANS_INFO"
  <2> DEFINE k == CellAt(r.obj, r.oid)[3]
  <2>1. PICK tag \in DOMAIN Tables : v = Piece(tag, k) /\ v[3] > 0
    BY <1>1 DEF Payload
  <2>2. CellAt(r.obj, r.oid) \in Nodes
    BY <1>1, CellFacts
  <2>3. k \in Nat
    BY <2>2, FirstNode
  <2>4. Tables[tag] \in Nat /\ NODE_MAX_SIZE \in Nat
    BY AgentAssumption, ConstantFacts
  <2> HIDE DEF k
  <2>5. Tables[tag] - k * NODE_MAX_SIZE \in Int
    BY <2>3, <2>4
  <2>6. v \in Values
    BY <2>1, <2>3, <2>4, <2>5 DEF Piece, Values, Tags
  <2> QED BY <1>1, <2>1, <2>6 DEF k
<1>2. CASE r.obj # "PID_TRANS_INFO"
  <2>1. requests \in Nat /\ Len(binds) \in Nat
    BY ConstantFacts DEF Types
  <2>2. v = <<"section", 10 * requests + Len(binds), 1>>
    BY <1>2 DEF Payload
  <2>3. 10 * requests + Len(binds) \in Int
    BY <2>1
  <2> QED BY <1>2, <2>2, <2>3, SomeValues
<1> QED BY <1>1, <1>2

\* A get binding has an error, or reads what its oid leads to.
LEMMA GetCases ==
  ASSUME OidsApart, TreeInv, Types, GetVarBind
  PROVE  \E oid \in Asked :
           /\ MoreBinds /\ pdu.method = "get" /\ obj_oid' \in [Objects -> OidsSeen]
           /\ UNCHANGED <<registry, mib, logged, pdu, resp, requests, expect, smeared, sent>>
           /\ \/ \E err \in Errs \ {"noError"} :
                   /\ binds' = Append(binds, [oid |-> oid, err |-> err, val |-> Unset, own |-> Unset])
                   /\ data_buf' = data_buf
              \/ \E r \in Registered : \E val \in Getter(r.obj, CellAt(r.obj, r.oid)) :
                   /\ r.oid = Decoded[oid]
                   /\ data_buf' = val
                   /\ binds' = Append(binds, [oid |-> oid, err |-> "noError",
                                  val |-> val, own |-> Own(OwnCell(r.obj, r.oid))])
<1>1. PICK oid \in Asked :
        /\ Popped(oid) /\ pdu.method = "get"
        /\ LET obj == find_oid_object(Decoded[oid]) IN
           IF obj = NULL
           THEN Bound(oid, "noSuchName", Unset, Unset) /\ UNCHANGED <<obj_oid, data_buf>>
           ELSE /\ FixOid(obj, Decoded[oid])
                /\ \E c \in {CellAt(obj, obj_oid'[obj])} :
                     \/ ~HasGetter(obj) /\ Bound(oid, "noAccess", Unset, Unset) /\ UNCHANGED data_buf
                     \/ /\ HasGetter(obj) /\ data_buf' \in Getter(obj, c)
                        /\ Bound(oid, "noError", data_buf', Own(OwnCell(obj, Decoded[oid])))
        /\ UNCHANGED <<registry, mib, logged, pdu, resp, requests, expect, smeared, sent>>
  BY Zenon DEF GetVarBind
<1> DEFINE obj == find_oid_object(Decoded[oid])
<1>2. MoreBinds
  BY <1>1 DEF Popped
<1>3. {"noSuchName", "noAccess"} \subseteq Errs \ {"noError"}
  BY DEF Errs
<1>4. CASE obj = NULL
  <2>1. binds' = Append(binds, [oid |-> oid, err |-> "noSuchName", val |-> Unset, own |-> Unset])
    BY <1>1, <1>4 DEF Bound
  <2>2. data_buf' = data_buf /\ obj_oid' = obj_oid
    BY <1>1, <1>4
  <2>3. obj_oid' \in [Objects -> OidsSeen]
    BY <2>2 DEF Types
  <2> QED BY <1>1, <1>2, <1>3, <2>1, <2>2, <2>3
<1>5. CASE obj # NULL
  <2>1. PICK r \in Registered : r.oid = Decoded[oid] /\ r.obj = obj
    BY <1>5, Found
  <2>2. obj \in Objects /\ Decoded[oid] \in OidsSeen
    BY <2>1 DEF Objects, OidsSeen
  <2>3. obj_oid' = [obj_oid EXCEPT ![obj] = Decoded[oid]]
    BY <1>1, <1>5 DEF FixOid
  <2>4. obj_oid' \in [Objects -> OidsSeen] /\ obj_oid'[obj] = Decoded[oid]
    BY <2>2, <2>3 DEF Types
  <2>5. \/ UNCHANGED data_buf /\ \E err \in Errs \ {"noError"} : Bound(oid, err, Unset, Unset)
        \/ /\ data_buf' \in Getter(obj, CellAt(obj, Decoded[oid]))
           /\ Bound(oid, "noError", data_buf', Own(OwnCell(obj, Decoded[oid])))
    BY <1>1, <1>3, <1>5, <2>4
  <2> HIDE DEF obj
  <2>6. CASE UNCHANGED data_buf /\ \E err \in Errs \ {"noError"} : Bound(oid, err, Unset, Unset)
    BY <2>6, <1>1, <1>2, <2>4 DEF Bound
  <2>7. CASE /\ data_buf' \in Getter(obj, CellAt(obj, Decoded[oid]))
             /\ Bound(oid, "noError", data_buf', Own(OwnCell(obj, Decoded[oid])))
    BY <2>7, <1>1, <1>2, <2>1, <2>4 DEF Bound
  <2> QED BY <2>5, <2>6, <2>7
<1> QED BY <1>4, <1>5

\* A set binding that is not refused works on what its oid leads to.
LEMMA SetCases ==
  ASSUME OidsApart, TreeInv, Types, SetVarBind
  PROVE  \E oid \in Asked, r \in Registered, v \in Values :
           /\ MoreBinds /\ pdu.method = "set" /\ obj_oid' \in [Objects -> OidsSeen]
           /\ UNCHANGED <<registry, pdu, data_buf, resp, requests, sent>>
           /\ v \in Payload(r.obj, r.oid)
           /\ LET c == CellAt(r.obj, r.oid)  own == OwnCell(r.obj, r.oid) IN
              \/ /\ binds' = Append(binds, [oid |-> oid, err |-> "readOnly", val |-> v, own |-> Unset])
                 /\ UNCHANGED <<mib, logged, expect, smeared>>
              \/ /\ Setter(r.obj, c, v, TRUE)
                 /\ binds' = Append(binds, [oid |-> oid, err |-> "noError", val |-> <<"empty", 0, 0>>, own |-> v])
                 /\ expect' = Expected(r.obj, own, v)
                 /\ smeared' = IF c = own THEN smeared ELSE smeared \cup {c, own}
              \/ /\ MayFail(r.obj) /\ Setter(r.obj, c, v, FALSE)
                 /\ binds' = Append(binds, [oid |-> oid, err |-> "genErr", val |-> v, own |-> Unset])
                 /\ UNCHANGED <<expect, smeared>>
              \/ /\ binds' = Append(binds, [oid |-> oid, err |-> "noError", val |-> <<"empty", 0, 0>>, own |-> Unset])
                 /\ UNCHANGED <<mib, logged, expect, smeared>>
<1>1. PICK oid \in Asked :
        /\ Popped(oid) /\ pdu.method = "set"
        /\ LET obj == find_oid_object(Decoded[oid])
               own == OwnCell(obj, Decoded[oid])
           IN
           /\ Refusal(obj) = "noError"
           /\ FixOid(obj, Decoded[oid])
           /\ \E v \in Payload(obj, Decoded[oid]), c \in {CellAt(obj, obj_oid'[obj])} :
                \/ /\ ~HasSetter(obj) /\ Bound(oid, "readOnly", v, Unset)
                   /\ UNCHANGED <<mib, logged, expect, smeared>>
                \/ /\ HasSetter(obj) /\ Setter(obj, c, v, TRUE)
                   /\ Bound(oid, "noError", <<"empty", 0, 0>>, v)
                   /\ expect' = Expected(obj, own, v)
                   /\ smeared' = IF c = own THEN smeared ELSE smeared \cup {c, own}
                \/ /\ MayFail(obj) /\ Setter(obj, c, v, FALSE)
                   /\ Bound(oid, "genErr", v, Unset)
                   /\ UNCHANGED <<expect, smeared>>
                \/ /\ obj = "TUNNER_0_PARAM" /\ Bound(oid, "noError", <<"empty", 0, 0>>, Unset)
                   /\ UNCHANGED <<mib, logged, expect, smeared>>
        /\ UNCHANGED <<registry, pdu, data_buf, resp, requests, sent>>
  BY Zenon DEF SetVarBind
<1> DEFINE obj == find_oid_object(Decoded[oid])
<1>2. MoreBinds
  BY <1>1 DEF Popped
<1>3. obj # NULL
  <2>1. Refusal(obj) = "noError"
    BY <1>1
  <2> HIDE DEF obj
  <2>2. pdu.readonly \in BOOLEAN /\ logged \in BOOLEAN
    BY DEF Types, Requests
  <2> QED BY <2>1, <2>2 DEF Refusal
<1>4. PICK r \in Registered : r.oid = Decoded[oid] /\ r.obj = obj
  BY <1>3, Found
<1>5. obj \in Objects /\ Decoded[oid] \in OidsSeen
  BY <1>4 DEF Objects, OidsSeen
<1>6. obj_oid' = [obj_oid EXCEPT ![obj] = Decoded[oid]]
  BY <1>1 DEF FixOid
<1>7. obj_oid' \in [Objects -> OidsSeen] /\ obj_oid'[obj] = r.oid
  BY <1>4, <1>5, <1>6 DEF Types
<1>8. PICK v \in Payload(r.obj, r.oid) :
        LET c == CellAt(r.obj, r.oid)  own == OwnCell(r.obj, r.oid) IN
        \/ Bound(oid, "readOnly", v, Unset) /\ UNCHANGED <<mib, logged, expect, smeared>>
        \/ /\ Setter(r.obj, c, v, TRUE) /\ Bound(oid, "noError", <<"empty", 0, 0>>, v)
           /\ expect' = Expected(r.obj, own, v)
           /\ smeared' = IF c = own THEN smeared ELSE smeared \cup {c, own}
        \/ /\ MayFail(r.obj) /\ Setter(r.obj, c, v, FALSE) /\ Bound(oid, "genErr", v, Unset)
           /\ UNCHANGED <<expect, smeared>>
        \/ /\ Bound(oid, "noError", <<"empty", 0, 0>>, Unset)
           /\ UNCHANGED <<mib, logged, expect, smeared>>
  BY <1>1, <1>4, <1>7
<1>9. v \in Values
  BY PayloadValues
<1> HIDE DEF obj
<1> QED BY <1>1, <1>2, <1>7, <1>8, <1>9 DEF Bound
\* Setters that store nothing; the outcomes of a setter; what is expected of it.
Silent(obj) == obj = "APPLY_PSI"

Sets(obj, c, v) == Setter(obj, c, v, TRUE) \/ Setter(obj, c, v, FALSE)

ExpectedNodes(own, v) ==
  [x \in OwnCells |-> IF x = own THEN v
     ELSE IF own[3] = 0 /\ x[1] = own[1] /\ x[2] = own[2] THEN Cleared ELSE expect[x]]

Effect(obj, c, own, v) ==
  /\ obj = "PID_TRANS_INFO" =>
       mib' = pid_trans_info_write_data_snmp(c, v) /\ Expected(obj, own, v) = ExpectedNodes(own, v)
  /\ Silent(obj) => mib' = mib /\ Expected(obj, own, v) = expect
  /\ obj # "PID_TRANS_INFO" /\ ~Silent(obj) =>
       mib' = [mib EXCEPT ![c] = v] /\ Expected(obj, own, v) = [expect EXCEPT ![own] = v]

\* The effect of a setter, and what is expected of it, object by object.
LEMMA SetterCases ==
  ASSUME NEW obj, NEW c, NEW own, NEW v, Sets(obj, c, v)
  PROVE  Effect(obj, c, own, v)
<1>1. ASSUME obj = "PID_TRANS_INFO"
      PROVE  mib' = pid_trans_info_write_data_snmp(c, v) /\ Expected(obj, own, v) = ExpectedNodes(own, v)
  BY <1>1 DEF Sets, Setter, Expected, ExpectedNodes
<1>2. ASSUME Silent(obj) PROVE mib' = mib /\ Expected(obj, own, v) = expect
  <2>1. obj = "APPLY_PSI"
    BY <1>2 DEF Silent
  <2> QED BY <2>1 DEF Sets, Setter, Expected
<1>3. ASSUME obj # "PID_TRANS_INFO", ~Silent(obj)
      PROVE  mib' = [mib EXCEPT ![c] = v] /\ Expected(obj, own, v) = [expect EXCEPT ![own] = v]
  BY <1>3 DEF Sets, Setter, Expected, Silent
<1> QED BY <1>1, <1>2, <1>3 DEF Effect

\* A set binding that succeeds or fails in the setter keeps the types.
LEMMA SetTypes ==
  ASSUME Types, NEW r \in Registered, NEW v \in Values,
         Sets(r.obj, CellAt(r.obj, r.oid), v)
  PROVE  /\ mib' \in [Cells -> Values] /\ logged' \in BOOLEAN
         /\ Expected(r.obj, OwnCell(r.obj, r.oid), v) \in [OwnCells -> Values]
<1> DEFINE c == CellAt(r.obj, r.oid)
           own == OwnCell(r.obj, r.oid)
<1>1. c \in Cells /\ own \in OwnCells
  BY CellFacts
<1>2. mib \in [Cells -> Values] /\ expect \in [OwnCells -> Values] /\ logged \in BOOLEAN
  BY DEF Types
<1> HIDE DEF c, own
<1>3. Sets(r.obj, c, v)
  BY DEF c
<1>b. Effect(r.obj, c, own, v)
  BY <1>3, SetterCases
<1>a. logged' \in BOOLEAN
  BY <1>2, <1>3 DEF Sets, Setter
<1>4. CASE r.obj = "PID_TRANS_INFO"
  <2>1. mib' = pid_trans_info_write_data_snmp(c, v) /\ Expected(r.obj, own, v) = ExpectedNodes(own, v)
    BY <1>b, <1>4 DEF Effect
  <2>2. mib' \in [Cells -> Values]
    BY <2>1, <1>2, SomeValues DEF pid_trans_info_write_data_snmp
  <2>3. Expected(r.obj, own, v) \in [OwnCells -> Values]
    BY <2>1, <1>2, SomeValues DEF ExpectedNodes
  <2> QED BY <2>2, <2>3, <1>a DEF own
<1>5. CASE Silent(r.obj)
  <2>1. mib' = mib /\ Expected(r.obj, own, v) = expect
    BY <1>b, <1>5 DEF Effect
  <2> QED BY <2>1, <1>2, <1>a DEF own
<1>6. CASE r.obj # "PID_TRANS_INFO" /\ ~Silent(r.obj)
  <2>1. mib' = [mib EXCEPT ![c] = v] /\ Expected(r.obj, own, v) = [expect EXCEPT ![own] = v]
    BY <1>b, <1>6 DEF Effect
  <2> QED BY <2>1, <1>1, <1>2, <1>a DEF own
<1> QED BY <1>4, <1>5, <1>6

LEMMA TypesInit == Init => Types
<1> SUFFICES ASSUME Init PROVE Types
  OBVIOUS
<1>1. mib \in [Cells -> Values] /\ expect \in [OwnCells -> Values]
  BY SomeValues DEF Init, InitialValue
<1>2. obj_oid \in [Objects -> OidsSeen]
  BY DEF Init, Objects, OidsSeen
<1>3. pdu \in Requests /\ pdu.bad = 0 /\ pdu.n = 0
  BY ConstantFacts DEF Init, NoPdu, Requests
<1>4. binds \in Seq(Binding) /\ Len(binds) <= pdu.n
  BY DEF Init, NoPdu
<1>5. smeared \subseteq Shared /\ logged \in BOOLEAN /\ data_buf \in Values /\ requests \in 0..MaxRequests
  <2>1. smeared = {} /\ logged = FALSE /\ data_buf = Unset /\ requests = 0
    BY DEF Init
  <2>2. 0 \in 0..MaxRequests
    BY ConstantFacts
  <2> QED BY <2>1, <2>2, SomeValues
<1> QED BY <1>1, <1>2, <1>3, <1>4, <1>5 DEF Types

LEMMA TypesStep ==
  ASSUME OidsApart, TreeInv, Types, Next
  PROVE  Types'
<1>1. CASE Register
  <2>1. Head(regs) \in Registered
    BY <1>1 DEF Register, TreeInv
  <2>2. Head(regs).obj \in Objects /\ Head(regs).oid \in OidsSeen
    BY <2>1 DEF Objects, OidsSeen
  <2>3. obj_oid' \in [Objects -> OidsSeen]
    BY <1>1, <2>2 DEF Register, Types
  <2> QED BY <1>1, <2>3 DEF Register, Types
<1>2. CASE Recv
  <2>1. PICK method \in {"get", "set", "other"}, n \in 1..MaxBinds, readonly \in BOOLEAN :
          /\ pdu' = [method |-> method, id |-> requests + 1, n |-> n, bad |-> 0, readonly |-> readonly]
          /\ logged' \in BOOLEAN
    BY <1>2 DEF Recv, Types
  <2>2. requests \in Nat /\ requests + 1 \in Nat /\ requests + 1 \in 0..MaxRequests
    BY <1>2, ConstantFacts DEF Recv, Types
  <2>3. n \in 0..MaxBinds /\ 0 <= n
    BY ConstantFacts
  <2>4. pdu' \in Requests /\ pdu'.n = n /\ pdu'.bad = 0
    BY <2>1, <2>2, <2>3, ConstantFacts DEF Requests
  <2>5. binds' = <<>> /\ Len(binds') = 0 /\ binds' \in Seq(Binding)
    BY <1>2 DEF Recv
  <2>6. UNCHANGED <<obj_oid, mib, data_buf, expect, smeared>> /\ requests' = requests + 1
    BY <1>2 DEF Recv
  <2> QED BY <2>1, <2>2, <2>3, <2>4, <2>5, <2>6 DEF Types
<1>3. CASE GetVarBind
  <2>1. PICK oid \in Asked :
           /\ MoreBinds /\ obj_oid' \in [Objects -> OidsSeen]
           /\ UNCHANGED <<mib, logged, pdu, requests, expect, smeared>>
           /\ \/ \E err \in Errs \ {"noError"} :
                   /\ binds' = Append(binds, [oid |-> oid, err |-> err, val |-> Unset, own |-> Unset])
                   /\ data_buf' = data_buf
              \/ \E r \in Registered : \E val \in Getter(r.obj, CellAt(r.obj, r.oid)) :
                   /\ data_buf' = val
                   /\ binds' = Append(binds, [oid |-> oid, err |-> "noError",
                                  val |-> val, own |-> Own(OwnCell(r.obj, r.oid))])
    BY <1>3, GetCases
  <2>2. data_buf' \in Values /\ \E b \in Binding : binds' = Append(binds, b)
    <3>1. CASE \E err \in Errs \ {"noError"} :
                   /\ binds' = Append(binds, [oid |-> oid, err |-> err, val |-> Unset, own |-> Unset])
                   /\ data_buf' = data_buf
      <4>1. PICK err \in Errs : binds' = Append(binds, [oid |-> oid, err |-> err, val |-> Unset, own |-> Unset])
        BY <3>1
      <4>2. [oid |-> oid, err |-> err, val |-> Unset, own |-> Unset] \in Binding
        BY SomeValues DEF Binding
      <4> QED BY <3>1, <4>1, <4>2 DEF Types
    <3>2. CASE \E r \in Registered : \E val \in Getter(r.obj, CellAt(r.obj, r.oid)) :
                   /\ data_buf' = val
                   /\ binds' = Append(binds, [oid |-> oid, err |-> "noError",
                                  val |-> val, own |-> Own(OwnCell(r.obj, r.oid))])
      <4>a. PICK r \in Registered : \E val \in Getter(r.obj, CellAt(r.obj, r.oid)) :
                   /\ data_buf' = val
                   /\ binds' = Append(binds, [oid |-> oid, err |-> "noError",
                                  val |-> val, own |-> Own(OwnCell(r.obj, r.oid))])
        BY <3>2
      <4>1. PICK val \in Getter(r.obj, CellAt(r.obj, r.oid)) :
                   /\ data_buf' = val
                   /\ binds' = Append(binds, [oid |-> oid, err |-> "noError",
                                  val |-> val, own |-> Own(OwnCell(r.obj, r.oid))])
        BY <4>a
      <4>2. val \in Values /\ Own(OwnCell(r.obj, r.oid)) \in Values
        BY CellFacts, ReadValues
      <4>3. [oid |-> oid, err |-> "noError", val |-> val,
              own |-> Own(OwnCell(r.obj, r.oid))] \in Binding
        BY <4>2 DEF Binding, Errs
      <4> QED BY <4>1, <4>2, <4>3
    <3> QED BY <2>1, <3>1, <3>2
  <2>3. binds' \in Seq(Binding) /\ Len(binds') = Len(binds) + 1 /\ Len(binds) \in Nat
    BY <2>2 DEF Types
  <2>4. Len(binds') <= pdu'.n /\ pdu'.bad = 0 /\ pdu' = pdu /\ 0 <= pdu.n
    BY <2>1, <2>3 DEF Types, MoreBinds, Requests
  <2> QED BY <2>1, <2>2, <2>3, <2>4 DEF Types
<1>4. CASE SetRefused
  <2>1. PICK oid \in Asked, err \in Errs :
          /\ MoreBinds
          /\ Bound(oid, err, <<"section", 10 * requests + Len(binds), 1>>, Unset)
    <3>1. \A obj : Refusal(obj) \in Errs
      BY DEF Refusal, Errs
    <3> QED BY <1>4, <3>1 DEF SetRefused, Popped
  <2>2. UNCHANGED <<obj_oid, mib, logged, pdu, data_buf, requests, expect, smeared>>
    BY <1>4 DEF SetRefused
  <2>3. requests \in Nat /\ Len(binds) \in Nat
    BY ConstantFacts DEF Types
  <2>4. <<"section", 10 * requests + Len(binds), 1>> \in Values
    BY <2>3, SomeValues
  <2>5. [oid |-> oid, err |-> err, val |-> <<"section", 10 * requests + Len(binds), 1>>, own |-> Unset] \in Binding
    BY <2>4, SomeValues DEF Binding
  <2>6. binds' \in Seq(Binding) /\ Len(binds') = Len(binds) + 1
    BY <2>1, <2>5 DEF Types, Bound
  <2>7. Len(binds') <= pdu'.n /\ pdu'.bad = 0 /\ pdu' = pdu /\ 0 <= pdu.n
    BY <2>1, <2>2, <2>3, <2>6 DEF Types, MoreBinds, Requests
  <2> QED BY <2>2, <2>6, <2>7 DEF Types
<1>5. CASE SetVarBind
  <2>1. PICK oid \in Asked, r \in Registered, v \in Values :
           /\ MoreBinds /\ obj_oid' \in [Objects -> OidsSeen]
           /\ UNCHANGED <<pdu, data_buf, requests>>
           /\ LET c == CellAt(r.obj, r.oid)  own == OwnCell(r.obj, r.oid) IN
              \/ /\ binds' = Append(binds, [oid |-> oid, err |-> "readOnly", val |-> v, own |-> Unset])
                 /\ UNCHANGED <<mib, logged, expect, smeared>>
              \/ /\ Setter(r.obj, c, v, TRUE)
                 /\ binds' = Append(binds, [oid |-> oid, err |-> "noError", val |-> <<"empty", 0, 0>>, own |-> v])
                 /\ expect' = Expected(r.obj, own, v)
                 /\ smeared' = IF c = own THEN smeared ELSE smeared \cup {c, own}
              \/ /\ MayFail(r.obj) /\ Setter(r.obj, c, v, FALSE)
                 /\ binds' = Append(binds, [oid |-> oid, err |-> "genErr", val |-> v, own |-> Unset])
                 /\ UNCHANGED <<expect, smeared>>
              \/ /\ binds' = Append(binds, [oid |-> oid, err |-> "noError", val |-> <<"empty", 0, 0>>, own |-> Unset])
                 /\ UNCHANGED <<mib, logged, expect, smeared>>
    BY <1>5, SetCases, ZenonT(60)
  <2>2. \E b \in Binding : binds' = Append(binds, b)
    <3>1. \A err \in Errs, val \in Values, own \in Values :
            [oid |-> oid, err |-> err, val |-> val, own |-> own] \in Binding
      BY DEF Binding
    <3> QED BY <2>1, <3>1, SomeValues DEF Errs
  <2>3. mib' \in [Cells -> Values] /\ expect' \in [OwnCells -> Values] /\ logged' \in BOOLEAN
    BY <2>1, SetTypes DEF Types, Sets
  <2>4. smeared' \subseteq Shared
    <3>1. \/ smeared' = smeared
          \/ /\ CellAt(r.obj, r.oid) # OwnCell(r.obj, r.oid)
             /\ smeared' = smeared \cup {CellAt(r.obj, r.oid), OwnCell(r.obj, r.oid)}
      BY <2>1
    <3> QED BY <3>1, CellFacts DEF Types
  <2>5. binds' \in Seq(Binding) /\ Len(binds') = Len(binds) + 1 /\ Len(binds) \in Nat
    BY <2>2 DEF Types
  <2>6. Len(binds') <= pdu'.n /\ pdu'.bad = 0 /\ pdu' = pdu /\ 0 <= pdu.n
    BY <2>1, <2>5 DEF Types, MoreBinds, Requests
  <2> QED BY <2>1, <2>3, <2>4, <2>5, <2>6 DEF Types
<1>6. CASE PopFails
  <2>1. Len(binds) \in Nat /\ Len(binds) < pdu.n /\ pdu' = [pdu EXCEPT !.bad = Len(binds) + 1] /\ binds' = binds
    BY <1>6 DEF PopFails, MoreBinds, Types
  <2>2. pdu \in Requests /\ pdu.n \in 0..MaxBinds /\ Len(binds) + 1 \in 0..MaxBinds
    BY <2>1, ConstantFacts DEF Types, Requests
  <2>3. pdu' \in Requests /\ pdu'.n = pdu.n /\ pdu'.bad = Len(binds) + 1 /\ pdu'.bad <= pdu'.n
    <3>1. pdu' \in Requests
      BY <2>1, <2>2 DEF Requests
    <3>2. pdu'.n = pdu.n /\ pdu'.bad = Len(binds) + 1
      BY <2>1, <2>2 DEF Requests
    <3> QED BY <2>1, <2>2, <3>1, <3>2
  <2> QED BY <1>6, <2>1, <2>3 DEF PopFails, Types
<1>7. CASE Reply
  <2>1. pdu' = NoPdu /\ binds' = <<>> /\ data_buf' = Unset
        /\ UNCHANGED <<obj_oid, mib, logged, requests, expect, smeared>>
    BY <1>7 DEF Reply
  <2>2. pdu' \in Requests /\ pdu'.n = 0 /\ pdu'.bad = 0
    BY <2>1, ConstantFacts DEF NoPdu, Requests
  <2>3. binds' \in Seq(Binding) /\ Len(binds') <= pdu'.n
    BY <2>1, <2>2
  <2> QED BY <2>1, <2>2, <2>3, SomeValues DEF Types
<1> QED BY <1>1, <1>2, <1>3, <1>4, <1>5, <1>6, <1>7 DEF Next

\* A set changes what its oid names and nothing else.
LEMMA MibStep ==
  ASSUME OidsApart, TreeInv, Types, MibIsOwn, Next
  PROVE  MibIsOwn'
<1>1. CASE Register \/ Recv \/ GetVarBind \/ SetRefused \/ PopFails \/ Reply
  <2>1. UNCHANGED <<mib, expect, smeared>>
    BY <1>1 DEF Register, Recv, GetVarBind, SetRefused, PopFails, Reply
  <2> QED BY <2>1 DEF MibIsOwn
<1>2. CASE SetVarBind
  <2>1. PICK oid \in Asked, r \in Registered, v \in Values :
           LET c == CellAt(r.obj, r.oid)  own == OwnCell(r.obj, r.oid) IN
              \/ UNCHANGED <<mib, expect, smeared>>
              \/ /\ Setter(r.obj, c, v, TRUE)
                 /\ expect' = Expected(r.obj, own, v)
                 /\ smeared' = IF c = own THEN smeared ELSE smeared \cup {c, own}
              \/ /\ MayFail(r.obj) /\ Setter(r.obj, c, v, FALSE)
                 /\ UNCHANGED <<expect, smeared>>
    BY <1>2, SetCases, ZenonT(60)
  <2> DEFINE c == CellAt(r.obj, r.oid)
             own == OwnCell(r.obj, r.oid)
  <2>2. /\ c \in Cells /\ own \in OwnCells
        /\ own # c => r.obj = "EIT"
        /\ r.obj = "LOAD_INFO" <=> own = <<"LOAD_INFO", 0, 0>>
    BY CellFacts
  <2>3. mib \in [Cells -> Values] /\ expect \in [OwnCells -> Values] /\ OwnCells \subseteq Cells
    BY DEF Types, Cells
  <2> HIDE DEF c, own
  <2>a. ASSUME Sets(r.obj, c, v)
        PROVE  Effect(r.obj, c, own, v)
    BY <2>a, SetterCases
  <2>4. CASE UNCHANGED <<mib, expect, smeared>>
    BY <2>4 DEF MibIsOwn
  <2>5. CASE /\ Setter(r.obj, c, v, TRUE)
             /\ expect' = Expected(r.obj, own, v)
             /\ smeared' = IF c = own THEN smeared ELSE smeared \cup {c, own}
    <3>a. Sets(r.obj, c, v)
      BY <2>5 DEF Sets
    <3>b. r.obj = "PID_TRANS_INFO" =>
            mib' = pid_trans_info_write_data_snmp(c, v) /\ Expected(r.obj, own, v) = ExpectedNodes(own, v)
      BY <3>a, <2>a DEF Effect
    <3> SUFFICES ASSUME NEW y \in OwnCells \ (smeared' \cup {<<"LOAD_INFO", 0, 0>>}) PROVE mib'[y] = expect'[y]
      BY DEF MibIsOwn
    <3>1. y \in OwnCells /\ y \in Cells /\ mib[y] = expect[y]
      BY <2>3, <2>5 DEF MibIsOwn
    <3>2. CASE r.obj = "PID_TRANS_INFO"
      <4>1. own = c
        BY <3>2, <2>2
      <4> QED BY <2>5, <3>1, <3>2, <3>b, <4>1 DEF pid_trans_info_write_data_snmp, ExpectedNodes
    <3>3. CASE Silent(r.obj)
      <4>1. mib' = mib /\ Expected(r.obj, own, v) = expect
        BY <3>a, <3>3, <2>a DEF Effect
      <4> QED BY <4>1, <2>5, <3>1
    <3>4. CASE r.obj # "PID_TRANS_INFO" /\ ~Silent(r.obj)
      <4>1. mib' = [mib EXCEPT ![c] = v] /\ expect' = [expect EXCEPT ![own] = v]
        <5>1. mib' = [mib EXCEPT ![c] = v] /\ Expected(r.obj, own, v) = [expect EXCEPT ![own] = v]
          BY <3>a, <3>4, <2>a DEF Effect
        <5> QED BY <5>1, <2>5
      <4>2. CASE own = c
        BY <4>1, <4>2, <3>1, <2>2, <2>3
      <4>3. CASE own # c
        BY <4>1, <4>3, <3>1, <2>2, <2>3, <2>5
      <4> QED BY <4>2, <4>3
    <3> QED BY <3>2, <3>3, <3>4
  <2>6. CASE /\ MayFail(r.obj) /\ Setter(r.obj, c, v, FALSE)
             /\ UNCHANGED <<expect, smeared>>
    <3>a. Sets(r.obj, c, v)
      BY <2>6 DEF Sets
    <3>1. CASE Silent(r.obj)
      <4>1. mib' = mib
        BY <3>a, <3>1, <2>a DEF Effect
      <4> QED BY <4>1, <2>6 DEF MibIsOwn
    <3>2. CASE r.obj = "LOAD_INFO"
      <4>1. own = c /\ c = <<"LOAD_INFO", 0, 0>> /\ ~Silent(r.obj)
        BY <3>2, <2>2 DEF Silent
      <4>a. r.obj # "PID_TRANS_INFO" /\ ~Silent(r.obj)
        BY <3>2, <4>1
      <4>2. mib' = [mib EXCEPT ![c] = v] /\ Expected(r.obj, own, v) = [expect EXCEPT ![own] = v]
        BY <3>a, <4>a, <2>a DEF Effect
      <4>3. \A x \in OwnCells \ (smeared \cup {<<"LOAD_INFO", 0, 0>>}) : mib'[x] = mib[x]
        BY <4>1, <4>2, <2>3
      <4> QED BY <4>3, <2>6 DEF MibIsOwn
    <3> QED BY <2>6, <3>1, <3>2 DEF MayFail, Silent
  <2> QED BY <2>1, <2>4, <2>5, <2>6 DEF c, own
<1> QED BY <1>1, <1>2 DEF Next
-----------------------------------------------------------------------------
(* The nodes of a table *)

\* What counts as set last under a node's oid is a piece of a table, or nothing; what
\* counts so under any other has its object's length.
NodesOK ==
  /\ \A c \in Nodes :
       \/ expect[c] = Cleared
       \/ \E tag \in DOMAIN Tables : expect[c] = Piece(tag, c[3]) /\ expect[c][3] > 0
  /\ \A c \in OwnCells : c[1] # "PID_TRANS_INFO" => expect[c][3] = 1

LEMMA NodesInit == Init => NodesOK
<1> SUFFICES ASSUME Init PROVE NodesOK
  OBVIOUS
<1>1. \A c \in OwnCells : expect[c] = InitialValue(c)
  BY DEF Init
<1>2. \A c \in Nodes : c \in OwnCells /\ c[1] = "PID_TRANS_INFO"
  BY OwnNodes, FirstNode
<1> QED BY <1>1, <1>2 DEF NodesOK, InitialValue, Unset

LEMMA NodesStep ==
  ASSUME OidsApart, TreeInv, Types, NodesOK, Next
  PROVE  NodesOK'
<1>1. CASE UNCHANGED expect
  BY <1>1 DEF NodesOK
<1>2. CASE SetVarBind /\ ~UNCHANGED expect
  <2>1. PICK oid \in Asked, r \in Registered, v \in Values :
          /\ v \in Payload(r.obj, r.oid)
          /\ Setter(r.obj, CellAt(r.obj, r.oid), v, TRUE)
          /\ expect' = Expected(r.obj, OwnCell(r.obj, r.oid), v)
    BY <1>2, SetCases, ZenonT(60)
  <2> DEFINE c == CellAt(r.obj, r.oid)
             own == OwnCell(r.obj, r.oid)
  <2>2. /\ own \in OwnCells
        /\ r.obj = "PID_TRANS_INFO" <=> own[1] = "PID_TRANS_INFO"
        /\ r.obj = "PID_TRANS_INFO" => own = c /\ own \in Nodes
    BY CellFacts
  <2>3. /\ r.obj = "PID_TRANS_INFO" => \E tag \in DOMAIN Tables : v = Piece(tag, c[3]) /\ v[3] > 0
        /\ r.obj # "PID_TRANS_INFO" => v[3] = 1
    BY <2>1, PayloadValues
  <2>4. expect' = Expected(r.obj, own, v) /\ Sets(r.obj, c, v)
    BY <2>1 DEF Sets
  <2> HIDE DEF c, own
  <2>5. Effect(r.obj, c, own, v)
    BY <2>4, SetterCases
  <2>6. expect \in [OwnCells -> Values]
    BY DEF Types
  <2>7. CASE r.obj = "PID_TRANS_INFO"
    <3>1. expect' = ExpectedNodes(own, v) /\ own = c
      BY <2>2, <2>4, <2>5, <2>7 DEF Effect
    <3>2. PICK tag \in DOMAIN Tables : v = Piece(tag, own[3]) /\ v[3] > 0
      BY <2>3, <2>7, <3>1
    <3>3. \A x \in Nodes : expect'[x] \in {Cleared, expect[x]} \/ (x = own /\ expect'[x] = v)
      BY <3>1, OwnNodes DEF ExpectedNodes
    <3>4. \A x \in OwnCells : x[1] # "PID_TRANS_INFO" => expect'[x] = expect[x]
      BY <3>1, <2>2, <2>7 DEF ExpectedNodes
    <3> QED BY <3>2, <3>3, <3>4 DEF NodesOK
  <2>8. CASE r.obj # "PID_TRANS_INFO" /\ ~Silent(r.obj)
    <3>1. expect' = [expect EXCEPT ![own] = v]
      BY <2>4, <2>5, <2>8 DEF Effect
    <3>2. ASSUME NEW x \in Nodes PROVE expect'[x] = expect[x]
      <4>1. x[1] = "PID_TRANS_INFO" /\ x \in OwnCells
        BY OwnNodes, FirstNode
      <4>2. x # own
        BY <4>1, <2>2, <2>8
      <4> QED BY <3>1, <4>1, <4>2, <2>6
    <3>3. \A x \in OwnCells : expect'[x] = expect[x] \/ expect'[x] = v
      BY <3>1, <2>6
    <3> QED BY <3>2, <3>3, <2>3, <2>8 DEF NodesOK
  <2>9. CASE Silent(r.obj)
    <3>1. expect' = expect
      BY <2>4, <2>5, <2>9 DEF Effect
    <3> QED BY <3>1, <1>2
  <2> QED BY <2>7, <2>8, <2>9
<1> QED BY <1>1, <1>2 DEF Next, Register, Recv, GetVarBind, SetRefused, PopFails, Reply

\* A piece that is not empty has the length a read of it computes.
LEMMA PieceSize ==
  ASSUME NEW tag \in DOMAIN Tables, NEW k \in Nat, Piece(tag, k)[3] > 0
  PROVE  Piece(tag, k) = <<tag, k, IF k < Tables[tag] \div NODE_MAX_SIZE THEN NODE_MAX_SIZE
                                   ELSE Tables[tag] % NODE_MAX_SIZE>>
<1> DEFINE N == NODE_MAX_SIZE
           L == Tables[tag]
           q == L \div N
           m == L % N
           rest == L - k * N
<1>1. N \in Nat \ {0} /\ L \in Nat
  BY AgentAssumption, ConstantFacts
<1>2. q \in Int /\ m \in 0..(N - 1) /\ L = N * q + m
  <2> HIDE DEF N, L
  <2> QED BY <1>1
<1>3. Piece(tag, k) = <<tag, k, IF rest > N THEN N ELSE rest>>
  BY DEF Piece
<1>4. rest > 0
  BY <1>3, <1>1
<1> HIDE DEF N, L, q, m
<1>5. (IF rest > N THEN N ELSE rest) = IF k < q THEN N ELSE m
  <2>1. \A a, b \in Int : N * a - b * N = N * (a - b)
    BY <1>1
  <2>2. rest = N * (q - k) + m
    <3>1. N * q - k * N = N * (q - k)
      BY <1>2, <2>1
    <3>2. N * q \in Int /\ k * N \in Int
      BY <1>1, <1>2
    <3> QED BY <3>1, <3>2, <1>1, <1>2
  <2> DEFINE d == q - k
  <2>3. d \in Int /\ rest = N * d + m
    BY <1>2, <2>2
  <2> HIDE DEF d, rest
  <2>4. CASE d >= 1
    <3>1. N * d >= N
      BY <2>3, <2>4, <1>1
    <3>2. N * d \in Int
      BY <2>3, <1>1
    <3>3. rest >= N
      BY <3>1, <3>2, <2>3, <1>1, <1>2
    <3>4. k < q
      BY <2>4, <1>2 DEF d
    <3> QED BY <3>2, <3>3, <3>4, <2>3, <1>1, <1>2
  <2>5. CASE d = 0
    <3>1. rest = m /\ ~(k < q)
      BY <2>3, <2>5, <1>1, <1>2 DEF d
    <3> QED BY <3>1, <1>1, <1>2
  <2>6. CASE d <= -1
    <3>1. N * d <= -N
      BY <2>3, <2>6, <1>1
    <3>2. N * d \in Int
      BY <2>3, <1>1
    <3>3. rest < 0
      BY <3>1, <3>2, <2>3, <1>1, <1>2
    <3> QED BY <3>2, <3>3, <1>4, <2>3, <1>2
  <2> QED BY <2>3, <2>4, <2>5, <2>6
<1> QED BY <1>3, <1>5 DEF N, L, q, m

\* A node reads as what was set under it, if its table is the one begun.
LEMMA NodeRead ==
  ASSUME Types, MibIsOwn, NodesOK, NEW c \in Nodes, Own(c) # Cleared
  PROVE  Read(c) = Own(c)
<1> DEFINE f == <<c[1], c[2], 0>>
<1>1. c[1] = "PID_TRANS_INFO" /\ c[3] \in Nat /\ f \in Nodes
  BY FirstNode
<1>2. \A x \in Nodes : mib[x] = expect[x]
  <2>1. ASSUME NEW x \in Nodes PROVE mib[x] = expect[x]
    <3>1. x \in OwnCells /\ x[1] = "PID_TRANS_INFO"
      BY OwnNodes, FirstNode
    <3>2. x \notin smeared /\ x # <<"LOAD_INFO", 0, 0>>
      BY <3>1 DEF Types, Shared
    <3> QED BY <3>1, <3>2 DEF MibIsOwn
  <2> QED BY <2>1
<1>3. Own(c) = expect[c] /\ expect[c][1] = expect[f][1] /\ expect[c] # Cleared
  BY <1>1 DEF Own
<1>4. PICK tag \in DOMAIN Tables : expect[c] = Piece(tag, c[3]) /\ expect[c][3] > 0
  BY <1>3 DEF NodesOK
<1>5. expect[c][1] = tag /\ expect[c][2] = c[3]
  BY <1>4 DEF Piece
<1>6. mib[c] = expect[c] /\ mib[f][1] = tag
  BY <1>1, <1>2, <1>3, <1>5
<1>7. TableLen(mib[f][1]) = Tables[tag]
  BY <1>6 DEF TableLen
<1>8. Piece(tag, c[3]) = <<tag, c[3], IF c[3] < Tables[tag] \div NODE_MAX_SIZE THEN NODE_MAX_SIZE
                                      ELSE Tables[tag] % NODE_MAX_SIZE>>
  BY <1>1, <1>4, PieceSize
<1>9. pid_trans_info_read_size(c) = IF c[3] < Tables[tag] \div NODE_MAX_SIZE THEN NODE_MAX_SIZE
                                      ELSE Tables[tag] % NODE_MAX_SIZE
  BY <1>7 DEF pid_trans_info_read_size
<1>10. Read(c) = <<mib[c][1], mib[c][2], pid_trans_info_read_size(c)>>
  BY <1>1 DEF Read
<1> QED BY <1>3, <1>4, <1>5, <1>6, <1>8, <1>9, <1>10
-----------------------------------------------------------------------------
(* The bindings of a get *)

\* An oid whose decoded form is registered names this object, any other none.
LEMMA ObjectIs ==
  ASSUME OidsApart, DecodesRight, NEW o \in Asked
  PROVE  /\ \A r \in Registered : r.oid = Decoded[o] => Object(o) = r.obj
         /\ (\A r \in Registered : r.oid # Decoded[o]) => Object(o) = NULL
<1>1. \A r \in Registered : o \in {r.oid, Append(r.oid, 0)} <=> r.oid = Decoded[o]
  BY DEF DecodesRight
<1>2. ASSUME NEW r \in Registered, r.oid = Decoded[o] PROVE Object(o) = r.obj
  <2> DEFINE s == CHOOSE x \in Registered : o \in {x.oid, Append(x.oid, 0)}
  <2>1. s \in Registered /\ o \in {s.oid, Append(s.oid, 0)}
    BY <1>1, <1>2
  <2>2. Object(o) = s.obj
    BY <1>1, <1>2 DEF Object
  <2> HIDE DEF s
  <2>3. r.oid = s.oid
    BY <1>1, <1>2, <2>1
  <2>4. r.oid \in Path(s.oid)
    BY <2>1, <2>3, RegisteredFacts, PathFacts
  <2>5. r = s
    BY <2>1, <2>4 DEF OidsApart
  <2> QED BY <2>2, <2>5
<1>3. ASSUME \A r \in Registered : r.oid # Decoded[o] PROVE Object(o) = NULL
  <2>1. ~\E r \in Registered : o \in {r.oid, Append(r.oid, 0)}
    BY <1>1, <1>3
  <2> QED BY <2>1 DEF Object
<1> QED BY <1>2, <1>3

\* The bindings without an error, and one whose value is what its oid names.
Good(bs) == DOMAIN bs \ Failed(bs)
ReadsOwn(b) ==
  \E r \in Registered : /\ r.oid = Decoded[b.oid]
                        /\ b.val \in Getter(r.obj, CellAt(r.obj, r.oid))
                        /\ b.own = Own(OwnCell(r.obj, r.oid))

\* During a get, what was read so far is still there, and data_buf holds the last.
GetInv ==
  pdu.method = "get" =>
    \A i \in Good(binds) :
      ReadsOwn(binds[i]) /\ ((\A j \in Good(binds) : j <= i) => data_buf = binds[i].val)

LEMMA GetStep ==
  ASSUME OidsApart, TreeInv, Types, GetInv, Next
  PROVE  GetInv'
<1>1. CASE Register \/ PopFails
  <2>1. UNCHANGED <<mib, expect, binds, data_buf>> /\ pdu'.method = pdu.method
    BY <1>1 DEF Register, PopFails, Types, Requests
  <2>2. \A b : ReadsOwn(b)' <=> ReadsOwn(b)
    BY <2>1 DEF ReadsOwn, Getter, Read, Own, pid_trans_info_read_size
  <2> QED BY <2>1, <2>2 DEF GetInv, Good, Failed
<1>2. CASE Recv
  <2>1. binds' = <<>>
    BY <1>2 DEF Recv
  <2>2. Good(binds') = {}
    BY <2>1 DEF Good
  <2> QED BY <2>2 DEF GetInv
<1>3. CASE SetRefused \/ SetVarBind \/ Reply
  <2>1. CASE SetRefused
    <3>1. pdu'.method = "set"
      BY <2>1 DEF SetRefused
    <3> QED BY <3>1 DEF GetInv
  <2>2. CASE SetVarBind
    <3>1. pdu'.method = "set"
      BY <2>2, SetCases
    <3> QED BY <3>1 DEF GetInv
  <2>3. CASE Reply
    <3>1. pdu' = NoPdu
      BY <2>3 DEF Reply
    <3> QED BY <3>1 DEF GetInv, NoPdu
  <2> QED BY <1>3, <2>1, <2>2, <2>3
<1>4. CASE GetVarBind
  <2>1. PICK oid \in Asked :
           /\ pdu.method = "get" /\ UNCHANGED <<mib, pdu, expect>>
           /\ \/ \E err \in Errs \ {"noError"} :
                   /\ binds' = Append(binds, [oid |-> oid, err |-> err, val |-> Unset, own |-> Unset])
                   /\ data_buf' = data_buf
              \/ \E r \in Registered : \E val \in Getter(r.obj, CellAt(r.obj, r.oid)) :
                   /\ r.oid = Decoded[oid]
                   /\ data_buf' = val
                   /\ binds' = Append(binds, [oid |-> oid, err |-> "noError",
                                  val |-> val, own |-> Own(OwnCell(r.obj, r.oid))])
    BY <1>4, GetCases
  <2>2. \A b : ReadsOwn(b)' <=> ReadsOwn(b)
    BY <2>1, ZenonT(60) DEF ReadsOwn, Getter, Read, Own, pid_trans_info_read_size
  <2>3. binds \in Seq(Binding)
    BY DEF Types
  <2> DEFINE n == Len(binds)
  <2>4. PICK b : /\ binds' = Append(binds, b)
                 /\ \/ b.err # "noError" /\ data_buf' = data_buf
                    \/ b.err = "noError" /\ data_buf' = b.val /\ ReadsOwn(b)
    <3>1. CASE \E err \in Errs \ {"noError"} :
                   /\ binds' = Append(binds, [oid |-> oid, err |-> err, val |-> Unset, own |-> Unset])
                   /\ data_buf' = data_buf
      BY <3>1
    <3>2. CASE \E r \in Registered : \E val \in Getter(r.obj, CellAt(r.obj, r.oid)) :
                   /\ r.oid = Decoded[oid]
                   /\ data_buf' = val
                   /\ binds' = Append(binds, [oid |-> oid, err |-> "noError",
                                  val |-> val, own |-> Own(OwnCell(r.obj, r.oid))])
      <4>a. PICK r \in Registered : \E val \in Getter(r.obj, CellAt(r.obj, r.oid)) :
                   /\ r.oid = Decoded[oid]
                   /\ data_buf' = val
                   /\ binds' = Append(binds, [oid |-> oid, err |-> "noError",
                                  val |-> val, own |-> Own(OwnCell(r.obj, r.oid))])
        BY <3>2
      <4>1. PICK val \in Getter(r.obj, CellAt(r.obj, r.oid)) :
                   /\ r.oid = Decoded[oid]
                   /\ data_buf' = val
                   /\ binds' = Append(binds, [oid |-> oid, err |-> "noError",
                                  val |-> val, own |-> Own(OwnCell(r.obj, r.oid))])
        BY <4>a
      <4> DEFINE b == [oid |-> oid, err |-> "noError",
                       val |-> val, own |-> Own(OwnCell(r.obj, r.oid))]
      <4>2. ReadsOwn(b)
        BY <4>1 DEF ReadsOwn
      <4>3. b.err = "noError" /\ data_buf' = b.val /\ binds' = Append(binds, b)
        BY <4>1
      <4> QED BY <4>2, <4>3
    <3> QED BY <2>1, <3>1, <3>2
  <2>5. /\ n \in Nat /\ DOMAIN binds = 1..n /\ DOMAIN binds' = 1..(n + 1)
        /\ binds'[n + 1] = b /\ \A i \in 1..n : binds'[i] = binds[i]
    BY <2>3, <2>4
  <2>6. /\ Good(binds) = {i \in 1..n : binds[i].err = "noError"}
        /\ Good(binds') = {i \in 1..(n + 1) : binds'[i].err = "noError"}
    BY <2>5 DEF Good, Failed
  <2> HIDE DEF n
  <2>7. SUFFICES ASSUME NEW i \in Good(binds')
                 PROVE  /\ ReadsOwn(binds'[i])
                        /\ (\A j \in Good(binds') : j <= i) => data_buf' = binds'[i].val
    BY <2>2 DEF GetInv
  <2>8. CASE i = n + 1
    <3>1. binds'[i] = b /\ b.err = "noError"
      BY <2>5, <2>6, <2>8
    <3> QED BY <3>1, <2>4
  <2>9. CASE i # n + 1
    <3>1. i \in 1..n /\ i \in Good(binds) /\ binds'[i] = binds[i]
      BY <2>5, <2>6, <2>9
    <3>2. ReadsOwn(binds[i]) /\ ((\A j \in Good(binds) : j <= i) => data_buf = binds[i].val)
      BY <3>1, <2>1 DEF GetInv
    <3>3. CASE b.err = "noError"
      <4>1. n + 1 \in Good(binds') /\ ~(n + 1 <= i)
        BY <3>1, <3>3, <2>5, <2>6
      <4> QED BY <4>1, <3>1, <3>2
    <3>4. CASE b.err # "noError"
      <4>1. Good(binds') = Good(binds)
        BY <3>4, <2>5, <2>6
      <4>2. data_buf' = data_buf
        BY <3>4, <2>4
      <4> QED BY <4>1, <4>2, <3>1, <3>2
    <3> QED BY <3>3, <3>4
  <2> QED BY <2>8, <2>9
<1> QED BY <1>1, <1>2, <1>3, <1>4 DEF Next
-----------------------------------------------------------------------------
(* The inductive invariant *)

\* Of the tree, of what the objects hold and of the request in hand. ReachesOwn alone
\* is not preserved: it says nothing of a tree half built. GetIsOwn, which speaks of
\* the reply, needs GetInv: what was read and the bytes in data_buf in the middle.
AgentInv == TreeInv /\ Types /\ MibIsOwn /\ NodesOK /\ GetInv

LEMMA AgentInit == Init => AgentInv
<1> SUFFICES ASSUME Init PROVE AgentInv
  OBVIOUS
<1>1. MibIsOwn
  <2>1. mib = [c \in Cells |-> InitialValue(c)] /\ expect = [c \in OwnCells |-> InitialValue(c)]
    BY DEF Init
  <2>2. OwnCells \subseteq Cells
    BY DEF Cells
  <2> QED BY <2>1, <2>2 DEF MibIsOwn
<1>2. GetInv
  <2>1. pdu.method = "none"
    BY DEF Init, NoPdu
  <2> QED BY <2>1 DEF GetInv
<1> QED BY <1>1, <1>2, TreeInit, TypesInit, NodesInit DEF AgentInv

LEMMA AgentStep ==
  ASSUME OidsApart, NodesSuffice, AgentInv, [Next]_vars
  PROVE  AgentInv'
<1>1. TreeInv /\ Types /\ MibIsOwn /\ NodesOK /\ GetInv
  BY DEF AgentInv
<1>2. CASE Next
  <2>1. TreeInv'
    <3>1. CASE Register
      BY <3>1, <1>1, TreeStep
    <3>2. CASE ~Register
      <4>1. UNCHANGED <<regs, tree, node_used>>
        <5>1. CASE SetVarBind
          BY <5>1, <1>1, SetCases DEF registry
        <5>2. CASE GetVarBind
          BY <5>2, <1>1, GetCases DEF registry
        <5>3. CASE Recv
          BY <5>3 DEF Recv, registry
        <5>4. CASE SetRefused
          BY <5>4 DEF SetRefused, registry
        <5>5. CASE PopFails
          BY <5>5 DEF PopFails, registry
        <5>6. CASE Reply
          BY <5>6 DEF Reply, registry
        <5> QED BY <1>2, <3>2, <5>1, <5>2, <5>3, <5>4, <5>5, <5>6 DEF Next
      <4> QED BY <4>1, <1>1 DEF TreeInv, Whole
    <3> QED BY <3>1, <3>2
  <2>2. Types'
    BY <1>1, <1>2, TypesStep
  <2>3. MibIsOwn'
    BY <1>1, <1>2, MibStep
  <2>4. NodesOK'
    BY <1>1, <1>2, NodesStep
  <2>5. GetInv'
    BY <1>1, <1>2, GetStep
  <2> QED BY <2>1, <2>2, <2>3, <2>4, <2>5 DEF AgentInv
<1>3. CASE UNCHANGED vars
  <2>1. /\ UNCHANGED <<regs, tree, node_used, obj_oid, mib, logged, pdu, binds>>
        /\ UNCHANGED <<data_buf, resp, requests, expect, smeared, sent>>
    BY <1>3 DEF vars
  <2>2. TreeInv'
    BY <1>1, <2>1 DEF TreeInv, Whole
  <2>3. Types'
    BY <1>1, <2>1 DEF Types
  <2>4. MibIsOwn' /\ NodesOK'
    BY <1>1, <2>1 DEF MibIsOwn, NodesOK
  <2>5. \A b : ReadsOwn(b)' <=> ReadsOwn(b)
    BY <2>1 DEF ReadsOwn, Getter, Read, Own, pid_trans_info_read_size
  <2>6. GetInv'
    BY <1>1, <2>1, <2>5 DEF GetInv, Good, Failed
  <2> QED BY <2>2, <2>3, <2>4, <2>6 DEF AgentInv
<1> QED BY <1>2, <1>3

\* What the invariant says of the properties of a state.
LEMMA ReachesOwnHolds ==
  ASSUME OidsApart, NodesSuffice, DecodesRight, AgentInv
  PROVE  ReachesOwn
<1>1. TreeInv /\ Types /\ MibIsOwn
  BY DEF AgentInv
<1>2. TypeOK
  <2>1. node_used = Cardinality(DOMAIN tree) /\ node_used <= NODE_SIZE
    <3>1. DOMAIN tree \in SUBSET AllNodes /\ node_used = Cardinality(DOMAIN tree)
      BY <1>1 DEF TreeInv
    <3>2. Cardinality(DOMAIN tree) <= Cardinality(AllNodes) /\ IsFiniteSet(DOMAIN tree)
      BY <3>1, FiniteNodes, FS_Subset
    <3>3. Cardinality(DOMAIN tree) \in Nat
      BY <3>2, FS_CardinalityType
    <3> QED BY <3>1, <3>2, <3>3, FiniteNodes, ConstantFacts DEF NodesSuffice
  <2>2. Range(tree) \subseteq DOMAIN obj_oid \cup {NULL}
    <3>1. tree \in [DOMAIN tree -> Objects \cup {NULL}] /\ DOMAIN obj_oid = Objects
      BY <1>1 DEF TreeInv, Types
    <3> QED BY <3>1 DEF Range
  <2>3. DOMAIN mib = Cells /\ DOMAIN expect = OwnCells /\ smeared \subseteq Cells \cup OwnCells
    BY <1>1 DEF Types, Shared
  <2>4. /\ logged \in BOOLEAN /\ pdu.method \in {"none", "get", "set", "other"}
        /\ Len(binds) <= pdu.n /\ pdu.n <= MaxBinds /\ pdu.bad \in {0, Len(binds) + 1}
        /\ requests \in 0..MaxRequests
    <3>1. pdu.n \in 0..MaxBinds /\ pdu.method \in {"none", "get", "set", "other"}
      BY <1>1 DEF Types, Requests
    <3>2. pdu.n <= MaxBinds
      BY <3>1, ConstantFacts
    <3> QED BY <3>1, <3>2, <1>1 DEF Types
  <2> QED BY <2>1, <2>2, <2>3, <2>4 DEF TypeOK
<1>3. FoundIsRegistered
  <2> SUFFICES ASSUME regs = <<>>, NEW o \in Asked PROVE find_oid_object(Decoded[o]) = Object(o)
    BY DEF FoundIsRegistered
  <2>1. CASE \E r \in Registered : r.oid = Decoded[o]
    <3>1. PICK r \in Registered : r.oid = Decoded[o]
      BY <2>1
    <3> QED BY <3>1, <1>1, Found, ObjectIs
  <2>2. CASE \A r \in Registered : r.oid # Decoded[o]
    <3>1. find_oid_object(Decoded[o]) = NULL
      BY <2>2, <1>1, Found
    <3> QED BY <2>2, <3>1, ObjectIs
  <2> QED BY <2>1, <2>2
<1> QED BY <1>1, <1>2, <1>3 DEF ReachesOwn

\* A request reaches what its oids name and nothing else (wu_agent_register,
\* find_oid_object, set_request_process_var_bind): for any number of channels,
\* programs and sections and any requests, if the channels are few enough for their
\* numbers and the pool of nodes suffices.
THEOREM RequestsReachOwn ==
  ASSUME FewChannels, NodesSuffice, DecodesRight
  PROVE  Spec => []ReachesOwn
<1>1. Init => AgentInv
  BY AgentInit
<1>2. AgentInv /\ [Next]_vars => AgentInv'
  BY AgentStep, OidsLieApart
<1>3. AgentInv => ReachesOwn
  BY ReachesOwnHolds, OidsLieApart
<1> QED BY <1>1, <1>2, <1>3, PTL DEF Spec
-----------------------------------------------------------------------------
(* Replies *)

\* The reply, when it is made: the request's own, with what the bindings hold.
LEMMA ReplyFacts ==
  ASSUME Types, Reply
  PROVE  /\ sent'.pdu = pdu /\ sent'.binds = binds /\ Successes' = Good(binds)
         /\ UNCHANGED <<mib, expect, smeared>>
         /\ pdu.method \in {"get", "set"} =>
              /\ sent'.resp.id = pdu.id
              /\ sent'.resp.errors = build_error(binds)
              /\ sent'.resp.vars = IF pdu.method = "set" THEN SetResponse ELSE GetResponse
              /\ DOMAIN binds = {i \in 1..pdu.n : pdu.bad = 0 \/ i < pdu.bad}
<1>1. sent' = [pdu |-> pdu, binds |-> binds, resp |-> resp'] /\ UNCHANGED <<mib, expect, smeared>>
  BY DEF Reply
<1>2. Successes' = Good(binds)
  BY <1>1 DEF Successes, Good, Failed
<1>3. ASSUME pdu.method = "get"
      PROVE  resp' = [id |-> pdu.id, errors |-> build_error(binds), vars |-> GetResponse]
  BY <1>3 DEF Reply
<1>4. ASSUME pdu.method = "set"
      PROVE  resp' = [id |-> pdu.id, errors |-> build_error(binds), vars |-> SetResponse]
  BY <1>4 DEF Reply
<1>5. ASSUME pdu.method \in {"get", "set"}
      PROVE  DOMAIN binds = {i \in 1..pdu.n : pdu.bad = 0 \/ i < pdu.bad}
  <2>1. ~MoreBinds
    BY <1>5 DEF Reply
  <2>2. /\ DOMAIN binds = 1..Len(binds) /\ Len(binds) \in Nat /\ pdu.n \in Nat
        /\ Len(binds) <= pdu.n /\ pdu.bad \in {0, Len(binds) + 1} /\ pdu.bad <= pdu.n
    BY ConstantFacts DEF Types, Requests
  <2>3. pdu.bad # 0 \/ Len(binds) = pdu.n
    BY <1>5, <2>1, <2>2 DEF MoreBinds
  <2>4. CASE pdu.bad = 0
    <3>1. Len(binds) = pdu.n
      BY <2>3, <2>4
    <3> QED BY <2>2, <2>4, <3>1
  <2>5. CASE pdu.bad # 0
    <3>1. pdu.bad = Len(binds) + 1 /\ Len(binds) + 1 <= pdu.n
      BY <2>2, <2>5
    <3> QED BY <2>2, <2>5, <3>1
  <2> QED BY <2>4, <2>5
<1> QED BY <1>1, <1>2, <1>3, <1>4, <1>5

\* What a get's reply lists: the bindings read, in order.
LEMMA GetListed ==
  ASSUME Types
  PROVE  /\ Good(binds) \subseteq 1..Len(binds)
         /\ Len(GetResponse) = Cardinality(Good(binds))
         /\ \A i \in Good(binds) :
              /\ Place(Good(binds), i) \in 1..Cardinality(Good(binds))
              /\ GetResponse[Place(Good(binds), i)] =
                   [oid |-> binds[i].oid, val |-> <<data_buf[1], data_buf[2], binds[i].val[3]>>]
<1> DEFINE n == Len(binds)
           S == Good(binds)
           at == Picked(S, n)[n]
<1>1. n \in Nat /\ DOMAIN binds = 1..n
  BY DEF Types
<1>2. S \in SUBSET (1..n)
  BY <1>1 DEF Good
<1>3. GetResponse = [k \in DOMAIN at |-> [oid |-> binds[at[k]].oid,
                                         val |-> <<data_buf[1], data_buf[2], binds[at[k]].val[3]>>]]
  BY DEF GetResponse, Good
<1> HIDE DEF n, S
<1>4. at \in Seq(S) /\ Len(at) = Cardinality(S) /\ \A i \in S : at[Place(S, i)] = i
  BY <1>1, <1>2, PickedFacts
<1>5. Cardinality(S) \in Nat /\ \A i \in S : Place(S, i) \in 1..Cardinality(S)
  BY <1>1, <1>2, RankFacts
<1> HIDE DEF at
<1>6. DOMAIN at = 1..Cardinality(S)
  BY <1>4, <1>5
<1>7. Len(GetResponse) = Cardinality(S)
  BY <1>3, <1>5, <1>6
<1>8. \A i \in S : GetResponse[Place(S, i)] =
                   [oid |-> binds[i].oid, val |-> <<data_buf[1], data_buf[2], binds[i].val[3]>>]
  BY <1>3, <1>4, <1>5, <1>6
<1> QED BY <1>2, <1>5, <1>7, <1>8 DEF n, S

\* The error indices are the places of the failed bindings; there is noError if there
\* are none.
LEMMA ErrorsNamed ==
  ASSUME Types
  PROVE  /\ {build_error(binds)[k][2] : k \in DOMAIN build_error(binds)} \ {0} = Failed(binds)
         /\ build_error(binds) = <<<<"noError", 0>>>> <=> Failed(binds) = {}
<1> DEFINE n == Len(binds)
           S == Failed(binds)
           at == Picked(S, n)[n]
           errors == build_error(binds)
<1>1. n \in Nat /\ DOMAIN binds = 1..n
  BY DEF Types
<1>2. S \in SUBSET (1..n)
  BY <1>1 DEF Failed
<1>3. errors = IF at = <<>> THEN <<<<"noError", 0>>>> ELSE [k \in DOMAIN at |-> <<binds[at[k]].err, at[k]>>]
  BY DEF build_error
<1> HIDE DEF n, S, errors
<1>4. at \in Seq(S) /\ Len(at) = Cardinality(S) /\ \A i \in S : at[Place(S, i)] = i
  BY <1>1, <1>2, PickedFacts
<1>5. Cardinality(S) \in Nat /\ \A i \in S : Place(S, i) \in 1..Cardinality(S)
  BY <1>1, <1>2, RankFacts
<1> HIDE DEF at
<1>6. DOMAIN at = 1..Cardinality(S)
  BY <1>4, <1>5
<1>7. /\ {errors[k][2] : k \in DOMAIN errors} \ {0} = S
      /\ errors = <<<<"noError", 0>>>> <=> S = {}
  <2>1. CASE at = <<>>
    <3>1. Cardinality(S) = 0
      BY <1>4, <2>1
    <3>2. S = {}
      BY <3>1, <1>5
    <3>3. DOMAIN errors = {1} /\ errors[1][2] = 0 /\ errors = <<<<"noError", 0>>>>
      BY <1>3, <2>1
    <3> QED BY <3>2, <3>3
  <2>2. CASE at # <<>>
    <3>1. DOMAIN errors = DOMAIN at /\ \A k \in DOMAIN at : errors[k][2] = at[k]
      BY <1>3, <2>2
    <3>2. {at[k] : k \in DOMAIN at} = S
      BY <1>4, <1>5, <1>6
    <3>3. 0 \notin S
      BY <1>1, <1>2
    <3>4. 1 \in DOMAIN at /\ at[1] \in S
      BY <1>4, <2>2
    <3>5. errors[1][2] # 0 /\ S # {}
      BY <3>1, <3>3, <3>4
    <3>6. errors # <<<<"noError", 0>>>>
      BY <3>5
    <3> QED BY <3>1, <3>2, <3>3, <3>5, <3>6
  <2> QED BY <2>1, <2>2
<1> QED BY <1>7 DEF S, errors

LEMMA ReplyMatchesStep ==
  ASSUME Types, ReplyMatches, [Next]_vars
  PROVE  ReplyMatches'
<1>1. CASE UNCHANGED sent
  BY <1>1 DEF ReplyMatches, Successes, Place
<1>2. CASE Recv
  <2>1. sent' = NoSent
    BY <1>2 DEF Recv
  <2> QED BY <2>1 DEF ReplyMatches, NoSent, NoPdu
<1>3. CASE Reply
  <2>0. /\ sent'.pdu = pdu /\ sent'.binds = binds /\ Successes' = Good(binds)
        /\ pdu.method \in {"get", "set"} =>
              /\ sent'.resp.id = pdu.id
              /\ sent'.resp.errors = build_error(binds)
              /\ sent'.resp.vars = IF pdu.method = "set" THEN SetResponse ELSE GetResponse
              /\ DOMAIN binds = {i \in 1..pdu.n : pdu.bad = 0 \/ i < pdu.bad}
    BY <1>3, ReplyFacts
  <2> DEFINE n == Len(binds)
  <2>1. n \in Nat /\ DOMAIN binds = 1..n
    BY DEF Types
  <2>2. /\ DOMAIN binds \ Good(binds) = Failed(binds) /\ Good(binds) \subseteq DOMAIN binds
        /\ Failed(binds) = {} <=> DOMAIN binds \subseteq Good(binds)
    BY DEF Good, Failed
  <2>3. CASE pdu.method = "get"
    <3>1. sent'.resp.vars = GetResponse
      BY <2>0, <2>3
    <3>2. ASSUME NEW i \in Good(binds)
          PROVE  GetResponse[Place(Good(binds), i)].oid = binds[i].oid
      <4>1. GetResponse[Place(Good(binds), i)] =
              [oid |-> binds[i].oid, val |-> <<data_buf[1], data_buf[2], binds[i].val[3]>>]
        BY GetListed
      <4> QED BY <4>1
    <3>3. Len(GetResponse) = Cardinality(Good(binds))
      BY GetListed
    <3> QED BY <2>0, <2>2, <2>3, <3>1, <3>2, <3>3, ErrorsNamed DEF ReplyMatches
  <2>4. CASE pdu.method = "set"
    <3>1. sent'.resp.vars = SetResponse
      BY <2>0, <2>4
    <3>2. SetResponse = [i \in 1..n |-> [oid |-> binds[i].oid, val |-> binds[i].val]]
      BY <2>1 DEF SetResponse
    <3>3. \A i \in 0..n : Cardinality(1..i) = i
      <4>1. ASSUME NEW i \in 0..n PROVE Cardinality(1..i) = i
        <5>1. i \in Nat /\ 1 \in Int /\ i \in Int
          BY <2>1
        <5>2. Cardinality(1..i) = IF 1 > i THEN 0 ELSE i - 1 + 1
          BY <5>1, FS_Interval
        <5> QED BY <5>1, <5>2
      <4> QED BY <4>1
    <3> HIDE DEF n
    <3>4. Len(SetResponse) = Cardinality(DOMAIN binds)
      <4>1. Len(SetResponse) = n /\ n \in 0..n
        BY <2>1, <3>2
      <4> QED BY <4>1, <2>1, <3>3
    <3>5. ASSUME NEW i \in DOMAIN binds
          PROVE  SetResponse[Place(DOMAIN binds, i)].oid = binds[i].oid
      <4>1. {j \in DOMAIN binds : j <= i} = 1..i /\ i \in 0..n
        BY <2>1
      <4>2. Cardinality({j \in DOMAIN binds : j <= i}) = i
        BY <4>1, <3>3
      <4> QED BY <4>2, <2>1, <3>2 DEF Place
    <3> QED BY <2>0, <2>2, <2>4, <3>1, <3>4, <3>5, ErrorsNamed DEF ReplyMatches
  <2>5. CASE pdu.method \notin {"get", "set"}
    BY <2>0, <2>5 DEF ReplyMatches
  <2> QED BY <2>3, <2>4, <2>5
<1> QED BY <1>1, <1>2, <1>3 DEF Next, vars, Register, GetVarBind, SetRefused, SetVarBind, PopFails

\* The last value read is the one set last under its oid, or the tuner's zeros.
LEMMA GetIsOwnStep ==
  ASSUME OidsApart, DecodesRight, AgentInv, GetIsOwn, [Next]_vars
  PROVE  GetIsOwn'
<1>0. TreeInv /\ Types /\ MibIsOwn /\ NodesOK /\ GetInv
  BY DEF AgentInv
<1>1. CASE sent' = sent /\ smeared \subseteq smeared'
  <2>1. Successes' = Successes /\ \A i : Claimed(i)' => Claimed(i)
    BY <1>1 DEF Successes, Claimed
  <2> QED BY <1>1, <2>1 DEF GetIsOwn, Place
<1>2. CASE Recv
  <2>1. sent' = NoSent
    BY <1>2 DEF Recv
  <2> QED BY <2>1 DEF GetIsOwn, NoSent, NoPdu
<1>3. CASE SetVarBind
  <2>1. sent' = sent /\ smeared \subseteq smeared'
    BY <1>0, <1>3, SetCases, ZenonT(60)
  <2> QED BY <1>1, <2>1
<1>4. CASE Reply
  <2>0. /\ sent'.pdu = pdu /\ sent'.binds = binds /\ Successes' = Good(binds)
        /\ UNCHANGED <<mib, expect, smeared>>
        /\ pdu.method = "get" => sent'.resp.vars = GetResponse
    BY <1>0, <1>4, ReplyFacts
  <2> SUFFICES ASSUME pdu.method = "get", NEW i \in Good(binds), Claimed(i)', binds[i].own # Cleared
               PROVE  LET val == GetResponse[Place(Good(binds), i)].val IN
                      /\ val[3] = binds[i].own[3]
                      /\ Place(Good(binds), i) = Cardinality(Good(binds)) =>
                           val = binds[i].own \/ (Object(binds[i].oid) = "TUNNER_0_PARAM" /\ val = Zeroed)
    BY <2>0 DEF GetIsOwn
  <2> DEFINE b == binds[i]
             c(r) == OwnCell(r.obj, r.oid)
  <2>1. /\ i \in 1..Len(binds) /\ b \in Binding
        /\ GetResponse[Place(Good(binds), i)].val = <<data_buf[1], data_buf[2], b.val[3]>>
    <3>1. /\ i \in 1..Len(binds)
          /\ GetResponse[Place(Good(binds), i)] =
               [oid |-> binds[i].oid, val |-> <<data_buf[1], data_buf[2], binds[i].val[3]>>]
      BY <1>0, GetListed
    <3>2. binds[i] \in Binding
      BY <3>1, <1>0 DEF Types
    <3> QED BY <3>1, <3>2
  <2>2. ReadsOwn(b) /\ (Place(Good(binds), i) = Cardinality(Good(binds)) => data_buf = b.val)
    <3>1. Good(binds) \in SUBSET (1..Len(binds)) /\ Len(binds) \in Nat
      BY <1>0, GetListed DEF Types
    <3>2. ASSUME Place(Good(binds), i) = Cardinality(Good(binds)) PROVE \A j \in Good(binds) : j <= i
      BY <3>1, <3>2, RankFacts
    <3> QED BY <3>2, <1>0 DEF GetInv
  <2>3. PICK r \in Registered : /\ r.oid = Decoded[b.oid]
                                /\ b.val \in Getter(r.obj, CellAt(r.obj, r.oid))
                                /\ b.own = Own(c(r))
    BY <2>2 DEF ReadsOwn
  <2>4. b.oid \in Asked /\ b.val \in Values
    BY <2>1 DEF Binding
  <2>5. Object(b.oid) = r.obj
    BY <2>3, <2>4, ObjectIs
  <2>6. r.obj \notin {"EIT", "LOAD_INFO"} /\ c(r) \notin smeared
    BY <2>0, <2>3, <2>5 DEF Claimed
  <2>7. /\ c(r) \in OwnCells /\ c(r) = CellAt(r.obj, r.oid) /\ c(r) # <<"LOAD_INFO", 0, 0>>
        /\ r.obj = "PID_TRANS_INFO" <=> c(r)[1] = "PID_TRANS_INFO"
        /\ r.obj = "PID_TRANS_INFO" => c(r) \in Nodes
    BY <2>6, CellFacts
  <2>8. b.val \in Getter(r.obj, c(r)) /\ b.own = Own(c(r))
    BY <2>3, <2>7
  <2> HIDE DEF c, b
  <2>9. Read(c(r)) = Own(c(r))
    <3>1. CASE c(r) \in Nodes
      <4>1. Own(c(r)) # Cleared
        BY <2>8 DEF b
      <4> QED BY <3>1, <4>1, <1>0, NodeRead
    <3>2. CASE c(r)[1] # "PID_TRANS_INFO"
      <4>1. mib[c(r)] = expect[c(r)]
        BY <2>6, <2>7, <1>0 DEF MibIsOwn
      <4> QED BY <3>2, <4>1 DEF Read, Own
    <3> QED BY <2>7, <3>1, <3>2
  <2>10. b.val = b.own \/ (r.obj = "TUNNER_0_PARAM" /\ b.val = Zeroed)
    BY <2>8, <2>9 DEF Getter
  <2>11. b.val[3] = b.own[3]
    <3>1. CASE b.val = b.own
      BY <3>1
    <3>2. CASE r.obj = "TUNNER_0_PARAM" /\ b.val = Zeroed
      <4>1. c(r)[1] # "PID_TRANS_INFO"
        BY <2>7, <3>2
      <4>2. Own(c(r)) = expect[c(r)] /\ expect[c(r)][3] = 1
        BY <4>1, <2>7, <1>0 DEF Own, NodesOK
      <4> QED BY <4>2, <3>2, <2>8 DEF Zeroed
    <3> QED BY <2>10, <3>1, <3>2
  <2>12. data_buf = b.val => <<data_buf[1], data_buf[2], b.val[3]>> = b.val
    BY <2>4 DEF Values
  <2>13. GetResponse[Place(Good(binds), i)].val[3] = b.own[3]
    BY <2>1, <2>11
  <2>14. ASSUME Place(Good(binds), i) = Cardinality(Good(binds))
         PROVE  GetResponse[Place(Good(binds), i)].val = b.val
    BY <2>1, <2>2, <2>12, <2>14
  <2> QED BY <2>5, <2>10, <2>13, <2>14 DEF b
<1>5. CASE Register \/ GetVarBind \/ SetRefused \/ PopFails
  <2>1. UNCHANGED <<sent, smeared>>
    BY <1>5 DEF Register, GetVarBind, SetRefused, PopFails
  <2> QED BY <2>1, <1>1
<1>6. CASE UNCHANGED vars
  BY <1>1, <1>6 DEF vars
<1> QED BY <1>2, <1>3, <1>4, <1>5, <1>6 DEF Next

\* The reply to a get or set request is its own. Each binding before the first that
\* cannot be decoded is listed, in the order asked, or named by an error index, and
\* without such an error it says noError; of the others there is no trace in it
\* (get_request_handler, set_request_handler, build_error): whatever the requests,
\* whatever of them cannot be decoded and whatever is registered.
THEOREM RepliesMatch ==
  ASSUME FewChannels, NodesSuffice
  PROVE  Spec => []ReplyMatches
<1>1. Init => AgentInv /\ ReplyMatches
  <2>1. Init => ReplyMatches
    BY DEF Init, ReplyMatches, NoSent, NoPdu
  <2> QED BY <2>1, AgentInit
<1>2. AgentInv /\ ReplyMatches /\ [Next]_vars => AgentInv' /\ ReplyMatches'
  <2> SUFFICES ASSUME AgentInv, ReplyMatches, [Next]_vars PROVE AgentInv' /\ ReplyMatches'
    OBVIOUS
  <2> QED BY AgentStep, ReplyMatchesStep, OidsLieApart DEF AgentInv
<1> QED BY <1>1, <1>2, PTL DEF Spec

\* The last value of a reply is the one set last under its oid, or the tuner's zeros,
\* and all have their own lengths, a node the one its table has there
\* (get_request_process_var_bind, tunner_param_get, pid_trans_info_read_data_snmp):
\* for tables of any length in nodes of any size and any number of values.
THEOREM GetsAreOwn ==
  ASSUME FewChannels, NodesSuffice, DecodesRight
  PROVE  Spec => []GetIsOwn
<1>1. Init => AgentInv /\ GetIsOwn
  <2>1. Init => GetIsOwn
    BY DEF Init, GetIsOwn, NoSent, NoPdu
  <2> QED BY <2>1, AgentInit
<1>2. AgentInv /\ GetIsOwn /\ [Next]_vars => AgentInv' /\ GetIsOwn'
  <2> SUFFICES ASSUME AgentInv, GetIsOwn, [Next]_vars PROVE AgentInv' /\ GetIsOwn'
    OBVIOUS
  <2> QED BY AgentStep, GetIsOwnStep, OidsLieApart
<1> QED BY <1>1, <1>2, PTL DEF Spec
=============================================================================
