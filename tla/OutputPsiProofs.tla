--------------------------- MODULE OutputPsiProofs ---------------------------
(* Proofs about OutputPsi, for any requests of the manager, any selections of *)
(* the panel and any size of the container: it stays sound, the FPGA gets     *)
(* every packet in its group, program numbers identify programs, and a        *)
(* restart restores the output.                                               *)
EXTENDS OutputPsi, FiniteSetTheorems, WellFoundedInduction, TLAPS

\* The packets of the tables before a table; of all tables for ty = 5.
Before(es, ty) ==
  (IF ty > 0 THEN es[0].nr ELSE 0) + (IF ty > 1 THEN es[1].nr ELSE 0)
  + (IF ty > 2 THEN es[2].nr ELSE 0) + (IF ty > 3 THEN es[3].nr ELSE 0)
  + (IF ty > 4 THEN es[4].nr ELSE 0)

Ents == [PsiTypes -> [offset : 0..255, nr : 0..255]]

\* Every packet belongs to a section that begins in the same ts_buf.
Begun(ps) == \A i \in 1..Len(ps) :
  \E j \in 0..(TsBufPackets - 1) : i - j >= 1 /\ ps[i - j].pusi

\* The tables follow each other, and each counts its packets from 0.
Chained(es) == \A ty \in PsiTypes : es[ty] # NoEntry => es[ty].offset = Before(es, ty)
Counted(es, ps) ==
  \A ty \in PsiTypes : \A i \in 1..es[ty].nr :
    es[ty].offset + i <= Len(ps) => PacketOf(ps, es[ty], i).cc = (i - 1) % 16

\* What a thread generates.
What == Requests \cup {<<len>> : len \in FpLens} \cup {<<>>}
JobInv ==
  /\ job \in [Thread -> [next : 0..5, what : What]]
  /\ pc["agent"] = "gen" => job["agent"].what \in Requests
  /\ pc["fp"] = "gen" => /\ job["fp"].what \in {<<len>> : len \in FpLens}
                         /\ job["fp"].next # PSI_TYPE_CAT

\* The container while it is filled, and the area it is saved in.
FillInv ==
  /\ \A t \in Thread : pc[t] = "gen" => pkt_offset = Len(pkts)
  /\ Begun(pkts)
  /\ saved \in [ents : Ents, pkts : Seq(Packet), garbled : BOOLEAN]
  /\ Len(saved.pkts) <= OUTPUT_PSI_PACKET_MAX_NUM
  /\ Begun(saved.pkts)
  /\ Len(saved.pkts) < OUTPUT_PSI_PACKET_MAX_NUM =>
       \A ty \in PsiTypes : saved.ents[ty].offset + saved.ents[ty].nr <= Len(saved.pkts)

\* What only one thread writes, and the saved copy of it.
OrderInv ==
  /\ ~garbled => /\ Chained(ents) /\ Counted(ents, pkts)
                 /\ \A t, u \in Thread : pc[t] # "idle" /\ pc[u] # "idle" => t = u
                 /\ \A t \in Thread : pc[t] = "gen" =>
                      /\ pkt_offset = Before(ents, 5)
                      /\ \A ty \in PsiTypes : ty >= job[t].next => ents[ty] = NoEntry
  /\ ~saved.garbled => Chained(saved.ents) /\ Counted(saved.ents, saved.pkts)

\* There is a number for each program walked. Without a clear they are those of the
\* selected programs, all different.
NumberInv ==
  /\ Len(Walk(sel)) <= Len(prog_num_table)
  /\ ~cleared => /\ Len(prog_num_table) = Len(Walk(sel))
                 /\ \A i, j \in 1..Len(prog_num_table) :
                      prog_num_table[i] = prog_num_table[j] => i = j
                 /\ \A ty \in PsiTypes : announced[ty] \subseteq Range(Numbered)

\* The FPGA has what the last apply found; the area has what the container has,
\* or something a start refuses.
LoadInv ==
  /\ Idle /\ ~lost => fpga = WriteInfo(ents, pkts)
  /\ (\A t \in Thread : pc[t] # "gen") /\ ~request_save =>
       \/ saved.ents = ents /\ saved.pkts = AreaOf(pkts)
       \/ ~output_psi_data_validate(saved.ents) /\ ents = NoEnts

IInv == TypeOK /\ JobInv /\ FillInv /\ OrderInv /\ NumberInv /\ LoadInv

-----------------------------------------------------------------------------
(* Recursion and least elements *)

\* A set of naturals that is not empty has a least element.
LEMMA Least ==
  ASSUME NEW T, T \subseteq Nat, T # {}
  PROVE  \E x \in T : \A y \in T : ~(y < x)
<1> DEFINE R == OpToRel(<, Nat)
<1>1. IsWellFoundedOn(R, Nat)
  BY NatLessThanWellFounded
<1> HIDE DEF R
<1>2. PICK x \in T : \A y \in T : ~(<<y, x>> \in R)
  BY <1>1, WFMin
<1>3. \A y \in T : y < x => <<y, x>> \in R
  BY DEF R, OpToRel
<1> QED BY <1>2, <1>3

\* A function of the naturals up to N can be computed one step at a time.
Computed(T, a, N, G) ==
  {f \in [0..N -> T] : f[0] = a /\ \A n \in 1..N : f[n] = G[<<n, f[n - 1]>>]}
LEMMA Recursion ==
  ASSUME NEW T, NEW a \in T, NEW N \in Nat, NEW G \in [(1..N) \X T -> T]
  PROVE  Computed(T, a, N, G) # {}
<1> DEFINE Solves(f, m) == /\ f \in [0..m -> T] /\ f[0] = a
                           /\ \A n \in 1..m : f[n] = G[<<n, f[n - 1]>>]
           Bad == {m \in 0..N : ~\E f : Solves(f, m)}
<1>1. Bad = {}
  <2> SUFFICES ASSUME Bad # {} PROVE FALSE
    OBVIOUS
  <2>1. PICK m \in Bad : \A y \in Bad : ~(y < m)
    <3>1. Bad \subseteq Nat
      OBVIOUS
    <3> HIDE DEF Bad
    <3> QED BY <3>1, Least
  <2>2. m \in 0..N /\ ~\E f : Solves(f, m)
    BY <2>1
  <2>3. m # 0
    <3> DEFINE g == [n \in 0..0 |-> a]
    <3>1. Solves(g, 0)
      OBVIOUS
    <3> QED BY <3>1, <2>2
  <2>4. m \in 1..N /\ m - 1 \in 0..N /\ m - 1 < m
    BY <2>2, <2>3
  <2>5. PICK f : Solves(f, m - 1)
    BY <2>1, <2>4
  <2> DEFINE g == [n \in 0..m |-> IF n = m THEN G[<<m, f[m - 1]>>] ELSE f[n]]
  <2>6. G[<<m, f[m - 1]>>] \in T
    BY <2>4, <2>5
  <2>7. g \in [0..m -> T] /\ g[0] = a
    BY <2>4, <2>5, <2>6
  <2>8. ASSUME NEW n \in 1..m PROVE g[n] = G[<<n, g[n - 1]>>]
    <3>1. n - 1 \in 0..(m - 1) /\ g[n - 1] = f[n - 1]
      BY <2>4
    <3>2. CASE n = m
      BY <3>1, <3>2, SMTT(60)
    <3>3. CASE n # m
      <4>1. n \in 1..(m - 1) /\ g[n] = f[n]
        BY <3>3, <2>4
      <4> QED BY <4>1, <3>1, <2>5
    <3> QED BY <3>2, <3>3
  <2>9. Solves(g, m)
    BY <2>7, <2>8
  <2> QED BY <2>9, <2>2
<1>2. N \in 0..N /\ N \notin Bad
  BY <1>1, SMTT(60)
<1> QED BY <1>2 DEF Computed

-----------------------------------------------------------------------------
(* Sections and tables *)

\* The packets of one section: few enough for ts_buf, begun by the first one, and
\* counted on from cc.
LEMMA SectionPackets ==
  ASSUME NEW sec \in Section, NEW cc \in Nat
  PROVE  /\ section_to_ts(sec, cc) \in Seq(Packet)
         /\ Len(section_to_ts(sec, cc)) \in 0..6
         /\ \A i \in 1..Len(section_to_ts(sec, cc)) :
              /\ section_to_ts(sec, cc)[i].pusi <=> i = 1
              /\ section_to_ts(sec, cc)[i].cc = (cc + i - 1) % 16
<1> DEFINE n == PacketCount(SectionLen(sec.len))
           p(i) == [pid |-> sec.pid, pusi |-> i = 1, cc |-> (cc + i - 1) % 16]
<1>1. sec.len \in Nat /\ sec.pid \in Nat
  BY DEF Section
<1>2. n \in 0..6
  BY <1>1 DEF SectionLen, PacketCount, SECTION_MAX_SIZE
<1> HIDE DEF n
<1>3. \A i \in 1..n : p(i) \in Packet
  BY <1>1, <1>2 DEF Packet
<1>4. section_to_ts(sec, cc) = [i \in 1..n |-> p(i)]
  BY DEF section_to_ts, n
<1> HIDE DEF p
<1>5. section_to_ts(sec, cc) \in Seq(Packet) /\ Len(section_to_ts(sec, cc)) = n
  BY <1>2, <1>3, <1>4
<1> DEFINE ts == section_to_ts(sec, cc)
<1>6. \A i \in 1..Len(ts) : ts[i] = p(i)
  BY <1>2, <1>4, <1>5
<1>7. ASSUME NEW i \in 1..Len(ts)
      PROVE  (ts[i].pusi <=> i = 1) /\ ts[i].cc = (cc + i - 1) % 16
  <2>1. p(i).pusi = (i = 1) /\ p(i).cc = (cc + i - 1) % 16
    BY DEF p
  <2>2. ts[i] = p(i)
    BY <1>6
  <2> HIDE DEF ts
  <2> QED BY <2>1, <2>2, Zenon
<1> QED BY <1>2, <1>5, <1>7

\* The packets of the first sections, one section after the other.
LEMMA PacketsStep ==
  ASSUME NEW secs \in Seq(Section)
  PROVE  /\ PacketsUpTo(secs)[0] = <<>>
         /\ \A n \in 1..Len(secs) :
              PacketsUpTo(secs)[n] =
                PacketsUpTo(secs)[n - 1] \o section_to_ts(secs[n], Len(PacketsUpTo(secs)[n - 1]))
<1> DEFINE N == Len(secs)
           T == Seq(Packet)
           After(n, ts) == ts \o section_to_ts(secs[n], Len(ts))
           G == [x \in (1..N) \X T |-> After(x[1], x[2])]
           Solves(f) == f = [n \in 0..N |-> IF n = 0 THEN <<>> ELSE After(n, f[n - 1])]
<1>1. N \in Nat
  OBVIOUS
<1>2. \A n \in 1..N, ts \in T : After(n, ts) \in T
  <2> SUFFICES ASSUME NEW n \in 1..N, NEW ts \in T PROVE After(n, ts) \in T
    OBVIOUS
  <2>1. secs[n] \in Section /\ Len(ts) \in Nat
    OBVIOUS
  <2>2. section_to_ts(secs[n], Len(ts)) \in T
    BY <2>1, SectionPackets
  <2> QED BY <2>2
<1> HIDE DEF After, N
<1>3. G \in [(1..N) \X T -> T]
  BY <1>2
<1>4. <<>> \in T
  OBVIOUS
<1> HIDE DEF T
<1>5. PICK f \in Computed(T, <<>>, N, G) : TRUE
  <2> HIDE DEF G, Solves
  <2> QED BY <1>1, <1>3, <1>4, Recursion, Zenon
<1>6. Solves(f)
  <2>1. \A n \in 0..N : f[n] = IF n = 0 THEN <<>> ELSE After(n, f[n - 1])
    <3> SUFFICES ASSUME NEW n \in 0..N, n # 0 PROVE f[n] = After(n, f[n - 1])
      BY <1>5 DEF Computed
    <3>1. n \in 1..N /\ f[n - 1] \in T
      BY <1>1, <1>5 DEF Computed
    <3> QED BY <3>1, <1>5 DEF Computed
  <2> QED BY <2>1, <1>5 DEF Computed
<1>7. PacketsUpTo(secs) = CHOOSE f1 : Solves(f1)
  BY DEF PacketsUpTo, After, N
<1>8. Solves(PacketsUpTo(secs))
  BY <1>6, <1>7
<1> DEFINE k == PacketsUpTo(secs)
<1> HIDE DEF k
<1>9. k = [n \in 0..N |-> IF n = 0 THEN <<>> ELSE After(n, k[n - 1])]
  BY <1>8 DEF k
<1>10. k[0] = <<>>
  BY <1>1, <1>9
<1>11. ASSUME NEW n \in 1..N PROVE k[n] = After(n, k[n - 1])
  <2>1. n \in 0..N /\ n # 0
    BY <1>1
  <2> QED BY <2>1, <1>9
<1> QED BY <1>10, <1>11 DEF k, After, N

\* Packets that are begun stay so when others follow, and so does their beginning.
LEMMA BegunConcat ==
  ASSUME NEW a \in Seq(Packet), NEW b \in Seq(Packet), Begun(a), Begun(b)
  PROVE  Begun(a \o b)
<1> DEFINE c == a \o b
<1>1. /\ Len(c) = Len(a) + Len(b) /\ Len(a) \in Nat /\ Len(b) \in Nat
      /\ \A i \in 1..Len(a) : c[i] = a[i]
      /\ \A i \in (Len(a) + 1)..(Len(a) + Len(b)) : c[i] = b[i - Len(a)]
  OBVIOUS
<1> HIDE DEF c
<1>2. ASSUME NEW i \in 1..Len(c)
      PROVE  \E j \in 0..(TsBufPackets - 1) : i - j >= 1 /\ c[i - j].pusi
  <2>1. CASE i \in 1..Len(a)
    <3>1. PICK j \in 0..(TsBufPackets - 1) : i - j >= 1 /\ a[i - j].pusi
      BY <2>1 DEF Begun
    <3>2. i - j \in 1..Len(a)
      BY <3>1, <2>1, <1>1 DEF TsBufPackets
    <3>3. c[i - j] = a[i - j]
      BY <3>2, <1>1
    <3> QED BY <3>1, <3>3
  <2>2. CASE i \in (Len(a) + 1)..(Len(a) + Len(b))
    <3>1. i - Len(a) \in 1..Len(b)
      BY <2>2, <1>1
    <3>2. PICK j \in 0..(TsBufPackets - 1) : i - Len(a) - j >= 1 /\ b[i - Len(a) - j].pusi
      BY <3>1 DEF Begun
    <3>3. i - j \in (Len(a) + 1)..(Len(a) + Len(b)) /\ (i - j) - Len(a) = i - Len(a) - j
      BY <3>2, <2>2, <1>1 DEF TsBufPackets
    <3>4. c[i - j] = b[i - Len(a) - j] /\ i - j >= 1
      BY <3>3, <1>1, SMTT(60)
    <3> QED BY <3>2, <3>4
  <2> QED BY <2>1, <2>2, <1>1
<1> QED BY <1>2 DEF Begun, c

LEMMA BegunPrefix ==
  ASSUME NEW a \in Seq(Packet), NEW n \in 0..Len(a), Begun(a)
  PROVE  Begun(SubSeq(a, 1, n)) /\ SubSeq(a, 1, n) \in Seq(Packet) /\ Len(SubSeq(a, 1, n)) = n
<1> DEFINE c == SubSeq(a, 1, n)
<1>1. c \in Seq(Packet) /\ Len(c) = n /\ \A i \in 1..n : c[i] = a[i]
  OBVIOUS
<1> HIDE DEF c
<1>2. ASSUME NEW i \in 1..Len(c)
      PROVE  \E j \in 0..(TsBufPackets - 1) : i - j >= 1 /\ c[i - j].pusi
  <2>0. i \in 1..Len(a) /\ i \in 1..n
    BY <1>1
  <2>1. PICK j \in 0..(TsBufPackets - 1) : i - j >= 1 /\ a[i - j].pusi
    BY <2>0 DEF Begun
  <2>2. i - j \in 1..n
    BY <2>1, <1>1 DEF TsBufPackets
  <2>3. c[i - j] = a[i - j]
    BY <2>2, <1>1
  <2> QED BY <2>1, <2>3
<1> QED BY <1>1, <1>2 DEF Begun, c

LEMMA SectionBegun ==
  ASSUME NEW sec \in Section, NEW cc \in Nat
  PROVE  Begun(section_to_ts(sec, cc))
<1> DEFINE ts == section_to_ts(sec, cc)
<1>1. Len(ts) \in 0..6 /\ \A i \in 1..Len(ts) : ts[i].pusi <=> i = 1
  BY SectionPackets
<1> HIDE DEF ts
<1>2. ASSUME NEW i \in 1..Len(ts)
      PROVE  \E j \in 0..(TsBufPackets - 1) : i - j >= 1 /\ ts[i - j].pusi
  <2>1. i - 1 \in 0..(TsBufPackets - 1) /\ i - (i - 1) = 1 /\ 1 \in 1..Len(ts)
    BY <1>1 DEF TsBufPackets
  <2>2. ts[1].pusi
    BY <2>1, <1>1
  <2> QED BY <2>1, <2>2
<1> QED BY <1>2 DEF Begun, ts

\* The packets of a table: begun, and counted from 0 on through all its sections.
CountedFrom0(ts) == \A i \in 1..Len(ts) : ts[i].cc = (i - 1) % 16
LEMMA CountedConcat ==
  ASSUME NEW ts \in Seq(Packet), NEW sec \in Section, CountedFrom0(ts)
  PROVE  CountedFrom0(ts \o section_to_ts(sec, Len(ts)))
<1> DEFINE b == section_to_ts(sec, Len(ts))
           c == ts \o b
<1>1. b \in Seq(Packet) /\ \A i \in 1..Len(b) : b[i].cc = (Len(ts) + i - 1) % 16
  BY SectionPackets
<1> HIDE DEF b
<1>2. /\ Len(c) = Len(ts) + Len(b) /\ Len(ts) \in Nat /\ Len(b) \in Nat
      /\ \A i \in 1..Len(ts) : c[i] = ts[i]
      /\ \A i \in (Len(ts) + 1)..(Len(ts) + Len(b)) : c[i] = b[i - Len(ts)]
  BY <1>1
<1> HIDE DEF c
<1>3. ASSUME NEW i \in 1..Len(c) PROVE c[i].cc = (i - 1) % 16
  <2>1. CASE i \in 1..Len(ts)
    BY <2>1, <1>2 DEF CountedFrom0
  <2>2. CASE i \in (Len(ts) + 1)..(Len(ts) + Len(b))
    <3>1. i - Len(ts) \in 1..Len(b) /\ Len(ts) + (i - Len(ts)) - 1 = i - 1
      BY <2>2, <1>2
    <3> QED BY <3>1, <2>2, <1>1, <1>2
  <2> QED BY <2>1, <2>2, <1>2
<1> QED BY <1>3 DEF CountedFrom0, b, c

LEMMA TableIsCounted ==
  ASSUME NEW secs \in Seq(Section)
  PROVE  TablePackets(secs) \in Seq(Packet) /\ Begun(TablePackets(secs))
         /\ CountedFrom0(TablePackets(secs))
<1> DEFINE k == PacketsUpTo(secs)
           P(n) == k[n] \in Seq(Packet) /\ Begun(k[n]) /\ CountedFrom0(k[n])
           Bad == {n \in 0..Len(secs) : ~P(n)}
<1>1. /\ k[0] = <<>>
      /\ \A n \in 1..Len(secs) : k[n] = k[n - 1] \o section_to_ts(secs[n], Len(k[n - 1]))
  BY PacketsStep
<1> HIDE DEF k
<1>2. Bad = {}
  <2> SUFFICES ASSUME Bad # {} PROVE FALSE
    OBVIOUS
  <2>1. PICK n \in Bad : \A y \in Bad : ~(y < n)
    <3>1. Bad \subseteq Nat
      OBVIOUS
    <3> HIDE DEF Bad
    <3> QED BY <3>1, Least
  <2>2. n \in 0..Len(secs) /\ ~P(n)
    BY <2>1
  <2>3. P(0)
    BY <1>1 DEF Begun, CountedFrom0
  <2>4. n \in 1..Len(secs) /\ n - 1 \in 0..Len(secs) /\ n - 1 < n
    BY <2>2, <2>3
  <2>5. P(n - 1)
    BY <2>1, <2>4
  <2>6. k[n] = k[n - 1] \o section_to_ts(secs[n], Len(k[n - 1])) /\ secs[n] \in Section
    <3>1. secs[n] \in Section
      BY <2>4
    <3> HIDE DEF P
    <3> QED BY <1>1, <2>4, <3>1
  <2> DEFINE kp == k[n - 1]
             b == section_to_ts(secs[n], Len(kp))
  <2>7. kp \in Seq(Packet) /\ Len(kp) \in Nat /\ Begun(kp) /\ CountedFrom0(kp)
    BY <2>5
  <2> HIDE DEF kp
  <2>8. b \in Seq(Packet) /\ Begun(b) /\ CountedFrom0(kp \o b)
    BY <2>6, <2>7, SectionPackets, SectionBegun, CountedConcat
  <2>9. k[n] = kp \o b
    BY <2>6 DEF kp
  <2> HIDE DEF b
  <2>10. k[n] \in Seq(Packet) /\ Begun(k[n]) /\ CountedFrom0(k[n])
    BY <2>7, <2>8, <2>9, BegunConcat
  <2> QED BY <2>10, <2>2
<1>3. P(Len(secs))
  <2>1. Len(secs) \in 0..Len(secs)
    OBVIOUS
  <2> QED BY <2>1, <1>2
<1> QED BY <1>3 DEF TablePackets, k

-----------------------------------------------------------------------------
(* Program numbers *)

Distinct(table) == \A i, j \in 1..Len(table) : table[i] = table[j] => i = j

\* There is always a free number: a table of n numbers does not hold all of 1..(n + 1).
LEMMA FreeNumber ==
  ASSUME NEW table \in Seq(Nat)
  PROVE  pick_free_prog_num(table) \in Nat /\ pick_free_prog_num(table) \notin Range(table)
<1> DEFINE n == Len(table)
           R == Range(table)
           Free == {m \in 1..(n + 1) : m \notin R}
           First(m) == m \notin R /\ \A l \in 1..(m - 1) : l \in R
<1>1. n \in Nat /\ DOMAIN table = 1..n
  OBVIOUS
<1>2. R = {table[i] : i \in 1..n}
  BY <1>1 DEF Range
<1> HIDE DEF n, R
<1>3. Free # {}
  <2> SUFFICES ASSUME \A m \in 1..(n + 1) : m \in R PROVE FALSE
    OBVIOUS
  <2> DEFINE At(m) == CHOOSE i \in 1..n : table[i] = m
             f == [m \in 1..(n + 1) |-> At(m)]
  <2>1. \A m \in 1..(n + 1) : At(m) \in 1..n /\ table[At(m)] = m
    BY <1>2
  <2> HIDE DEF At
  <2>2. f \in [1..(n + 1) -> 1..n] /\ \A m \in 1..(n + 1) : table[f[m]] = m
    BY <2>1
  <2> HIDE DEF f
  <2>3. /\ IsFiniteSet(1..(n + 1)) /\ IsFiniteSet(1..n)
        /\ Cardinality(1..(n + 1)) = n + 1 /\ Cardinality(1..n) = n
    <3>1. 1 \in Int /\ n \in Int /\ n + 1 \in Int
      BY <1>1
    <3>2. /\ IsFiniteSet(1..(n + 1))
          /\ Cardinality(1..(n + 1)) = IF 1 > n + 1 THEN 0 ELSE (n + 1) - 1 + 1
      BY <3>1, FS_Interval
    <3>3. IsFiniteSet(1..n) /\ Cardinality(1..n) = IF 1 > n THEN 0 ELSE n - 1 + 1
      BY <3>1, FS_Interval
    <3> QED BY <3>2, <3>3, <1>1
  <2>4. Cardinality(1..n) < Cardinality(1..(n + 1))
    BY <2>3, <1>1
  <2>5. PICK x, y \in 1..(n + 1) : x # y /\ f[x] = f[y]
    BY <2>2, <2>3, <2>4, FS_PigeonHole, Zenon
  <2> QED BY <2>2, <2>5
<1>4. PICK m \in Free : \A l \in Free : ~(l < m)
  <2>1. Free \subseteq Nat
    OBVIOUS
  <2> HIDE DEF Free
  <2> QED BY <1>3, <2>1, Least
<1>5. m \in 1..(n + 1) /\ First(m)
  <2>1. m \in 1..(n + 1) /\ m \notin R
    OBVIOUS
  <2>2. ASSUME NEW l \in 1..(m - 1) PROVE l \in R
    <3>1. l \in 1..(n + 1) /\ l < m
      BY <2>1, <1>1
    <3> QED BY <3>1, <1>4
  <2> QED BY <2>1, <2>2
<1> DEFINE q == CHOOSE l \in 1..(n + 1) : First(l)
<1>6. q \in 1..(n + 1) /\ First(q)
  BY <1>5
<1>7. pick_free_prog_num(table) = q
  BY DEF pick_free_prog_num, n, R
<1> HIDE DEF q
<1> QED BY <1>1, <1>6, <1>7 DEF R

\* A number that is pushed is a new one.
LEMMA PushDistinct ==
  ASSUME NEW table \in Seq(Nat), NEW num \in Nat, Distinct(table)
  PROVE  /\ fix_and_push_program_number(table, num) \in Seq(Nat)
         /\ Len(fix_and_push_program_number(table, num)) = Len(table) + 1
         /\ Distinct(fix_and_push_program_number(table, num))
<1> DEFINE e == IF num \in Range(table) THEN pick_free_prog_num(table) ELSE num
           c == Append(table, e)
<1>1. e \in Nat /\ e \notin Range(table)
  BY FreeNumber
<1>2. c = fix_and_push_program_number(table, num)
  BY DEF fix_and_push_program_number
<1> HIDE DEF e
<1>3. /\ c \in Seq(Nat) /\ Len(c) = Len(table) + 1 /\ Len(table) \in Nat
      /\ \A i \in 1..Len(table) : c[i] = table[i]
      /\ c[Len(table) + 1] = e
  BY <1>1
<1> HIDE DEF c
<1>4. \A i \in 1..Len(table) : c[i] # e
  <2>1. \A i \in 1..Len(table) : table[i] \in Range(table)
    BY DEF Range
  <2> QED BY <2>1, <1>1, <1>3
<1>5. Distinct(c)
  <2> SUFFICES ASSUME NEW i \in 1..Len(c), NEW j \in 1..Len(c), c[i] = c[j] PROVE i = j
    BY DEF Distinct
  <2>1. CASE i \in 1..Len(table) /\ j \in 1..Len(table)
    BY <2>1, <1>3 DEF Distinct
  <2>2. CASE i \in 1..Len(table) /\ j = Len(table) + 1
    BY <2>2, <1>3, <1>4
  <2>3. CASE j \in 1..Len(table) /\ i = Len(table) + 1
    BY <2>3, <1>3, <1>4
  <2> QED BY <2>1, <2>2, <2>3, <1>3
<1> QED BY <1>2, <1>3, <1>5

\* The numbers of the first programs, one program after the other.
LEMMA NumbersStep ==
  ASSUME NEW progs \in Seq(Program)
  PROVE  /\ NumbersUpTo(progs)[0] = <<>>
         /\ \A n \in 1..Len(progs) :
              NumbersUpTo(progs)[n] =
                fix_and_push_program_number(NumbersUpTo(progs)[n - 1], progs[n].num)
<1> DEFINE N == Len(progs)
           T == Seq(Nat)
           After(n, table) == fix_and_push_program_number(table, progs[n].num)
           G == [x \in (1..N) \X T |-> After(x[1], x[2])]
           Solves(f) == f = [n \in 0..N |-> IF n = 0 THEN <<>> ELSE After(n, f[n - 1])]
<1>1. N \in Nat
  OBVIOUS
<1>2. \A n \in 1..N, table \in T : After(n, table) \in T
  <2> SUFFICES ASSUME NEW n \in 1..N, NEW table \in T PROVE After(n, table) \in T
    OBVIOUS
  <2> DEFINE num == progs[n].num
             e == IF num \in Range(table) THEN pick_free_prog_num(table) ELSE num
  <2>1. num \in Nat
    <3>1. progs[n] \in Program
      OBVIOUS
    <3> QED BY <3>1 DEF Program
  <2> HIDE DEF num
  <2>2. e \in Nat
    BY <2>1, FreeNumber
  <2> HIDE DEF e
  <2>3. Append(table, e) \in T
    BY <2>2
  <2> QED BY <2>3 DEF fix_and_push_program_number, e, num
<1> HIDE DEF After, N
<1>3. G \in [(1..N) \X T -> T]
  BY <1>2
<1>4. <<>> \in T
  OBVIOUS
<1> HIDE DEF T
<1>5. PICK f \in Computed(T, <<>>, N, G) : TRUE
  <2> HIDE DEF G, Solves
  <2> QED BY <1>1, <1>3, <1>4, Recursion, Zenon
<1>6. Solves(f)
  <2>1. \A n \in 0..N : f[n] = IF n = 0 THEN <<>> ELSE After(n, f[n - 1])
    <3> SUFFICES ASSUME NEW n \in 0..N, n # 0 PROVE f[n] = After(n, f[n - 1])
      BY <1>5 DEF Computed
    <3>1. n \in 1..N /\ f[n - 1] \in T
      BY <1>1, <1>5 DEF Computed
    <3> QED BY <3>1, <1>5 DEF Computed
  <2> QED BY <2>1, <1>5 DEF Computed
<1>7. NumbersUpTo(progs) = CHOOSE f1 : Solves(f1)
  BY DEF NumbersUpTo, After, N
<1>8. Solves(NumbersUpTo(progs))
  BY <1>6, <1>7
<1> DEFINE k == NumbersUpTo(progs)
<1> HIDE DEF k
<1>9. k = [n \in 0..N |-> IF n = 0 THEN <<>> ELSE After(n, k[n - 1])]
  BY <1>8 DEF k
<1>10. k[0] = <<>>
  BY <1>1, <1>9
<1>11. ASSUME NEW n \in 1..N PROVE k[n] = After(n, k[n - 1])
  <2>1. n \in 0..N /\ n # 0
    BY <1>1
  <2> QED BY <2>1, <1>9
<1> QED BY <1>10, <1>11 DEF k, After, N

LEMMA NumbersDistinct ==
  ASSUME NEW progs \in Seq(Program)
  PROVE  LET table == NumbersUpTo(progs)[Len(progs)]
         IN  table \in Seq(Nat) /\ Len(table) = Len(progs) /\ Distinct(table)
<1> DEFINE k == NumbersUpTo(progs)
           P(n) == k[n] \in Seq(Nat) /\ Len(k[n]) = n /\ Distinct(k[n])
           Bad == {n \in 0..Len(progs) : ~P(n)}
<1>1. /\ k[0] = <<>>
      /\ \A n \in 1..Len(progs) : k[n] = fix_and_push_program_number(k[n - 1], progs[n].num)
  BY NumbersStep
<1> HIDE DEF k
<1>2. Bad = {}
  <2> SUFFICES ASSUME Bad # {} PROVE FALSE
    OBVIOUS
  <2>1. PICK n \in Bad : \A y \in Bad : ~(y < n)
    <3>1. Bad \subseteq Nat
      OBVIOUS
    <3> HIDE DEF Bad
    <3> QED BY <3>1, Least
  <2>2. n \in 0..Len(progs) /\ ~P(n)
    BY <2>1
  <2>3. P(0)
    BY <1>1 DEF Distinct
  <2>4. n \in 1..Len(progs) /\ n - 1 \in 0..Len(progs) /\ n - 1 < n
    BY <2>2, <2>3
  <2>5. P(n - 1)
    BY <2>1, <2>4
  <2> DEFINE kp == k[n - 1]
             num == progs[n].num
  <2>6. num \in Nat
    <3>1. progs[n] \in Program
      BY <2>4
    <3> QED BY <3>1 DEF Program
  <2>7. k[n] = fix_and_push_program_number(kp, num)
    <3> HIDE DEF P
    <3> QED BY <1>1, <2>4
  <2>8. kp \in Seq(Nat) /\ Len(kp) = n - 1 /\ Distinct(kp)
    BY <2>5
  <2> HIDE DEF kp, num
  <2>9. k[n] \in Seq(Nat) /\ Len(k[n]) = n - 1 + 1 /\ Distinct(k[n])
    BY <2>6, <2>7, <2>8, PushDistinct
  <2> QED BY <2>9, <2>2
<1>3. P(Len(progs))
  <2>1. Len(progs) \in 0..Len(progs)
    OBVIOUS
  <2> QED BY <2>1, <1>2
<1> QED BY <1>3 DEF k

\* The numbers the panel gives to the programs it walks.
LEMMA NumbersBuilt ==
  ASSUME NEW progs \in Seq(Program)
  PROVE  /\ Walk(progs) \in Seq(Program)
         /\ build_program_number_table(progs) \in Seq(Nat)
         /\ Len(build_program_number_table(progs)) = Len(Walk(progs))
         /\ Distinct(build_program_number_table(progs))
<1>1. Walk(progs) \in Seq(Program)
  BY OutputPsiAssumption DEF Walk
<1> QED BY <1>1, NumbersDistinct DEF build_program_number_table

-----------------------------------------------------------------------------
(* Runs of packets with one pid *)

Starts(ps, e, i) ==
  InRun(ps, e, i) /\ (i = 1 \/ PacketOf(ps, e, i - 1).pid # PacketOf(ps, e, i).pid)

\* The runs begun by a packet are no fewer than those begun before; if they are no
\* more, none begins in between.
LEMMA RunsGrow ==
  ASSUME NEW ps, NEW e, NEW n \in Nat, NEW m \in 0..n
  PROVE  /\ RunStarts(ps, e, m) \in Nat /\ RunStarts(ps, e, n) \in Nat
         /\ RunStarts(ps, e, m) <= RunStarts(ps, e, n)
         /\ RunStarts(ps, e, m) = RunStarts(ps, e, n) =>
              \A i \in (m + 1)..n : ~Starts(ps, e, i)
<1> DEFINE A(l) == {i \in 1..l : Starts(ps, e, i)}
<1>1. RunStarts(ps, e, m) = Cardinality(A(m)) /\ RunStarts(ps, e, n) = Cardinality(A(n))
  BY DEF RunStarts, Starts
<1>2. A(m) \in SUBSET A(n)
  OBVIOUS
<1>3. IsFiniteSet(A(n))
  <2>1. IsFiniteSet(1..n)
    BY FS_Interval
  <2>2. A(n) \in SUBSET (1..n)
    OBVIOUS
  <2> QED BY <2>1, <2>2, FS_Subset
<1> DEFINE Am == A(m)
           An == A(n)
<1>4. \A i \in (m + 1)..n : Starts(ps, e, i) => i \in An /\ i \notin Am
  OBVIOUS
<1>5. Am \in SUBSET An /\ IsFiniteSet(An)
  BY <1>2, <1>3
<1>6. RunStarts(ps, e, m) = Cardinality(Am) /\ RunStarts(ps, e, n) = Cardinality(An)
  BY <1>1
<1> HIDE DEF Am, An
<1>7. /\ IsFiniteSet(Am) /\ Cardinality(Am) <= Cardinality(An)
      /\ Cardinality(An) = Cardinality(Am) => An = Am
  BY <1>5, FS_Subset
<1>8. Cardinality(Am) \in Nat /\ Cardinality(An) \in Nat
  BY <1>5, <1>7, FS_CardinalityType
<1> QED BY <1>4, <1>6, <1>7, <1>8

\* A packet in a run has the begin of its run before it, and after any change of the
\* pid.
LEMMA RunBegins ==
  ASSUME NEW ps, NEW e, e.nr \in Nat, NEW j \in 1..e.nr, InRun(ps, e, j), NEW l \in 0..(j - 1),
         l = 0 \/ \E x \in l..(j - 1) : PacketOf(ps, e, x).pid # PacketOf(ps, e, x + 1).pid
  PROVE  \E m \in (l + 1)..j : Starts(ps, e, m)
<1> DEFINE Pid(x) == PacketOf(ps, e, x).pid
           T == {m \in 1..j : \A x \in m..(j - 1) : Pid(x) = Pid(x + 1)}
<1>1. j \in T /\ T \subseteq Nat
  OBVIOUS
<1>2. PICK m \in T : \A y \in T : ~(y < m)
  <2> HIDE DEF T
  <2> QED BY <1>1, Least
<1>3. m \in 1..j /\ \A x \in m..(j - 1) : Pid(x) = Pid(x + 1)
  BY <1>2
<1>4. m \in (l + 1)..j
  <2>1. CASE l = 0
    BY <2>1, <1>3
  <2>2. CASE l # 0
    <3>1. PICK x \in l..(j - 1) : Pid(x) # Pid(x + 1)
      BY <2>2
    <3>2. ~(x \in m..(j - 1))
      BY <3>1, <1>3
    <3> QED BY <3>1, <3>2, <1>3
  <2> QED BY <2>1, <2>2
<1>5. m = 1 \/ Pid(m - 1) # Pid(m)
  <2> SUFFICES ASSUME m # 1, Pid(m - 1) = Pid(m) PROVE FALSE
    OBVIOUS
  <2>1. m - 1 \in 1..j /\ m - 1 < m /\ (m - 1) + 1 = m
    BY <1>3
  <2>2. ASSUME NEW x \in (m - 1)..(j - 1) PROVE Pid(x) = Pid(x + 1)
    <3>1. CASE x = m - 1
      BY <3>1, <2>1
    <3>2. CASE x # m - 1
      <4>1. x \in m..(j - 1)
        BY <3>2, <1>3
      <4> QED BY <4>1, <1>3
    <3> QED BY <3>1, <3>2
  <2>3. m - 1 \in T
    BY <2>1, <2>2
  <2> QED BY <2>1, <2>3, <1>2
<1>6. InRun(ps, e, m)
  <2>1. CASE m = j
    BY <2>1
  <2>2. CASE m # j
    <3>1. m \in m..(j - 1) /\ m < e.nr
      BY <2>2, <1>3
    <3>2. Pid(m) = Pid(m + 1)
      BY <3>1, <1>3
    <3> QED BY <3>1, <3>2 DEF InRun
  <2> QED BY <2>1, <2>2
<1> QED BY <1>4, <1>5, <1>6 DEF Starts

LEMMA RunCounted ==
  ASSUME NEW ps, NEW e, e.nr \in Nat, NEW j \in 1..e.nr, InRun(ps, e, j)
  PROVE  RunStarts(ps, e, j) \in Nat /\ RunStarts(ps, e, j) >= 1
<1>1. PICK m \in 1..j : Starts(ps, e, m)
  BY RunBegins
<1>2. /\ RunStarts(ps, e, 0) \in Nat /\ RunStarts(ps, e, j) \in Nat
      /\ RunStarts(ps, e, 0) <= RunStarts(ps, e, j)
      /\ RunStarts(ps, e, 0) = RunStarts(ps, e, j) => \A i \in (0 + 1)..j : ~Starts(ps, e, i)
  <2>1. j \in Nat /\ 0 \in 0..j
    OBVIOUS
  <2> QED BY <2>1, RunsGrow
<1> QED BY <1>1, <1>2

\* Two packets counted to the same run: the first one is followed by a packet of its
\* pid, which is counted to this run too.
LEMMA RunContinues ==
  ASSUME NEW ps, NEW e, e.nr \in Nat, NEW i \in 1..e.nr, NEW j \in 1..e.nr, i < j,
         InRun(ps, e, j), RunStarts(ps, e, i) = RunStarts(ps, e, j)
  PROVE  /\ PacketOf(ps, e, i).pid = PacketOf(ps, e, i + 1).pid
         /\ InRun(ps, e, i + 1)
         /\ RunStarts(ps, e, i + 1) = RunStarts(ps, e, i)
<1>1. \A m \in (i + 1)..j : ~Starts(ps, e, m)
  <2>1. j \in Nat /\ i \in 0..j
    OBVIOUS
  <2> QED BY <2>1, RunsGrow
<1>2. PacketOf(ps, e, i).pid = PacketOf(ps, e, i + 1).pid
  <2> SUFFICES ASSUME PacketOf(ps, e, i).pid # PacketOf(ps, e, i + 1).pid PROVE FALSE
    OBVIOUS
  <2>1. i \in 0..(j - 1) /\ i \in i..(j - 1)
    OBVIOUS
  <2>2. \E m \in (i + 1)..j : Starts(ps, e, m)
    BY <2>1, RunBegins
  <2> QED BY <2>2, <1>1
<1>3. InRun(ps, e, i + 1)
  <2>1. i + 1 > 1 /\ (i + 1) - 1 = i
    OBVIOUS
  <2> QED BY <2>1, <1>2 DEF InRun
<1>4. RunStarts(ps, e, i + 1) = RunStarts(ps, e, i)
  <2>1. i + 1 \in Nat /\ i \in 0..(i + 1) /\ j \in Nat /\ i + 1 \in 0..j
    OBVIOUS
  <2>2. /\ RunStarts(ps, e, i) <= RunStarts(ps, e, i + 1)
        /\ RunStarts(ps, e, i) \in Nat /\ RunStarts(ps, e, i + 1) \in Nat
    BY <2>1, RunsGrow
  <2>3. RunStarts(ps, e, i + 1) <= RunStarts(ps, e, j) /\ RunStarts(ps, e, j) \in Nat
    BY <2>1, RunsGrow
  <2> QED BY <2>2, <2>3
<1> QED BY <1>2, <1>3, <1>4

-----------------------------------------------------------------------------
(* Groups *)

LEMMA EntsType ==
  ASSUME NEW es \in Ents, NEW ty \in PsiTypes
  PROVE  /\ ty \in 0..4 /\ ty \in Nat
         /\ es[ty].offset \in 0..255 /\ es[ty].nr \in 0..255
         /\ es[ty].offset \in Nat /\ es[ty].nr \in Nat
<1>1. ty \in 0..4
  BY DEF PsiTypes, PSI_TYPE_PAT, PSI_TYPE_NIT
<1>2. es[ty] \in [offset : 0..255, nr : 0..255]
  BY DEF Ents
<1> QED BY <1>1, <1>2

LEMMA NrTypes ==
  ASSUME NEW es \in Ents
  PROVE  /\ es[0].nr \in Nat /\ es[1].nr \in Nat /\ es[2].nr \in Nat
         /\ es[3].nr \in Nat /\ es[4].nr \in Nat
<1>1. \A ty \in PsiTypes : es[ty].nr \in Nat
  BY EntsType
<1>2. 0 \in PsiTypes /\ 1 \in PsiTypes /\ 2 \in PsiTypes /\ 3 \in PsiTypes /\ 4 \in PsiTypes
  BY DEF PsiTypes, PSI_TYPE_PAT, PSI_TYPE_NIT
<1> QED BY <1>1, <1>2, Zenon

LEMMA MulOffType ==
  ASSUME NEW es \in Ents, NEW ps, NEW ty \in PsiTypes
  PROVE  MulOff(es, ps, ty) \in Nat /\ MulOff(es, ps, ty) >= 2
<1>1. ASSUME NEW u \in PsiTypes PROVE Runs(es, ps, u) \in Nat
  <2>1. es[u].nr \in Nat /\ 0 \in 0..es[u].nr
    BY EntsType
  <2> QED BY <2>1, RunsGrow DEF Runs
<1>2. PSI_TYPE_PAT \in PsiTypes /\ PSI_TYPE_PMT \in PsiTypes
  BY DEF PsiTypes, PSI_TYPE_PAT, PSI_TYPE_NIT, PSI_TYPE_PMT
<1> QED BY <1>1, <1>2 DEF MulOff, PSISI_MUL_PKT_0

\* A group of its own is that of a run of PAT, PMT or CAT.
LEMMA HowtoCases ==
  ASSUME NEW es \in Ents, NEW ps, NEW ty \in PsiTypes, NEW i \in 1..es[ty].nr
  PROVE  /\ HowtoOf(es, ps, ty, i) \in Nat /\ HowtoOf(es, ps, ty, i) \in 0..6
         /\ HowtoOf(es, ps, ty, i) \in Howtos
         /\ HowtoOf(es, ps, ty, i) >= 3 =>
              /\ ty <= 2 /\ InRun(ps, es[ty], i)
              /\ HowtoOf(es, ps, ty, i) = MulOff(es, ps, ty) + RunStarts(ps, es[ty], i)
<1>1. ty \in 0..4 /\ psi_type_2_howto(ty) \in 0..2 /\ (psi_type_2_howto(ty) = 0 => ty <= 2)
  BY EntsType DEF psi_type_2_howto, PSI_TYPE_NIT, PSI_TYPE_CAT, PSISI_NIT, PSISI_40MS, PSISI_2SEC
<1>2. Howtos = 0..6
  BY DEF Howtos, PSISI_40MS, PSISI_MUL_PKT_3
<1>3. CASE psi_type_2_howto(ty) = 0 /\ InRun(ps, es[ty], i)
  <2> DEFINE off == MulOff(es, ps, ty) + RunStarts(ps, es[ty], i)
  <2>1. RunStarts(ps, es[ty], i) \in Nat /\ RunStarts(ps, es[ty], i) >= 1
    <3>1. es[ty].nr \in Nat
      BY EntsType
    <3> QED BY <1>3, <3>1, RunCounted
  <2>2. off \in Nat /\ off >= 3
    BY <2>1, MulOffType
  <2>3. HowtoOf(es, ps, ty, i) = IF off <= 6 THEN off ELSE 0
    BY <1>3 DEF HowtoOf, PSISI_40MS, PSISI_MUL_PKT_3
  <2> HIDE DEF off
  <2>4. HowtoOf(es, ps, ty, i) \in 0..6 /\ (HowtoOf(es, ps, ty, i) >= 3 => HowtoOf(es, ps, ty, i) = off)
    BY <2>2, <2>3
  <2> QED BY <1>1, <1>2, <1>3, <2>4 DEF off
<1>4. CASE ~(psi_type_2_howto(ty) = 0 /\ InRun(ps, es[ty], i))
  <2>1. HowtoOf(es, ps, ty, i) = psi_type_2_howto(ty)
    BY <1>4 DEF HowtoOf, PSISI_40MS
  <2> QED BY <1>1, <1>2, <2>1
<1> QED BY <1>3, <1>4

\* Where the tables are in what is written.
LEMMA ConcatIndex ==
  ASSUME NEW T, NEW a \in Seq(T), NEW b \in Seq(T)
  PROVE  /\ a \o b \in Seq(T) /\ Len(a \o b) = Len(a) + Len(b)
         /\ \A i \in 1..Len(a) : (a \o b)[i] = a[i]
         /\ \A i \in 1..Len(b) : (a \o b)[Len(a) + i] = b[i]
<1>1. \A i \in 1..Len(b) : Len(a) + i \in 1..(Len(a) + Len(b)) /\ ~(Len(a) + i <= Len(a))
                           /\ (Len(a) + i) - Len(a) = i
  OBVIOUS
<1> QED BY <1>1

LEMMA TableInfoType ==
  ASSUME NEW es \in Ents, NEW ps \in Seq(Packet), NEW ty \in PsiTypes,
         es[ty].offset + es[ty].nr <= Len(ps)
  PROVE  /\ TableInfo(es, ps, ty) \in Seq(Nat \X Packet)
         /\ Len(TableInfo(es, ps, ty)) = es[ty].nr
         /\ \A i \in 1..es[ty].nr :
              TableInfo(es, ps, ty)[i] = <<HowtoOf(es, ps, ty, i), PacketOf(ps, es[ty], i)>>
<1>1. es[ty].offset \in Nat /\ es[ty].nr \in Nat
  BY EntsType
<1>2. ASSUME NEW i \in 1..es[ty].nr
      PROVE  <<HowtoOf(es, ps, ty, i), PacketOf(ps, es[ty], i)>> \in Nat \X Packet
  <2>1. HowtoOf(es, ps, ty, i) \in Nat
    BY HowtoCases
  <2>2. es[ty].offset + i \in 1..Len(ps)
    BY <1>1
  <2>3. PacketOf(ps, es[ty], i) \in Packet
    BY <2>2 DEF PacketOf
  <2> QED BY <2>1, <2>3
<1> DEFINE n == es[ty].nr
           p(i) == <<HowtoOf(es, ps, ty, i), PacketOf(ps, es[ty], i)>>
<1>3. TableInfo(es, ps, ty) = [i \in 1..n |-> p(i)]
  BY DEF TableInfo
<1>4. n \in Nat /\ \A i \in 1..n : p(i) \in Nat \X Packet
  BY <1>1, <1>2
<1> HIDE DEF n, p
<1>5. /\ TableInfo(es, ps, ty) \in Seq(Nat \X Packet) /\ Len(TableInfo(es, ps, ty)) = n
      /\ \A i \in 1..n : TableInfo(es, ps, ty)[i] = p(i)
  BY <1>3, <1>4
<1> QED BY <1>5 DEF n, p

LEMMA InfoIndex ==
  ASSUME NEW es \in Ents, NEW ps \in Seq(Packet),
         \A ty \in PsiTypes : es[ty].offset + es[ty].nr <= Len(ps)
  PROVE  /\ WriteInfo(es, ps) \in Seq(Nat \X Packet)
         /\ Len(WriteInfo(es, ps)) = Before(es, 5)
         /\ \A ty \in PsiTypes : \A i \in 1..es[ty].nr :
              /\ Before(es, ty) + i \in 1..Before(es, 5)
              /\ WriteInfo(es, ps)[Before(es, ty) + i] =
                   <<HowtoOf(es, ps, ty, i), PacketOf(ps, es[ty], i)>>
<1> DEFINE T == Nat \X Packet
           t0 == TableInfo(es, ps, 0)
           t1 == TableInfo(es, ps, 1)
           t2 == TableInfo(es, ps, 2)
           t3 == TableInfo(es, ps, 3)
           t4 == TableInfo(es, ps, 4)
           c1 == t0 \o t1
           c2 == c1 \o t2
           c3 == c2 \o t3
           c4 == c3 \o t4
           E(ty, i) == <<HowtoOf(es, ps, ty, i), PacketOf(ps, es[ty], i)>>
<1>1. PsiTypes = {0, 1, 2, 3, 4}
  BY DEF PsiTypes, PSI_TYPE_PAT, PSI_TYPE_NIT
<1>2. WriteInfo(es, ps) = c4
  BY DEF WriteInfo, PSI_TYPE_PAT, PSI_TYPE_PMT, PSI_TYPE_CAT, PSI_TYPE_SDT, PSI_TYPE_NIT
<1>3. /\ t0 \in Seq(T) /\ Len(t0) = es[0].nr /\ \A i \in 1..es[0].nr : t0[i] = E(0, i)
      /\ t1 \in Seq(T) /\ Len(t1) = es[1].nr /\ \A i \in 1..es[1].nr : t1[i] = E(1, i)
      /\ t2 \in Seq(T) /\ Len(t2) = es[2].nr /\ \A i \in 1..es[2].nr : t2[i] = E(2, i)
      /\ t3 \in Seq(T) /\ Len(t3) = es[3].nr /\ \A i \in 1..es[3].nr : t3[i] = E(3, i)
      /\ t4 \in Seq(T) /\ Len(t4) = es[4].nr /\ \A i \in 1..es[4].nr : t4[i] = E(4, i)
  BY <1>1, TableInfoType
<1>4. /\ es[0].nr \in Nat /\ es[1].nr \in Nat /\ es[2].nr \in Nat
      /\ es[3].nr \in Nat /\ es[4].nr \in Nat
  BY NrTypes
<1> HIDE DEF T, t0, t1, t2, t3, t4, E
<1> DEFINE n0 == es[0].nr
           n1 == es[1].nr
           n2 == es[2].nr
           n3 == es[3].nr
           n4 == es[4].nr
<1>5. /\ c1 \in Seq(T) /\ Len(c1) = n0 + n1
      /\ \A i \in 1..n0 : c1[i] = E(0, i)
      /\ \A i \in 1..n1 : c1[n0 + i] = E(1, i)
  <2>1. /\ c1 \in Seq(T) /\ Len(c1) = Len(t0) + Len(t1)
        /\ \A i \in 1..Len(t0) : c1[i] = t0[i]
        /\ \A i \in 1..Len(t1) : c1[Len(t0) + i] = t1[i]
    <3>1. t0 \in Seq(T) /\ t1 \in Seq(T)
      BY <1>3, <1>4
    <3> QED BY <3>1, ConcatIndex
  <2> HIDE DEF c1
  <2> QED BY <2>1, <1>3, <1>4
<1> HIDE DEF c1
<1>6. /\ c2 \in Seq(T) /\ Len(c2) = n0 + n1 + n2
      /\ \A i \in 1..(n0 + n1) : c2[i] = c1[i]
      /\ \A i \in 1..n2 : c2[n0 + n1 + i] = E(2, i)
  <2>1. /\ c2 \in Seq(T) /\ Len(c2) = Len(c1) + Len(t2)
        /\ \A i \in 1..Len(c1) : c2[i] = c1[i]
        /\ \A i \in 1..Len(t2) : c2[Len(c1) + i] = t2[i]
    <3>1. c1 \in Seq(T) /\ t2 \in Seq(T)
      BY <1>3, <1>4, <1>5
    <3> QED BY <3>1, ConcatIndex
  <2> HIDE DEF c2
  <2> QED BY <2>1, <1>3, <1>4, <1>5
<1> HIDE DEF c2
<1>7. /\ c3 \in Seq(T) /\ Len(c3) = n0 + n1 + n2 + n3
      /\ \A i \in 1..(n0 + n1 + n2) : c3[i] = c2[i]
      /\ \A i \in 1..n3 : c3[n0 + n1 + n2 + i] = E(3, i)
  <2>1. /\ c3 \in Seq(T) /\ Len(c3) = Len(c2) + Len(t3)
        /\ \A i \in 1..Len(c2) : c3[i] = c2[i]
        /\ \A i \in 1..Len(t3) : c3[Len(c2) + i] = t3[i]
    <3>1. c2 \in Seq(T) /\ t3 \in Seq(T)
      BY <1>3, <1>4, <1>6
    <3> QED BY <3>1, ConcatIndex
  <2> HIDE DEF c3
  <2> QED BY <2>1, <1>3, <1>4, <1>6
<1> HIDE DEF c3
<1>8. /\ c4 \in Seq(T) /\ Len(c4) = n0 + n1 + n2 + n3 + n4
      /\ \A i \in 1..(n0 + n1 + n2 + n3) : c4[i] = c3[i]
      /\ \A i \in 1..n4 : c4[n0 + n1 + n2 + n3 + i] = E(4, i)
  <2>1. /\ c4 \in Seq(T) /\ Len(c4) = Len(c3) + Len(t4)
        /\ \A i \in 1..Len(c3) : c4[i] = c3[i]
        /\ \A i \in 1..Len(t4) : c4[Len(c3) + i] = t4[i]
    <3>1. c3 \in Seq(T) /\ t4 \in Seq(T)
      BY <1>3, <1>4, <1>7
    <3> QED BY <3>1, ConcatIndex
  <2> HIDE DEF c4
  <2> QED BY <2>1, <1>3, <1>4, <1>7
<1> HIDE DEF c4
<1>9. /\ Before(es, 0) = 0 /\ Before(es, 1) = n0 /\ Before(es, 2) = n0 + n1
      /\ Before(es, 3) = n0 + n1 + n2 /\ Before(es, 4) = n0 + n1 + n2 + n3
      /\ Before(es, 5) = n0 + n1 + n2 + n3 + n4
  BY <1>4, SMTT(60) DEF Before
<1>10. n0 \in Nat /\ n1 \in Nat /\ n2 \in Nat /\ n3 \in Nat /\ n4 \in Nat
  BY <1>4
<1> HIDE DEF n0, n1, n2, n3, n4
<1>11. /\ \A i \in 1..n0 : c4[i] = E(0, i)
       /\ \A i \in 1..n1 : c4[n0 + i] = E(1, i)
       /\ \A i \in 1..n2 : c4[n0 + n1 + i] = E(2, i)
       /\ \A i \in 1..n3 : c4[n0 + n1 + n2 + i] = E(3, i)
       /\ \A i \in 1..n4 : c4[n0 + n1 + n2 + n3 + i] = E(4, i)
  <2>1. \A i \in 1..(n0 + n1) : c4[i] = c1[i]
    BY <1>6, <1>7, <1>8, <1>10, SMTT(60)
  <2>2. \A i \in 1..(n0 + n1 + n2) : c4[i] = c2[i]
    BY <1>7, <1>8, <1>10
  <2>3. \A i \in 1..n0 : c4[i] = E(0, i)
    BY <2>1, <1>5, <1>10
  <2>4. \A i \in 1..n1 : c4[n0 + i] = E(1, i)
    BY <2>1, <1>5, <1>10
  <2>5. \A i \in 1..n2 : c4[n0 + n1 + i] = E(2, i)
    BY <2>2, <1>6, <1>10
  <2>6. \A i \in 1..n3 : c4[n0 + n1 + n2 + i] = E(3, i)
    BY <1>7, <1>8, <1>10
  <2> QED BY <2>3, <2>4, <2>5, <2>6, <1>8
<1>12. ASSUME NEW ty \in PsiTypes, NEW i \in 1..es[ty].nr
       PROVE  Before(es, ty) + i \in 1..Before(es, 5) /\ c4[Before(es, ty) + i] = E(ty, i)
  <2>1. CASE ty = 0
    <3>1. i \in 1..n0 /\ Before(es, ty) = 0
      BY <2>1, <1>9 DEF n0
    <3>2. Before(es, ty) + i \in 1..Before(es, 5)
      BY <3>1, <1>9, <1>10
    <3>3. c4[i] = E(ty, i)
      BY <3>1, <2>1, <1>11
    <3>4. Before(es, ty) + i = i
      BY <3>1, <1>10
    <3> QED BY <3>2, <3>3, <3>4
  <2>2. CASE ty = 1
    <3>1. i \in 1..n1 /\ Before(es, ty) = n0
      BY <2>2, <1>9 DEF n1
    <3>2. Before(es, ty) + i \in 1..Before(es, 5)
      BY <3>1, <1>9, <1>10
    <3>3. c4[n0 + i] = E(ty, i)
      BY <3>1, <2>2, <1>11
    <3>4. Before(es, ty) + i = n0 + i
      BY <3>1, <1>10
    <3> QED BY <3>2, <3>3, <3>4
  <2>3. CASE ty = 2
    <3>1. i \in 1..n2 /\ Before(es, ty) = n0 + n1
      BY <2>3, <1>9 DEF n2
    <3>2. Before(es, ty) + i \in 1..Before(es, 5)
      BY <3>1, <1>9, <1>10
    <3>3. c4[n0 + n1 + i] = E(ty, i)
      BY <3>1, <2>3, <1>11
    <3>4. Before(es, ty) + i = n0 + n1 + i
      BY <3>1, <1>10
    <3> QED BY <3>2, <3>3, <3>4
  <2>4. CASE ty = 3
    <3>1. i \in 1..n3 /\ Before(es, ty) = n0 + n1 + n2
      BY <2>4, <1>9 DEF n3
    <3>2. Before(es, ty) + i \in 1..Before(es, 5)
      BY <3>1, <1>9, <1>10
    <3>3. c4[n0 + n1 + n2 + i] = E(ty, i)
      BY <3>1, <2>4, <1>11
    <3>4. Before(es, ty) + i = n0 + n1 + n2 + i
      BY <3>1, <1>10
    <3> QED BY <3>2, <3>3, <3>4
  <2>5. CASE ty = 4
    <3>1. i \in 1..n4 /\ Before(es, ty) = n0 + n1 + n2 + n3
      BY <2>5, <1>9 DEF n4
    <3>2. Before(es, ty) + i \in 1..Before(es, 5)
      BY <3>1, <1>9, <1>10
    <3>3. c4[n0 + n1 + n2 + n3 + i] = E(ty, i)
      BY <3>1, <2>5, <1>11
    <3>4. Before(es, ty) + i = n0 + n1 + n2 + n3 + i
      BY <3>1, <1>10
    <3> QED BY <3>2, <3>3, <3>4
  <2> QED BY <1>1, <2>1, <2>2, <2>3, <2>4, <2>5
<1> QED BY <1>2, <1>8, <1>9, <1>12 DEF T, E

\* Every packet written is one of a table.
LEMMA Located ==
  ASSUME NEW es \in Ents, NEW g \in 1..Before(es, 5)
  PROVE  \E ty \in PsiTypes : \E i \in 1..es[ty].nr : g = Before(es, ty) + i
<1>1. PsiTypes = {0, 1, 2, 3, 4}
  BY DEF PsiTypes, PSI_TYPE_PAT, PSI_TYPE_NIT
<1> DEFINE n0 == es[0].nr
           n1 == es[1].nr
           n2 == es[2].nr
           n3 == es[3].nr
           n4 == es[4].nr
<1>2. n0 \in Nat /\ n1 \in Nat /\ n2 \in Nat /\ n3 \in Nat /\ n4 \in Nat
  BY NrTypes
<1>3. /\ Before(es, 0) = 0 /\ Before(es, 1) = n0 /\ Before(es, 2) = n0 + n1
      /\ Before(es, 3) = n0 + n1 + n2 /\ Before(es, 4) = n0 + n1 + n2 + n3
      /\ Before(es, 5) = n0 + n1 + n2 + n3 + n4
  BY <1>2 DEF Before
<1> SUFFICES \/ \E i \in 1..n0 : g = Before(es, 0) + i
             \/ \E i \in 1..n1 : g = Before(es, 1) + i
             \/ \E i \in 1..n2 : g = Before(es, 2) + i
             \/ \E i \in 1..n3 : g = Before(es, 3) + i
             \/ \E i \in 1..n4 : g = Before(es, 4) + i
  BY <1>1
<1> HIDE DEF n0, n1, n2, n3, n4
<1>4. g \in Nat /\ g >= 1 /\ g <= n0 + n1 + n2 + n3 + n4
  BY <1>2, <1>3
<1>5. CASE g <= n0
  <2>1. g \in 1..n0 /\ g = 0 + g
    BY <1>5, <1>2, <1>4
  <2> QED BY <2>1, <1>3
<1>6. CASE n0 < g /\ g <= n0 + n1
  <2>1. g - n0 \in 1..n1 /\ g = n0 + (g - n0)
    BY <1>6, <1>2, <1>4
  <2> QED BY <2>1, <1>3
<1>7. CASE n0 + n1 < g /\ g <= n0 + n1 + n2
  <2>1. g - (n0 + n1) \in 1..n2 /\ g = n0 + n1 + (g - (n0 + n1))
    BY <1>7, <1>2, <1>4
  <2> QED BY <2>1, <1>3
<1>8. CASE n0 + n1 + n2 < g /\ g <= n0 + n1 + n2 + n3
  <2>1. g - (n0 + n1 + n2) \in 1..n3 /\ g = n0 + n1 + n2 + (g - (n0 + n1 + n2))
    BY <1>8, <1>2, <1>4
  <2> QED BY <2>1, <1>3
<1>9. CASE n0 + n1 + n2 + n3 < g
  <2>1. g - (n0 + n1 + n2 + n3) \in 1..n4 /\ g = n0 + n1 + n2 + n3 + (g - (n0 + n1 + n2 + n3))
    BY <1>9, <1>2, <1>4
  <2> QED BY <2>1, <1>3
<1> QED BY <1>2, <1>4, <1>5, <1>6, <1>7, <1>8, <1>9

\* A table is written behind those before it.
LEMMA BeforeGrows ==
  ASSUME NEW es \in Ents, NEW ty \in PsiTypes, NEW u \in 0..5, ty < u
  PROVE  /\ Before(es, ty) \in Nat /\ Before(es, u) \in Nat
         /\ Before(es, ty) + es[ty].nr <= Before(es, u)
<1>1. PsiTypes = {0, 1, 2, 3, 4}
  BY DEF PsiTypes, PSI_TYPE_PAT, PSI_TYPE_NIT
<1>2. /\ es[0].nr \in Nat /\ es[1].nr \in Nat /\ es[2].nr \in Nat
      /\ es[3].nr \in Nat /\ es[4].nr \in Nat
  BY NrTypes
<1> QED BY <1>1, <1>2 DEF Before

\* Two tables never share a group of runs.
LEMMA GroupsApart ==
  ASSUME NEW es \in Ents, NEW ps, NEW ty \in PsiTypes, NEW u \in PsiTypes, ty < u,
         NEW i \in 1..es[ty].nr, NEW j \in 1..es[u].nr, HowtoOf(es, ps, ty, i) >= 3
  PROVE  HowtoOf(es, ps, u, j) # HowtoOf(es, ps, ty, i)
<1> SUFFICES ASSUME HowtoOf(es, ps, u, j) = HowtoOf(es, ps, ty, i) PROVE FALSE
  OBVIOUS
<1>1. /\ ty <= 2 /\ HowtoOf(es, ps, ty, i) = MulOff(es, ps, ty) + RunStarts(ps, es[ty], i)
      /\ u <= 2 /\ HowtoOf(es, ps, u, j) = MulOff(es, ps, u) + RunStarts(ps, es[u], j)
      /\ InRun(ps, es[u], j)
  BY HowtoCases
<1>2. RunStarts(ps, es[u], j) \in Nat /\ RunStarts(ps, es[u], j) >= 1
  <2>1. es[u].nr \in Nat
    BY EntsType
  <2> QED BY <2>1, <1>1, RunCounted
<1>3. /\ RunStarts(ps, es[ty], i) \in Nat /\ Runs(es, ps, ty) \in Nat
      /\ RunStarts(ps, es[ty], i) <= Runs(es, ps, ty)
  <2>1. es[ty].nr \in Nat /\ i \in 0..es[ty].nr
    BY EntsType
  <2> QED BY <2>1, RunsGrow DEF Runs
<1>4. /\ MulOff(es, ps, u) \in Nat /\ MulOff(es, ps, ty) \in Nat
      /\ MulOff(es, ps, u) >= MulOff(es, ps, ty) + Runs(es, ps, ty)
  <2>1. Runs(es, ps, 0) \in Nat /\ Runs(es, ps, 1) \in Nat
    <3>1. 0 \in PsiTypes /\ 1 \in PsiTypes
      BY DEF PsiTypes, PSI_TYPE_PAT, PSI_TYPE_NIT
    <3>2. es[0].nr \in Nat /\ es[1].nr \in Nat
      BY <3>1, EntsType
    <3>3. 0 \in 0..es[0].nr /\ 0 \in 0..es[1].nr
      BY <3>2
    <3> QED BY <3>2, <3>3, RunsGrow DEF Runs
  <2>2. (ty = 0 \/ ty = 1) /\ (u = 1 \/ u = 2)
    <3>1. ty \in 0..4 /\ u \in 0..4
      BY EntsType
    <3> QED BY <3>1, <1>1
  <2> QED BY <2>1, <2>2 DEF MulOff, PSI_TYPE_PAT, PSI_TYPE_PMT, PSISI_MUL_PKT_0
<1> QED BY <1>1, <1>2, <1>3, <1>4

\* A packet of a run is followed by the packet of its table that continues the run.
LEMMA GroupContinues ==
  ASSUME NEW es \in Ents, NEW ps, NEW ty \in PsiTypes,
         NEW i \in 1..es[ty].nr, NEW j \in 1..es[ty].nr, i < j,
         HowtoOf(es, ps, ty, i) >= 3, HowtoOf(es, ps, ty, j) = HowtoOf(es, ps, ty, i)
  PROVE  /\ PacketOf(ps, es[ty], i).pid = PacketOf(ps, es[ty], i + 1).pid
         /\ i + 1 \in 1..es[ty].nr
         /\ HowtoOf(es, ps, ty, i + 1) = HowtoOf(es, ps, ty, i)
<1>1. /\ HowtoOf(es, ps, ty, i) = MulOff(es, ps, ty) + RunStarts(ps, es[ty], i)
      /\ HowtoOf(es, ps, ty, j) = MulOff(es, ps, ty) + RunStarts(ps, es[ty], j)
      /\ ty <= 2 /\ InRun(ps, es[ty], j) /\ HowtoOf(es, ps, ty, i) \in 0..6
  BY HowtoCases
<1>2. es[ty].nr \in Nat /\ MulOff(es, ps, ty) \in Nat /\ i + 1 \in 1..es[ty].nr
  BY EntsType, MulOffType
<1>3. RunStarts(ps, es[ty], i) = RunStarts(ps, es[ty], j)
  <2>1. i \in 0..es[ty].nr /\ j \in 0..es[ty].nr
    BY <1>2
  <2>2. RunStarts(ps, es[ty], i) \in Nat /\ RunStarts(ps, es[ty], j) \in Nat
    BY <1>2, <2>1, RunsGrow
  <2> QED BY <1>1, <1>2, <2>2
<1>4. /\ PacketOf(ps, es[ty], i).pid = PacketOf(ps, es[ty], i + 1).pid
      /\ InRun(ps, es[ty], i + 1)
      /\ RunStarts(ps, es[ty], i + 1) = RunStarts(ps, es[ty], i)
  BY <1>1, <1>2, <1>3, RunContinues
<1>5. psi_type_2_howto(ty) = 0
  <2>1. ty \in 0..4
    BY EntsType
  <2> QED BY <2>1, <1>1 DEF psi_type_2_howto, PSI_TYPE_NIT, PSI_TYPE_CAT, PSISI_40MS
<1>6. HowtoOf(es, ps, ty, i + 1) = HowtoOf(es, ps, ty, i)
  <2> DEFINE off == MulOff(es, ps, ty) + RunStarts(ps, es[ty], i + 1)
  <2>1. HowtoOf(es, ps, ty, i + 1) = IF off <= 6 THEN off ELSE 0
    BY <1>4, <1>5 DEF HowtoOf, PSISI_40MS, PSISI_MUL_PKT_3
  <2>2. off = HowtoOf(es, ps, ty, i) /\ HowtoOf(es, ps, ty, i) <= 6
    BY <1>1, <1>4
  <2> QED BY <2>1, <2>2
<1> QED BY <1>2, <1>4, <1>6

\* Of the packets that are counted, each one in a group of its own is followed in it by
\* the next one of its pid.
LEMMA GroupsHold ==
  ASSUME ents \in Ents, pkts \in Seq(Packet), Counted(ents, pkts),
         \A ty \in PsiTypes : ents[ty].offset + ents[ty].nr <= Len(pkts),
         fpga = WriteInfo(ents, pkts),
         NEW i \in 1..Len(fpga), NEW j \in 1..Len(fpga), fpga[i][1] >= 3, Succeeds(j, i)
  PROVE  /\ fpga[j][2].pid = fpga[i][2].pid
         /\ fpga[j][2].cc = (fpga[i][2].cc + 1) % 16
<1>1. /\ Len(fpga) = Before(ents, 5)
      /\ \A ty \in PsiTypes : \A a \in 1..ents[ty].nr :
           /\ Before(ents, ty) + a \in 1..Before(ents, 5)
           /\ fpga[Before(ents, ty) + a] = <<HowtoOf(ents, pkts, ty, a), PacketOf(pkts, ents[ty], a)>>
  BY InfoIndex
<1>2. PICK ty \in PsiTypes : \E a \in 1..ents[ty].nr : i = Before(ents, ty) + a
  BY <1>1, Located, SMTT(60)
<1>3. PICK a \in 1..ents[ty].nr : i = Before(ents, ty) + a
  BY <1>2
<1>4. PICK u \in PsiTypes : \E b \in 1..ents[u].nr : j = Before(ents, u) + b
  BY <1>1, Located
<1>5. PICK b \in 1..ents[u].nr : j = Before(ents, u) + b
  BY <1>4
<1>6. /\ fpga[i] = <<HowtoOf(ents, pkts, ty, a), PacketOf(pkts, ents[ty], a)>>
      /\ fpga[j] = <<HowtoOf(ents, pkts, u, b), PacketOf(pkts, ents[u], b)>>
  BY <1>1, <1>3, <1>5
<1>7. HowtoOf(ents, pkts, ty, a) >= 3 /\ HowtoOf(ents, pkts, u, b) = HowtoOf(ents, pkts, ty, a)
  BY <1>6 DEF Succeeds
<1>8. i < j
  BY DEF Succeeds
<1>9. ty \in 0..4 /\ u \in 0..4 /\ ents[ty].nr \in Nat /\ ents[u].nr \in Nat
  BY EntsType
<1>10. ~(ty < u)
  BY <1>7, GroupsApart
<1>11. ~(u < ty)
  <2> SUFFICES ASSUME u < ty PROVE FALSE
    OBVIOUS
  <2>1. ty \in 0..5
    BY <1>9
  <2>2. Before(ents, u) \in Nat /\ Before(ents, ty) \in Nat /\ Before(ents, u) + ents[u].nr <= Before(ents, ty)
    BY <2>1, BeforeGrows
  <2> QED BY <2>2, <1>3, <1>5, <1>8, <1>9, SMTT(60)
<1>12. u = ty
  BY <1>9, <1>10, <1>11
<1>13. Before(ents, ty) \in Nat
  <2>1. 5 \in 0..5 /\ ty < 5
    BY <1>9
  <2> QED BY <2>1, BeforeGrows
<1>14. a < b /\ b \in 1..ents[ty].nr
  BY <1>3, <1>5, <1>8, <1>9, <1>12, <1>13
<1>15. /\ PacketOf(pkts, ents[ty], a).pid = PacketOf(pkts, ents[ty], a + 1).pid
       /\ a + 1 \in 1..ents[ty].nr
       /\ HowtoOf(ents, pkts, ty, a + 1) = HowtoOf(ents, pkts, ty, a)
  BY <1>7, <1>12, <1>14, GroupContinues
<1>16. b = a + 1
  <2> SUFFICES ASSUME b # a + 1 PROVE FALSE
    OBVIOUS
  <2>1. i + 1 = Before(ents, ty) + (a + 1) /\ i + 1 \in (i + 1)..(j - 1)
    BY <1>3, <1>5, <1>9, <1>12, <1>13, <1>14, SMTT(60)
  <2>2. fpga[i + 1] = <<HowtoOf(ents, pkts, ty, a + 1), PacketOf(pkts, ents[ty], a + 1)>>
    BY <2>1, <1>1, <1>15
  <2>3. fpga[i + 1][1] # fpga[i][1]
    BY <2>1 DEF Succeeds
  <2> QED BY <2>2, <2>3, <1>6, <1>15
<1>17. /\ PacketOf(pkts, ents[ty], a).cc = (a - 1) % 16
       /\ PacketOf(pkts, ents[ty], a + 1).cc = (a + 1 - 1) % 16
  <2>1. /\ ents[ty].offset + a <= Len(pkts) /\ ents[ty].offset + (a + 1) <= Len(pkts)
    <3>1. ents[ty].offset \in Nat
      BY EntsType
    <3> QED BY <3>1, <1>9, <1>15, SMTT(60)
  <2> QED BY <2>1, <1>15 DEF Counted
<1>18. (a + 1 - 1) % 16 = (((a - 1) % 16) + 1) % 16
  BY <1>9
<1> QED BY <1>6, <1>12, <1>15, <1>16, <1>17, <1>18

-----------------------------------------------------------------------------
(* The check of a container, and what a start reads back *)

LEMMA NoEntryNr ==
  ASSUME NEW es, NEW ty \in PsiTypes, es[ty] = NoEntry
  PROVE  es[ty].offset = 0 /\ es[ty].nr = 0
BY DEF NoEntry

\* Tables that follow each other pass the check, if they leave room.
LEMMA ChainedIsValid ==
  ASSUME NEW es \in Ents, Chained(es), Before(es, 5) < OUTPUT_PSI_PACKET_MAX_NUM
  PROVE  output_psi_data_validate(es)
<1> DEFINE used == {ty \in PsiTypes : es[ty] # NoEntry}
           before(ty) == {u \in used : u < ty}
           Off(ty) == IF before(ty) = {} THEN 0
                      ELSE LET u == CHOOSE u \in before(ty) : \A w \in before(ty) : w <= u
                           IN  es[u].offset + es[u].nr
<1> SUFFICES ASSUME NEW ty \in used
             PROVE  /\ es[ty].offset = Off(ty)
                    /\ es[ty].offset + es[ty].nr < OUTPUT_PSI_PACKET_MAX_NUM
  BY DEF output_psi_data_validate
<1>1. ty \in PsiTypes /\ es[ty] # NoEntry /\ es[ty].offset = Before(es, ty)
  BY DEF Chained
<1>2. PsiTypes = {0, 1, 2, 3, 4}
  BY DEF PsiTypes, PSI_TYPE_PAT, PSI_TYPE_NIT
<1>3. /\ es[0].nr \in Nat /\ es[1].nr \in Nat /\ es[2].nr \in Nat
      /\ es[3].nr \in Nat /\ es[4].nr \in Nat
  BY NrTypes
<1>4. es[ty].offset + es[ty].nr < OUTPUT_PSI_PACKET_MAX_NUM
  <2>1. ty < 5 /\ 5 \in 0..5
    BY <1>1, <1>2
  <2>2. /\ Before(es, ty) \in Nat /\ Before(es, 5) \in Nat
        /\ Before(es, ty) + es[ty].nr <= Before(es, 5)
    BY <2>1, <1>1, BeforeGrows
  <2>3. OUTPUT_PSI_PACKET_MAX_NUM \in Nat /\ es[ty].nr \in Nat
    BY <1>1, EntsType, OutputPsiAssumption
  <2> QED BY <1>1, <2>2, <2>3
<1>5. CASE before(ty) = {}
  <2>1. \A u \in PsiTypes : u < ty => es[u].nr = 0
    BY <1>5, NoEntryNr
  <2>2. Before(es, ty) = 0
    BY <2>1, <1>1, <1>2, <1>3 DEF Before
  <2> QED BY <1>1, <1>4, <1>5, <2>2
<1>6. CASE before(ty) # {}
  <2>1. before(ty) \subseteq {0, 1, 2, 3, 4}
    BY <1>2
  <2>2. \E u \in before(ty) : \A w \in before(ty) : w <= u
    <3> DEFINE B == before(ty)
    <3>1. B \subseteq {0, 1, 2, 3, 4} /\ B # {}
      BY <2>1, <1>6
    <3> HIDE DEF B, before
    <3> QED BY <3>1 DEF B
  <2> DEFINE u == CHOOSE u \in before(ty) : \A w \in before(ty) : w <= u
  <2>3. u \in before(ty) /\ \A w \in before(ty) : w <= u
    BY <2>2
  <2>4. Off(ty) = es[u].offset + es[u].nr
    BY <1>6
  <2> HIDE DEF u
  <2>5. u \in PsiTypes /\ u < ty /\ es[u].offset = Before(es, u)
    BY <2>3 DEF Chained
  <2>6. \A w \in PsiTypes : w < ty /\ ~(w <= u) => es[w].nr = 0
    BY <2>3, NoEntryNr
  <2>7. Before(es, ty) = Before(es, u) + es[u].nr
    BY <2>5, <2>6, <1>1, <1>2, <1>3 DEF Before
  <2> QED BY <1>1, <1>4, <2>4, <2>5, <2>7
<1> QED BY <1>5, <1>6

\* The check bounds every table by the area.
LEMMA ValidFits ==
  ASSUME NEW es \in Ents, output_psi_data_validate(es), NEW ty \in PsiTypes
  PROVE  es[ty].offset + es[ty].nr < OUTPUT_PSI_PACKET_MAX_NUM
<1>1. CASE es[ty] = NoEntry
  BY <1>1, NoEntryNr, OutputPsiAssumption
<1>2. CASE es[ty] # NoEntry
  BY <1>2 DEF output_psi_data_validate
<1> QED BY <1>1, <1>2

\* What is written depends on the packets the entries name, and on no others.
LEMMA SameInfo ==
  ASSUME NEW es \in Ents, NEW ps, NEW qs,
         \A ty \in PsiTypes : \A i \in 1..es[ty].nr : PacketOf(ps, es[ty], i) = PacketOf(qs, es[ty], i)
  PROVE  WriteInfo(es, ps) = WriteInfo(es, qs)
<1>1. ASSUME NEW ty \in PsiTypes, NEW i \in 1..es[ty].nr
      PROVE  /\ InRun(ps, es[ty], i) <=> InRun(qs, es[ty], i)
             /\ Starts(ps, es[ty], i) <=> Starts(qs, es[ty], i)
  <2> DEFINE P(x) == PacketOf(ps, es[ty], x)
             Q(x) == PacketOf(qs, es[ty], x)
  <2>1. es[ty].nr \in Nat /\ \A x \in 1..es[ty].nr : P(x) = Q(x)
    BY EntsType
  <2>2. InRun(ps, es[ty], i) <=> \/ i > 1 /\ P(i - 1).pid = P(i).pid
                                 \/ i < es[ty].nr /\ P(i + 1).pid = P(i).pid
    BY DEF InRun
  <2>3. InRun(qs, es[ty], i) <=> \/ i > 1 /\ Q(i - 1).pid = Q(i).pid
                                 \/ i < es[ty].nr /\ Q(i + 1).pid = Q(i).pid
    BY DEF InRun
  <2>4. /\ Starts(ps, es[ty], i) <=> InRun(ps, es[ty], i) /\ (i = 1 \/ P(i - 1).pid # P(i).pid)
        /\ Starts(qs, es[ty], i) <=> InRun(qs, es[ty], i) /\ (i = 1 \/ Q(i - 1).pid # Q(i).pid)
    BY DEF Starts
  <2> HIDE DEF P, Q
  <2>5. /\ P(i) = Q(i) /\ (i > 1 => P(i - 1) = Q(i - 1)) /\ (i < es[ty].nr => P(i + 1) = Q(i + 1))
        /\ (i = 1 \/ i > 1)
    BY <2>1
  <2> QED BY <2>2, <2>3, <2>4, <2>5
<1>2. ASSUME NEW ty \in PsiTypes, NEW n \in 0..es[ty].nr
      PROVE  RunStarts(ps, es[ty], n) = RunStarts(qs, es[ty], n)
  <2>1. es[ty].nr \in Nat
    BY EntsType
  <2>2. \A i \in 1..n : Starts(ps, es[ty], i) <=> Starts(qs, es[ty], i)
    BY <1>1, <2>1
  <2>3. {i \in 1..n : Starts(ps, es[ty], i)} = {i \in 1..n : Starts(qs, es[ty], i)}
    BY <2>2
  <2> QED BY <2>3 DEF RunStarts, Starts
<1>3. ASSUME NEW ty \in PsiTypes PROVE TableInfo(es, ps, ty) = TableInfo(es, qs, ty)
  <2>1. \A u \in PsiTypes : Runs(es, ps, u) = Runs(es, qs, u)
    <3>1. \A u \in PsiTypes : es[u].nr \in 0..es[u].nr
      BY EntsType
    <3> QED BY <3>1, <1>2 DEF Runs
  <2>2. MulOff(es, ps, ty) = MulOff(es, qs, ty)
    BY <2>1 DEF MulOff, PsiTypes, PSI_TYPE_PAT, PSI_TYPE_PMT, PSI_TYPE_NIT
  <2>3. ASSUME NEW i \in 1..es[ty].nr
        PROVE  HowtoOf(es, ps, ty, i) = HowtoOf(es, qs, ty, i)
    <3>1. i \in 0..es[ty].nr
      BY EntsType
    <3> QED BY <3>1, <2>2, <1>1, <1>2 DEF HowtoOf
  <2> QED BY <2>3 DEF TableInfo
<1>4. \A ty \in {0, 1, 2, 3, 4} : TableInfo(es, ps, ty) = TableInfo(es, qs, ty)
  <2>1. PsiTypes = {0, 1, 2, 3, 4}
    BY DEF PsiTypes, PSI_TYPE_PAT, PSI_TYPE_NIT
  <2> QED BY <1>3, <2>1
<1> QED BY <1>4 DEF WriteInfo, PSI_TYPE_PAT, PSI_TYPE_PMT, PSI_TYPE_CAT, PSI_TYPE_SDT, PSI_TYPE_NIT

\* The area keeps the packets a checked container names.
LEMMA AreaKeeps ==
  ASSUME NEW es \in Ents, NEW ps \in Seq(Packet), output_psi_data_validate(es)
  PROVE  WriteInfo(es, AreaOf(ps)) = WriteInfo(es, ps)
<1> DEFINE qs == AreaOf(ps)
<1>1. OUTPUT_PSI_PACKET_MAX_NUM \in Nat
  BY OutputPsiAssumption
<1>2. \A k \in 1..OUTPUT_PSI_PACKET_MAX_NUM : qs[k] = ps[k]
  BY <1>1 DEF AreaOf
<1> HIDE DEF qs
<1>3. ASSUME NEW ty \in PsiTypes, NEW i \in 1..es[ty].nr
      PROVE  PacketOf(qs, es[ty], i) = PacketOf(ps, es[ty], i)
  <2>1. es[ty].offset \in Nat /\ es[ty].nr \in Nat
    BY EntsType
  <2>2. es[ty].offset + es[ty].nr < OUTPUT_PSI_PACKET_MAX_NUM
    BY ValidFits
  <2>3. es[ty].offset + i \in 1..OUTPUT_PSI_PACKET_MAX_NUM
    BY <1>1, <2>1, <2>2
  <2> QED BY <2>3, <1>2 DEF PacketOf
<1> QED BY <1>3, SameInfo DEF qs

LEMMA AreaType ==
  ASSUME NEW ps \in Seq(Packet), Begun(ps)
  PROVE  /\ AreaOf(ps) \in Seq(Packet) /\ Begun(AreaOf(ps))
         /\ Len(AreaOf(ps)) <= OUTPUT_PSI_PACKET_MAX_NUM
         /\ Len(AreaOf(ps)) < OUTPUT_PSI_PACKET_MAX_NUM => AreaOf(ps) = ps
         /\ \A i \in 1..Len(AreaOf(ps)) : AreaOf(ps)[i] = ps[i]
         /\ Len(AreaOf(ps)) <= Len(ps)
<1>1. OUTPUT_PSI_PACKET_MAX_NUM \in Nat
  BY OutputPsiAssumption
<1>2. CASE Len(ps) <= OUTPUT_PSI_PACKET_MAX_NUM
  BY <1>1, <1>2 DEF AreaOf
<1>3. CASE ~(Len(ps) <= OUTPUT_PSI_PACKET_MAX_NUM)
  <2> DEFINE qs == SubSeq(ps, 1, OUTPUT_PSI_PACKET_MAX_NUM)
  <2>1. AreaOf(ps) = qs /\ OUTPUT_PSI_PACKET_MAX_NUM \in 0..Len(ps)
    BY <1>1, <1>3 DEF AreaOf
  <2>2. Begun(qs) /\ qs \in Seq(Packet) /\ Len(qs) = OUTPUT_PSI_PACKET_MAX_NUM
    BY <2>1, BegunPrefix
  <2>3. \A i \in 1..OUTPUT_PSI_PACKET_MAX_NUM : qs[i] = ps[i]
    BY <2>1
  <2> HIDE DEF qs
  <2> QED BY <1>1, <1>3, <2>1, <2>2, <2>3
<1> QED BY <1>2, <1>3

-----------------------------------------------------------------------------
(* Filling a table *)

LEMMA Threads == /\ "agent" \in Thread /\ "fp" \in Thread /\ Thread = {"agent", "fp"}
                 /\ Other("agent") = "fp" /\ Other("fp") = "agent"
<1>1. \A u \in Thread : u # "agent" <=> u = "fp"
  BY DEF Thread
<1>2. \A u \in Thread : u # "fp" <=> u = "agent"
  BY DEF Thread
<1> QED BY <1>1, <1>2 DEF Other, Thread

\* The entry of a table after N packets more, the first of them behind L packets: it
\* counts in bytes, and so never more packets than there are.
Entry == [offset : 0..255, nr : 0..255]
Filled(e, L, N) == [offset |-> IF e.nr = 0 THEN L % 256 ELSE e.offset,
                    nr |-> (e.nr + N) % 256]
LEMMA EntryFits ==
  ASSUME NEW L \in Nat, NEW N \in Nat, NEW e \in Entry, e.offset + e.nr <= L
  PROVE  /\ Filled(e, L, N) \in Entry
         /\ Filled(e, L, N).offset + Filled(e, L, N).nr <= L + N
         /\ e.offset + e.nr <= L + N
         /\ e.nr = 0 /\ L + N <= 255 => Filled(e, L, N).offset = L /\ Filled(e, L, N).nr = N
<1> DEFINE a == e.offset
           b == e.nr
           m == (b + N) % 256
<1>1. a \in 0..255 /\ b \in 0..255 /\ a + b <= L
  BY DEF Entry
<1>2. Filled(e, L, N).offset = (IF b = 0 THEN L % 256 ELSE a) /\ Filled(e, L, N).nr = m
  BY DEF Filled
<1> HIDE DEF a, b
<1>3. \A x \in Nat : x % 256 \in 0..255 /\ x % 256 <= x /\ (x <= 255 => x % 256 = x)
  OBVIOUS
<1>4. m \in 0..255 /\ m <= b + N /\ (b + N <= 255 => m = b + N)
  BY <1>1, <1>3
<1> HIDE DEF m
<1> DEFINE o == Filled(e, L, N).offset
<1>5. o = (IF b = 0 THEN L % 256 ELSE a)
  BY <1>2
<1> HIDE DEF o
<1>6. o \in 0..255 /\ o + m <= L + N /\ a + b <= L + N /\ (b = 0 /\ L + N <= 255 => o = L /\ m = N)
  BY <1>1, <1>3, <1>4, <1>5
<1>7. Filled(e, L, N) \in Entry
  <2>1. Filled(e, L, N) = [offset |-> o, nr |-> m]
    BY DEF Filled, o, m, b
  <2> QED BY <2>1, <1>4, <1>6 DEF Entry
<1> QED BY <1>2, <1>6, <1>7 DEF o, a, b

\* The container when a table of secs is filled at its end: packets are added, the entry
\* counts them, and while no other thread writes and the count fits a byte the tables
\* follow each other.
LEMMA FillTable ==
  ASSUME NEW ty \in PsiTypes, NEW secs \in Seq(Section),
         ents \in Ents, pkts \in Seq(Packet), Begun(pkts), pkt_offset = Len(pkts),
         \A u \in PsiTypes : ents[u].offset + ents[u].nr <= Len(pkts),
         fill_output_psi_data(ty, secs)
  PROVE  /\ ents' \in Ents /\ pkts' \in Seq(Packet) /\ Begun(pkts')
         /\ pkt_offset' \in Nat /\ pkt_offset' = Len(pkts')
         /\ \A u \in PsiTypes : ents'[u].offset + ents'[u].nr <= Len(pkts')
         /\ \A u \in PsiTypes : u # ty => ents'[u] = ents[u]
         /\ ents[ty] = NoEntry /\ pkt_offset' <= 255 /\ Counted(ents, pkts) =>
              /\ Counted(ents', pkts')
              /\ ents'[ty] = ents[ty] \/ ents'[ty].offset = pkt_offset
              /\ pkt_offset' = pkt_offset + ents'[ty].nr
<1>1. PICK ts \in {TablePackets(secs)} :
        /\ ents' = IF secs = <<>> THEN ents
                   ELSE [ents EXCEPT ![ty] =
                           [offset |-> IF @.nr = 0 THEN pkt_offset % 256 ELSE @.offset,
                            nr |-> (@.nr + Len(ts)) % 256]]
        /\ pkts' = SubSeq(pkts, 1, pkt_offset) \o ts
        /\ pkt_offset' = pkt_offset + Len(ts)
  BY DEF fill_output_psi_data
<1>2. ts \in Seq(Packet) /\ Begun(ts) /\ CountedFrom0(ts)
  BY TableIsCounted
<1>3. secs = <<>> => ts = <<>>
  BY PacketsStep DEF TablePackets
<1> DEFINE L == Len(pkts)
           N == Len(ts)
           nt == ents[ty]
           nw == Filled(nt, L, N)
<1>4. L \in Nat /\ N \in Nat
  BY <1>2
<1>5. nt \in Entry /\ nt.offset \in Nat /\ nt.nr \in Nat /\ nt.offset + nt.nr <= L
  <2>1. nt \in Entry
    BY DEF Ents, Entry
  <2>2. nt.offset \in Nat /\ nt.nr \in Nat
    BY EntsType
  <2> QED BY <2>1, <2>2
<1>6. SubSeq(pkts, 1, pkt_offset) = pkts
  OBVIOUS
<1>7. pkts' = pkts \o ts /\ pkt_offset' = L + N
  BY <1>1, <1>6
<1>8. /\ pkts' \in Seq(Packet) /\ Begun(pkts') /\ Len(pkts') = L + N
      /\ \A i \in 1..L : pkts'[i] = pkts[i]
      /\ \A i \in 1..N : pkts'[L + i] = ts[i]
  BY <1>2, <1>7, BegunConcat, ConcatIndex
<1>9. ents' = IF secs = <<>> THEN ents ELSE [ents EXCEPT ![ty] = nw]
  BY <1>1 DEF Filled
<1>10. /\ nw \in Entry /\ nw.offset + nw.nr <= L + N /\ nt.offset + nt.nr <= L + N
       /\ nt.nr = 0 /\ L + N <= 255 => nw.offset = L /\ nw.nr = N
  <2> HIDE DEF nt, L, N
  <2> QED BY <1>4, <1>5, EntryFits
<1> HIDE DEF nw
<1>11. ents' \in Ents
  BY <1>9, <1>10 DEF Ents, Entry
<1>12. \A u \in PsiTypes : u # ty => ents'[u] = ents[u]
  BY <1>9 DEF Ents
<1>13. ents'[ty] = IF secs = <<>> THEN nt ELSE nw
  BY <1>9 DEF Ents
<1>14. \A u \in PsiTypes : ents'[u].offset + ents'[u].nr <= L + N
  <2>1. ents'[ty].offset + ents'[ty].nr <= L + N
    <3>1. CASE secs = <<>>
      BY <3>1, <1>10, <1>13
    <3>2. CASE secs # <<>>
      BY <3>2, <1>10, <1>13
    <3> QED BY <3>1, <3>2
  <2> SUFFICES ASSUME NEW u \in PsiTypes, u # ty PROVE ents'[u].offset + ents'[u].nr <= L + N
    BY <2>1
  <2>2. ents[u].offset \in Nat /\ ents[u].nr \in Nat /\ ents[u].offset + ents[u].nr <= L
    BY EntsType
  <2> HIDE DEF L, N
  <2> QED BY <2>2, <1>4, <1>12
<1>15. ASSUME nt = NoEntry, pkt_offset' <= 255, Counted(ents, pkts)
       PROVE  /\ Counted(ents', pkts')
              /\ ents'[ty] = ents[ty] \/ ents'[ty].offset = pkt_offset
              /\ pkt_offset' = pkt_offset + ents'[ty].nr
  <2>1. nt.nr = 0 /\ nt.offset = 0
    BY <1>15, NoEntryNr
  <2>2. L + N <= 255
    BY <1>7, <1>15
  <2>3. nw.offset = L /\ nw.nr = N
    BY <2>1, <2>2, <1>10
  <2>4. ents'[ty].nr = N /\ (ents'[ty] = nt \/ ents'[ty].offset = L)
    <3>1. CASE secs = <<>>
      BY <3>1, <1>3, <1>13, <2>1
    <3>2. CASE secs # <<>>
      BY <3>2, <1>13, <2>3
    <3> QED BY <3>1, <3>2
  <2>5. ASSUME NEW u \in PsiTypes, NEW i \in 1..ents'[u].nr, ents'[u].offset + i <= Len(pkts')
        PROVE  PacketOf(pkts', ents'[u], i).cc = (i - 1) % 16
    <3>1. CASE u = ty
      <4>1. i \in 1..N
        BY <2>4, <2>5, <3>1
      <4>2. ents'[ty].offset = L
        BY <4>1, <1>3, <1>13, <2>3
      <4>3. PacketOf(pkts', ents'[ty], i) = ts[i]
        BY <4>1, <4>2, <1>8 DEF PacketOf
      <4> QED BY <4>1, <4>3, <3>1, <1>2 DEF CountedFrom0
    <3>2. CASE u # ty
      <4>1. ents'[u] = ents[u]
        BY <3>2, <1>12
      <4>2. ents[u].offset \in Nat /\ ents[u].nr \in Nat /\ ents[u].offset + ents[u].nr <= L
        BY EntsType
      <4>3. i \in 1..ents[u].nr
        BY <2>5, <4>1
      <4>4. ents[u].offset + i \in 1..L
        BY <4>2, <4>3, <1>4
      <4>5. PacketOf(pkts', ents'[u], i) = PacketOf(pkts, ents[u], i)
        BY <4>1, <4>4, <1>8 DEF PacketOf
      <4>6. PacketOf(pkts, ents[u], i).cc = (i - 1) % 16
        BY <4>3, <4>4, <1>15 DEF Counted
      <4> QED BY <4>5, <4>6
    <3> QED BY <3>1, <3>2
  <2> QED BY <2>4, <2>5, <1>7 DEF Counted
<1> QED BY <1>4, <1>7, <1>8, <1>11, <1>12, <1>14, <1>15

\* Filling the next table keeps the tables in a row.
LEMMA FillKeepsOrder ==
  ASSUME NEW ty \in PsiTypes, NEW next \in 0..5, next > ty,
         ents \in Ents, ents' \in Ents, Chained(ents), pkt_offset = Before(ents, 5),
         \A u \in PsiTypes : u >= ty => ents[u] = NoEntry,
         \A u \in PsiTypes : u # ty => ents'[u] = ents[u],
         ents'[ty] = ents[ty] \/ ents'[ty].offset = pkt_offset,
         pkt_offset' = pkt_offset + ents'[ty].nr
  PROVE  /\ Chained(ents') /\ pkt_offset' = Before(ents', 5)
         /\ \A u \in PsiTypes : u >= next => ents'[u] = NoEntry
<1>1. PsiTypes = {0, 1, 2, 3, 4}
  BY DEF PsiTypes, PSI_TYPE_PAT, PSI_TYPE_NIT
<1>2. \A u \in PsiTypes : u >= ty => ents[u].nr = 0
  BY NoEntryNr
<1>3. /\ ents[0].nr \in Nat /\ ents[1].nr \in Nat /\ ents[2].nr \in Nat
      /\ ents[3].nr \in Nat /\ ents[4].nr \in Nat /\ ents'[ty].nr \in Nat
  BY NrTypes, EntsType
<1>4. \A u \in PsiTypes : u # ty => ents'[u].nr = ents[u].nr
  OBVIOUS
<1>5. Before(ents, 5) = Before(ents, ty)
  BY <1>1, <1>2, <1>3 DEF Before
<1>6. \A u \in PsiTypes : u <= ty => Before(ents', u) = Before(ents, u)
  BY <1>1, <1>3, <1>4 DEF Before
<1>7. Before(ents', 5) = Before(ents, 5) + ents'[ty].nr
  <2>1. /\ Before(ents, 5) = ents[0].nr + ents[1].nr + ents[2].nr + ents[3].nr + ents[4].nr
        /\ Before(ents', 5) = ents'[0].nr + ents'[1].nr + ents'[2].nr + ents'[3].nr + ents'[4].nr
    BY DEF Before
  <2>2. ents[ty].nr = 0
    BY <1>1, <1>2
  <2> HIDE DEF Before
  <2>3. CASE ty = 0
    BY <2>1, <2>2, <2>3, <1>1, <1>3, <1>4
  <2>4. CASE ty = 1
    BY <2>1, <2>2, <2>4, <1>1, <1>3, <1>4
  <2>5. CASE ty = 2
    BY <2>1, <2>2, <2>5, <1>1, <1>3, <1>4
  <2>6. CASE ty = 3
    BY <2>1, <2>2, <2>6, <1>1, <1>3, <1>4
  <2>7. CASE ty = 4
    BY <2>1, <2>2, <2>7, <1>1, <1>3, <1>4
  <2> QED BY <2>3, <2>4, <2>5, <2>6, <2>7, <1>1
<1>8. ASSUME NEW u \in PsiTypes, ents'[u] # NoEntry PROVE ents'[u].offset = Before(ents', u)
  <2>1. CASE u = ty
    <3>1. ents'[ty].offset = pkt_offset
      BY <1>1, <1>8, <2>1
    <3>2. Before(ents', ty) = Before(ents, ty)
      BY <1>1, <1>6
    <3> QED BY <2>1, <3>1, <3>2, <1>5
  <2>2. CASE u # ty
    <3>1. ents'[u] = ents[u] /\ ents[u] # NoEntry
      BY <1>8, <2>2
    <3>2. ~(u >= ty)
      BY <3>1
    <3>3. u <= ty
      BY <3>2, <1>1
    <3>4. ents[u].offset = Before(ents, u)
      BY <3>1 DEF Chained
    <3> QED BY <3>1, <3>3, <3>4, <1>6
  <2> QED BY <2>1, <2>2
<1>9. \A u \in PsiTypes : u >= next => ents'[u] = NoEntry
  BY <1>1
<1> QED BY <1>7, <1>8, <1>9 DEF Chained

-----------------------------------------------------------------------------
(* The invariant: what concerns the container and its copies, and what concerns the *)
(* panel's table of programs                                                        *)

CoreOK ==
  /\ ents \in Ents
  /\ pkts \in Seq(Packet) /\ pkt_offset \in 0..Len(pkts)
  /\ \A ty \in PsiTypes : ents[ty].offset + ents[ty].nr <= Len(pkts)
  /\ request_save \in BOOLEAN
  /\ saved.ents \in Ents
  /\ saved.pkts \in Seq(Packet)
  /\ fpga \in Seq(Nat \X Packet)
  /\ heap \in 0..HeapBufs
  /\ pc \in [Thread -> {"idle", "gen", "apply"}]
  /\ garbled \in BOOLEAN /\ lost \in BOOLEAN
  /\ applies \in 0..MaxApplies
PanelOK ==
  /\ sel \in Seq(Program) /\ prog_num_table \in Seq(Nat)
  /\ announced \in [PsiTypes -> SUBSET (Nat \X Nat)]
  /\ cleared \in BOOLEAN
Core == CoreOK /\ JobInv /\ FillInv /\ OrderInv /\ LoadInv
Panel == PanelOK /\ NumberInv

LEMMA Parts == IInv <=> Core /\ Panel
<1>1. JobInv => \A t \in Thread : job[t].next \in 0..(PSI_TYPE_NIT + 1)
  BY DEF JobInv, PSI_TYPE_NIT
<1>2. ASSUME JobInv PROVE TypeOK <=> CoreOK /\ PanelOK
  BY <1>1, <1>2 DEF TypeOK, CoreOK, PanelOK, Ents
<1> QED BY <1>2 DEF IInv, Core, Panel

LEMMA PartsNext == IInv' <=> Core' /\ Panel'
<1>1. JobInv' => \A t \in Thread : job'[t].next \in 0..(PSI_TYPE_NIT + 1)
  BY DEF JobInv, PSI_TYPE_NIT
<1>2. ASSUME JobInv' PROVE TypeOK' <=> CoreOK' /\ PanelOK'
  BY <1>1, <1>2 DEF TypeOK, CoreOK, PanelOK, Ents
<1> QED BY <1>2 DEF IInv, Core, Panel

LEMMA NoEntsFacts ==
  /\ NoEnts \in Ents /\ Chained(NoEnts) /\ Before(NoEnts, 5) = 0
  /\ \A ty \in PsiTypes : NoEnts[ty] = NoEntry /\ NoEnts[ty].offset = 0 /\ NoEnts[ty].nr = 0
  /\ \A ps \in Seq(Packet) : Counted(NoEnts, ps) /\ WriteInfo(NoEnts, ps) = <<>>
<1>1. NoEnts \in Ents
  BY DEF NoEnts, Ents, NoEntry
<1>2. \A ty \in PsiTypes : NoEnts[ty] = NoEntry /\ NoEnts[ty].offset = 0 /\ NoEnts[ty].nr = 0
  BY DEF NoEnts, NoEntry
<1>3. Before(NoEnts, 5) = 0
  <2>1. PsiTypes = {0, 1, 2, 3, 4}
    BY DEF PsiTypes, PSI_TYPE_PAT, PSI_TYPE_NIT
  <2> QED BY <2>1, <1>2 DEF Before
<1>4. ASSUME NEW ps \in Seq(Packet) PROVE Counted(NoEnts, ps) /\ WriteInfo(NoEnts, ps) = <<>>
  <2>1. \A ty \in PsiTypes : NoEnts[ty].offset + NoEnts[ty].nr <= Len(ps)
    BY <1>2
  <2>2. WriteInfo(NoEnts, ps) \in Seq(Nat \X Packet) /\ Len(WriteInfo(NoEnts, ps)) = 0
    BY <1>1, <1>3, <2>1, InfoIndex
  <2>3. WriteInfo(NoEnts, ps) = <<>>
    <3> DEFINE w == WriteInfo(NoEnts, ps)
               T == Nat \X Packet
    <3>1. w \in Seq(T) /\ Len(w) = 0
      BY <2>2
    <3> HIDE DEF w, T
    <3>2. w = <<>>
      BY <3>1
    <3> QED BY <3>2 DEF w
  <2> QED BY <1>2, <2>3 DEF Counted
<1> QED BY <1>1, <1>2, <1>3, <1>4 DEF Chained

LEMMA EmptyBegun == <<>> \in Seq(Packet) /\ Len(<<>>) = 0 /\ Begun(<<>>) /\ AreaOf(<<>>) = <<>>
BY OutputPsiAssumption DEF Begun, AreaOf

LEMMA EmptyWhat == <<>> \in What
BY DEF What

LEMMA InitCore == Init => Core
<1> SUFFICES ASSUME Init PROVE Core
  OBVIOUS
<1>1. CoreOK
  <2>1. /\ ents = NoEnts /\ pkts = <<>> /\ pkt_offset = 0
        /\ saved.ents = NoEnts /\ saved.pkts = <<>>
        /\ fpga = <<>> /\ heap = 0 /\ applies = 0
        /\ pc = [t \in Thread |-> "idle"]
    BY DEF Init
  <2>2. request_save \in BOOLEAN /\ garbled \in BOOLEAN /\ lost \in BOOLEAN
    BY DEF Init
  <2>3. heap \in 0..HeapBufs /\ applies \in 0..MaxApplies
    BY <2>1, OutputPsiAssumption
  <2>4. fpga \in Seq(Nat \X Packet)
    BY <2>1
  <2>5. /\ pkt_offset \in 0..Len(pkts) /\ pkts \in Seq(Packet)
        /\ \A ty \in PsiTypes : ents[ty].offset + ents[ty].nr <= Len(pkts)
    BY <2>1, NoEntsFacts, EmptyBegun
  <2>6. pc \in [Thread -> {"idle", "gen", "apply"}]
    BY <2>1
  <2> QED BY <2>1, <2>2, <2>3, <2>4, <2>5, <2>6, NoEntsFacts, EmptyBegun DEF CoreOK
<1>2. JobInv
  BY EmptyWhat, Threads DEF Init, JobInv
<1>3. FillInv
  BY NoEntsFacts, EmptyBegun, OutputPsiAssumption, Threads DEF Init, FillInv
<1>4. OrderInv
  BY NoEntsFacts, EmptyBegun, Threads DEF Init, OrderInv
<1>5. LoadInv
  BY NoEntsFacts, EmptyBegun DEF Init, LoadInv
<1> QED BY <1>1, <1>2, <1>3, <1>4, <1>5 DEF Core

LEMMA InitPanel == Init => Panel
<1> SUFFICES ASSUME Init PROVE Panel
  OBVIOUS
<1>1. PanelOK
  <2>1. sel = <<>> /\ prog_num_table = <<>> /\ cleared = FALSE
        /\ announced = [ty \in PsiTypes |-> {}]
    BY DEF Init
  <2>2. announced \in [PsiTypes -> SUBSET (Nat \X Nat)]
    BY <2>1
  <2>3. sel \in Seq(Program) /\ prog_num_table \in Seq(Nat)
    BY <2>1
  <2> QED BY <2>1, <2>2, <2>3 DEF PanelOK
<1>2. Walk(<<>>) = <<>>
  BY OutputPsiAssumption DEF Walk
<1>3. NumberInv
  BY <1>2 DEF Init, NumberInv
<1> QED BY <1>1, <1>3 DEF Panel

-----------------------------------------------------------------------------
(* The steps that write the container *)

LEMMA BeginStep ==
  ASSUME Core, NEW t \in Thread, NEW what \in What, Begin(t, what),
         t = "agent" => what \in Requests, t = "fp" => what \in {<<len>> : len \in FpLens}
  PROVE  Core'
<1> USE DEF Core
<1>1. /\ ents' = NoEnts /\ pkts' = <<>> /\ pkt_offset' = 0
      /\ pc' = [pc EXCEPT ![t] = "gen"]
      /\ job' = [job EXCEPT ![t] = [next |-> 0, what |-> what]]
      /\ garbled' = (pc[Other(t)] # "idle")
      /\ UNCHANGED <<request_save, saved, fpga, heap, lost>>
      /\ applies < MaxApplies /\ applies' = applies + 1
  BY DEF Begin, begin_fill_output_psi_data
<1>2. /\ pc' \in [Thread -> {"idle", "gen", "apply"}] /\ pc'[t] = "gen"
      /\ \A u \in Thread : u # t => pc'[u] = pc[u]
  BY <1>1 DEF CoreOK
<1>3. /\ job' \in [Thread -> [next : 0..5, what : What]]
      /\ job'[t] = [next |-> 0, what |-> what]
      /\ \A u \in Thread : u # t => job'[u] = job[u]
  BY <1>1 DEF JobInv
<1>4. CoreOK'
  <2>1. applies' \in 0..MaxApplies
    BY <1>1, OutputPsiAssumption DEF CoreOK
  <2>2. garbled' \in BOOLEAN
    BY <1>1
  <2> QED BY <1>1, <1>2, <2>1, <2>2, NoEntsFacts, EmptyBegun DEF CoreOK
<1>5. JobInv'
  <2>1. CASE t = "agent"
    BY <2>1, <1>2, <1>3, Threads DEF JobInv
  <2>2. CASE t = "fp"
    BY <2>2, <1>2, <1>3, Threads DEF JobInv, PSI_TYPE_CAT
  <2> QED BY <2>1, <2>2, Threads
<1>6. FillInv'
  BY <1>1, EmptyBegun DEF FillInv
<1>7. OrderInv'
  <2>1. ~saved'.garbled => Chained(saved'.ents) /\ Counted(saved'.ents, saved'.pkts)
    BY <1>1 DEF OrderInv
  <2>2. ASSUME ~garbled'
        PROVE  /\ Chained(ents') /\ Counted(ents', pkts')
               /\ \A u, v \in Thread : pc'[u] # "idle" /\ pc'[v] # "idle" => u = v
               /\ \A u \in Thread : pc'[u] = "gen" =>
                    /\ pkt_offset' = Before(ents', 5)
                    /\ \A ty \in PsiTypes : ty >= job'[u].next => ents'[ty] = NoEntry
    <3>1. pc[Other(t)] = "idle"
      BY <1>1, <2>2
    <3>2. \A u \in Thread : u # t => pc'[u] = "idle"
      BY <3>1, <1>2, Threads
    <3> QED BY <3>2, <1>1, NoEntsFacts, EmptyBegun
  <2> QED BY <2>1, <2>2 DEF OrderInv
<1>8. LoadInv'
  BY <1>2 DEF LoadInv, Idle
<1> QED BY <1>4, <1>5, <1>6, <1>7, <1>8

LEMMA GenerateStep ==
  ASSUME Core, NEW t \in Thread, NEW secs \in Seq(Section), Generate(t, secs)
  PROVE  Core'
<1> USE DEF Core
<1> DEFINE ty == job[t].next
<1>1. /\ pc[t] = "gen" /\ ty \in PsiTypes
      /\ fill_output_psi_data(ty, secs)
      /\ job' = [job EXCEPT ![t].next = IF t = "fp" /\ @ = PSI_TYPE_PMT THEN PSI_TYPE_SDT ELSE @ + 1]
      /\ garbled' = (garbled \/ pkt_offset' > 255)
      /\ UNCHANGED <<request_save, saved, fpga, heap, pc, lost, applies>>
  BY DEF Generate
<1>2. ty \in 0..4
  BY <1>1 DEF PsiTypes, PSI_TYPE_PAT, PSI_TYPE_NIT
<1>3. /\ job' \in [Thread -> [next : 0..5, what : What]]
      /\ job'[t].what = job[t].what /\ job'[t].next > ty /\ job'[t].next \in 0..5
      /\ t = "fp" /\ ty # PSI_TYPE_CAT => job'[t].next # PSI_TYPE_CAT
      /\ \A u \in Thread : u # t => job'[u] = job[u]
  <2> DEFINE n == IF t = "fp" /\ ty = PSI_TYPE_PMT THEN PSI_TYPE_SDT ELSE ty + 1
  <2>1. n \in 0..5 /\ n > ty /\ (t = "fp" /\ ty # PSI_TYPE_CAT => n # PSI_TYPE_CAT)
    BY <1>2 DEF PSI_TYPE_PMT, PSI_TYPE_SDT, PSI_TYPE_CAT
  <2>2. job' = [job EXCEPT ![t].next = n]
    BY <1>1
  <2> HIDE DEF n
  <2> QED BY <2>1, <2>2 DEF JobInv
<1> HIDE DEF ty
<1>4. /\ ents \in Ents /\ pkts \in Seq(Packet) /\ Begun(pkts) /\ pkt_offset = Len(pkts)
      /\ \A u \in PsiTypes : ents[u].offset + ents[u].nr <= Len(pkts)
  BY <1>1 DEF CoreOK, FillInv
<1>5. /\ ents' \in Ents /\ pkts' \in Seq(Packet) /\ Begun(pkts')
      /\ pkt_offset' \in Nat /\ pkt_offset' = Len(pkts')
      /\ \A u \in PsiTypes : ents'[u].offset + ents'[u].nr <= Len(pkts')
      /\ \A u \in PsiTypes : u # ty => ents'[u] = ents[u]
      /\ ents[ty] = NoEntry /\ pkt_offset' <= 255 /\ Counted(ents, pkts) =>
           /\ Counted(ents', pkts')
           /\ ents'[ty] = ents[ty] \/ ents'[ty].offset = pkt_offset
           /\ pkt_offset' = pkt_offset + ents'[ty].nr
  BY <1>1, <1>4, FillTable
<1>6. CoreOK'
  BY <1>1, <1>5 DEF CoreOK
<1>7. JobInv'
  <2>1. CASE t = "agent"
    BY <2>1, <1>1, <1>3, Threads DEF JobInv
  <2>2. CASE t = "fp"
    <3>1. ty # PSI_TYPE_CAT
      BY <2>2, <1>1 DEF JobInv, ty
    <3> QED BY <2>2, <3>1, <1>1, <1>3, Threads DEF JobInv
  <2> QED BY <2>1, <2>2, Threads
<1>8. FillInv'
  BY <1>1, <1>5 DEF FillInv
<1>9. OrderInv'
  <2>1. ~saved'.garbled => Chained(saved'.ents) /\ Counted(saved'.ents, saved'.pkts)
    BY <1>1 DEF OrderInv
  <2>2. ASSUME ~garbled'
        PROVE  /\ Chained(ents') /\ Counted(ents', pkts')
               /\ \A u, v \in Thread : pc'[u] # "idle" /\ pc'[v] # "idle" => u = v
               /\ \A u \in Thread : pc'[u] = "gen" =>
                    /\ pkt_offset' = Before(ents', 5)
                    /\ \A x \in PsiTypes : x >= job'[u].next => ents'[x] = NoEntry
    <3>1. ~garbled /\ pkt_offset' <= 255
      <4>1. ~(pkt_offset' > 255) /\ ~garbled
        BY <1>1, <2>2, Zenon
      <4> QED BY <4>1, <1>5
    <3>2. /\ Chained(ents) /\ Counted(ents, pkts)
          /\ \A u, v \in Thread : pc[u] # "idle" /\ pc[v] # "idle" => u = v
          /\ pkt_offset = Before(ents, 5)
          /\ \A x \in PsiTypes : x >= ty => ents[x] = NoEntry
      BY <3>1, <1>1 DEF OrderInv, ty
    <3>3. ents[ty] = NoEntry
      BY <1>1, <1>2, <3>2
    <3>4. /\ Counted(ents', pkts')
          /\ ents'[ty] = ents[ty] \/ ents'[ty].offset = pkt_offset
          /\ pkt_offset' = pkt_offset + ents'[ty].nr
      BY <1>5, <3>1, <3>2, <3>3
    <3>5. /\ Chained(ents') /\ pkt_offset' = Before(ents', 5)
          /\ \A x \in PsiTypes : x >= job'[t].next => ents'[x] = NoEntry
      BY <1>1, <1>3, <1>4, <1>5, <3>2, <3>4, FillKeepsOrder
    <3>6. \A u \in Thread : pc'[u] = "gen" => u = t
      BY <1>1, <3>2
    <3> QED BY <1>1, <3>2, <3>4, <3>5, <3>6
  <2> QED BY <2>1, <2>2 DEF OrderInv
<1>10. LoadInv'
  BY <1>1 DEF LoadInv, Idle
<1> QED BY <1>6, <1>7, <1>8, <1>9, <1>10

-----------------------------------------------------------------------------
(* The other steps *)

LEMMA RequestSaveStep ==
  ASSUME Core, NEW t \in Thread, RequestSave(t)
  PROVE  Core'
<1> USE DEF Core
<1>1. /\ pc[t] = "gen" /\ request_save' = TRUE
      /\ pc' = [pc EXCEPT ![t] = "apply"]
      /\ job' = [job EXCEPT ![t] = [next |-> 0, what |-> <<>>]]
      /\ UNCHANGED <<ents, pkts, pkt_offset, saved, fpga, heap, garbled, lost, applies>>
  BY DEF RequestSave, container
<1>2. /\ pc' \in [Thread -> {"idle", "gen", "apply"}] /\ pc'[t] = "apply"
      /\ \A u \in Thread : u # t => pc'[u] = pc[u]
  BY <1>1 DEF CoreOK
<1>3. /\ job' \in [Thread -> [next : 0..5, what : What]]
      /\ \A u \in Thread : u # t => job'[u] = job[u]
  <2>1. [next |-> 0, what |-> <<>>] \in [next : 0..5, what : What]
    BY EmptyWhat
  <2> QED BY <1>1, <2>1 DEF JobInv
<1>4. \A u \in Thread : pc'[u] = "gen" => u # t /\ pc[u] = "gen" /\ job'[u] = job[u]
  BY <1>2, <1>3
<1>5. CoreOK'
  BY <1>1, <1>2 DEF CoreOK
<1>6. JobInv'
  BY <1>3, <1>4, Threads DEF JobInv
<1>7. FillInv'
  BY <1>1, <1>4 DEF FillInv
<1>8. OrderInv'
  <2>1. \A u \in Thread : pc'[u] # "idle" => pc[u] # "idle"
    BY <1>1, <1>2
  <2> QED BY <1>1, <1>4, <2>1 DEF OrderInv
<1>9. LoadInv'
  BY <1>1, <1>2 DEF LoadInv, Idle
<1> QED BY <1>5, <1>6, <1>7, <1>8, <1>9

\* What a thread that has finished leaves: the container, its job and the copies.
LEMMA EndStep ==
  ASSUME Core, NEW t \in Thread, pc[t] = "apply", pc' = [pc EXCEPT ![t] = "idle"],
         UNCHANGED <<ents, pkts, pkt_offset, request_save, saved, job, garbled, applies>>
  PROVE  /\ pc' \in [Thread -> {"idle", "gen", "apply"}] /\ pc'[t] = "idle"
         /\ \A u \in Thread : u # t => pc'[u] = pc[u]
         /\ JobInv' /\ FillInv' /\ OrderInv'
         /\ (\A u \in Thread : pc'[u] # "gen") /\ ~request_save' =>
              \/ saved'.ents = ents' /\ saved'.pkts = AreaOf(pkts')
              \/ ~output_psi_data_validate(saved'.ents) /\ ents' = NoEnts
<1> USE DEF Core
<1>1. /\ pc' \in [Thread -> {"idle", "gen", "apply"}] /\ pc'[t] = "idle"
      /\ \A u \in Thread : u # t => pc'[u] = pc[u]
  BY DEF CoreOK
<1>2. /\ \A u \in Thread : pc'[u] = "gen" <=> pc[u] = "gen"
      /\ \A u \in Thread : pc'[u] # "idle" => pc[u] # "idle"
  BY <1>1
<1>3. JobInv'
  BY <1>2, Threads DEF JobInv
<1>4. FillInv'
  BY <1>2 DEF FillInv
<1>5. OrderInv'
  BY <1>2 DEF OrderInv
<1> QED BY <1>1, <1>2, <1>3, <1>4, <1>5 DEF LoadInv

LEMMA GroupsLeft ==
  ASSUME NEW S
  PROVE  /\ Cardinality(Howtos \ S) \in Nat /\ Cardinality(Howtos) \in Nat
         /\ Cardinality(Howtos \ S) <= Cardinality(Howtos)
<1>1. IsFiniteSet(Howtos)
  <2>1. \A n \in Nat : IsFiniteSet(0..n)
    BY FS_Interval
  <2> QED BY <2>1 DEF Howtos, PSISI_40MS, PSISI_MUL_PKT_3
<1>2. Howtos \ S \in SUBSET Howtos
  OBVIOUS
<1> QED BY <1>1, <1>2, FS_Subset, FS_CardinalityType

LEMMA ApplyStep ==
  ASSUME Core, NEW t \in Thread, Apply(t)
  PROVE  Core'
<1> USE DEF Core
<1>1. /\ pc[t] = "apply" /\ heap + Cardinality(Howtos) <= HeapBufs
      /\ fpga' = WriteInfo(ents, pkts)
      /\ heap' = heap + Cardinality(Howtos \ {hp[1] : hp \in Range(fpga')})
      /\ pc' = [pc EXCEPT ![t] = "idle"] /\ lost' = FALSE
      /\ UNCHANGED <<ents, pkts, pkt_offset, request_save, saved, job, garbled, applies>>
  BY DEF Apply, container
<1>2. /\ pc' \in [Thread -> {"idle", "gen", "apply"}]
      /\ JobInv' /\ FillInv' /\ OrderInv'
      /\ (\A u \in Thread : pc'[u] # "gen") /\ ~request_save' =>
           \/ saved'.ents = ents' /\ saved'.pkts = AreaOf(pkts')
           \/ ~output_psi_data_validate(saved'.ents) /\ ents' = NoEnts
  BY <1>1, EndStep
<1>3. fpga' \in Seq(Nat \X Packet)
  BY <1>1, InfoIndex DEF CoreOK
<1>4. heap' \in 0..HeapBufs
  <2> DEFINE left == Cardinality(Howtos \ {hp[1] : hp \in Range(fpga')})
  <2>1. left \in Nat /\ Cardinality(Howtos) \in Nat /\ left <= Cardinality(Howtos)
    BY GroupsLeft
  <2>2. heap' = heap + left
    BY <1>1
  <2> HIDE DEF left
  <2> QED BY <1>1, <2>1, <2>2, OutputPsiAssumption DEF CoreOK
<1>5. CoreOK'
  BY <1>1, <1>2, <1>3, <1>4 DEF CoreOK
<1>6. LoadInv'
  BY <1>1, <1>2 DEF LoadInv
<1> QED BY <1>2, <1>5, <1>6

LEMMA ApplyNoMemStep ==
  ASSUME Core, NEW t \in Thread, ApplyNoMem(t)
  PROVE  Core'
<1> USE DEF Core
<1>1. /\ pc[t] = "apply" /\ heap' = HeapBufs
      /\ pc' = [pc EXCEPT ![t] = "idle"] /\ lost' = TRUE
      /\ UNCHANGED <<ents, pkts, pkt_offset, request_save, saved, fpga, job, garbled, applies>>
  BY DEF ApplyNoMem, container
<1>2. /\ pc' \in [Thread -> {"idle", "gen", "apply"}]
      /\ JobInv' /\ FillInv' /\ OrderInv'
      /\ (\A u \in Thread : pc'[u] # "gen") /\ ~request_save' =>
           \/ saved'.ents = ents' /\ saved'.pkts = AreaOf(pkts')
           \/ ~output_psi_data_validate(saved'.ents) /\ ents' = NoEnts
  BY <1>1, EndStep
<1>3. CoreOK'
  BY <1>1, <1>2, OutputPsiAssumption DEF CoreOK
<1>4. LoadInv'
  BY <1>1, <1>2 DEF LoadInv
<1> QED BY <1>2, <1>3, <1>4

LEMMA CoreSame ==
  ASSUME Core, UNCHANGED <<ents, pkts, pkt_offset, request_save, saved, fpga, heap, pc, job,
                           garbled, lost, applies>>
  PROVE  Core'
BY DEF Core, CoreOK, JobInv, FillInv, OrderInv, LoadInv, Idle

LEMMA SaveStep ==
  ASSUME Core, Save
  PROVE  Core'
<1> USE DEF Core
<1>1. /\ request_save' = FALSE
      /\ saved' = [ents |-> ents, pkts |-> AreaOf(pkts), garbled |-> garbled]
      /\ UNCHANGED <<ents, pkts, pkt_offset, fpga, heap, pc, job, garbled, lost, applies>>
  BY DEF Save, container
<1>2. pkts \in Seq(Packet) /\ Begun(pkts)
  BY DEF CoreOK, FillInv
<1>3. /\ AreaOf(pkts) \in Seq(Packet) /\ Begun(AreaOf(pkts))
      /\ Len(AreaOf(pkts)) <= OUTPUT_PSI_PACKET_MAX_NUM
      /\ Len(AreaOf(pkts)) < OUTPUT_PSI_PACKET_MAX_NUM => AreaOf(pkts) = pkts
      /\ \A i \in 1..Len(AreaOf(pkts)) : AreaOf(pkts)[i] = pkts[i]
      /\ Len(AreaOf(pkts)) <= Len(pkts)
  BY <1>2, AreaType
<1>4. saved'.ents = ents /\ saved'.pkts = AreaOf(pkts) /\ saved'.garbled = garbled
  BY <1>1
<1>5. CoreOK'
  BY <1>1, <1>3, <1>4 DEF CoreOK
<1>6. JobInv'
  BY <1>1 DEF JobInv
<1>7. FillInv'
  <2>1. saved' \in [ents : Ents, pkts : Seq(Packet), garbled : BOOLEAN]
    BY <1>1, <1>3 DEF CoreOK
  <2>2. Len(saved'.pkts) < OUTPUT_PSI_PACKET_MAX_NUM =>
          \A ty \in PsiTypes : saved'.ents[ty].offset + saved'.ents[ty].nr <= Len(saved'.pkts)
    BY <1>3, <1>4 DEF CoreOK
  <2> QED BY <1>1, <1>3, <1>4, <2>1, <2>2 DEF FillInv
<1>8. OrderInv'
  <2>1. ASSUME ~garbled PROVE Chained(ents) /\ Counted(ents, AreaOf(pkts))
    <3>1. Chained(ents) /\ Counted(ents, pkts)
      BY <2>1 DEF OrderInv
    <3> DEFINE qs == AreaOf(pkts)
    <3>2. /\ \A i \in 1..Len(qs) : qs[i] = pkts[i]
          /\ Len(qs) <= Len(pkts) /\ Len(qs) \in Nat /\ Len(pkts) \in Nat
      BY <1>2, <1>3
    <3> HIDE DEF qs
    <3>3. ASSUME NEW ty \in PsiTypes, NEW i \in 1..ents[ty].nr, ents[ty].offset + i <= Len(qs)
          PROVE  PacketOf(qs, ents[ty], i).cc = (i - 1) % 16
      <4>1. ents[ty].offset \in Nat /\ ents[ty].nr \in Nat
        BY EntsType DEF CoreOK
      <4>2. ents[ty].offset + i \in 1..Len(qs) /\ ents[ty].offset + i <= Len(pkts)
        BY <3>2, <3>3, <4>1
      <4>3. PacketOf(qs, ents[ty], i) = PacketOf(pkts, ents[ty], i)
        BY <3>2, <4>2 DEF PacketOf
      <4> QED BY <3>1, <4>2, <4>3 DEF Counted
    <3>4. Counted(ents, qs)
      BY <3>3 DEF Counted
    <3> QED BY <3>1, <3>4 DEF qs
  <2> QED BY <1>1, <1>4, <2>1 DEF OrderInv
<1>9. LoadInv'
  BY <1>1, <1>4 DEF LoadInv, Idle
<1> QED BY <1>5, <1>6, <1>7, <1>8, <1>9

\* What a start finds in the area.
LEMMA Reloaded ==
  ASSUME Core, Restart
  PROVE  /\ ents' \in Ents /\ pkts' \in Seq(Packet) /\ Begun(pkts')
         /\ \A ty \in PsiTypes : ents'[ty].offset + ents'[ty].nr <= Len(pkts')
         /\ ~saved.garbled => Chained(ents') /\ Counted(ents', pkts')
         /\ \/ saved.ents = ents' /\ saved.pkts = AreaOf(pkts')
            \/ ~output_psi_data_validate(saved.ents) /\ ents' = NoEnts
<1> USE DEF Core
<1>1. /\ saved.ents \in Ents /\ saved.pkts \in Seq(Packet) /\ Begun(saved.pkts)
      /\ Len(saved.pkts) <= OUTPUT_PSI_PACKET_MAX_NUM
      /\ Len(saved.pkts) < OUTPUT_PSI_PACKET_MAX_NUM =>
           \A ty \in PsiTypes : saved.ents[ty].offset + saved.ents[ty].nr <= Len(saved.pkts)
      /\ ~saved.garbled => Chained(saved.ents) /\ Counted(saved.ents, saved.pkts)
  BY DEF CoreOK, FillInv, OrderInv
<1>2. CASE output_psi_data_validate(saved.ents)
  <2>1. ents' = saved.ents /\ pkts' = saved.pkts
    BY <1>2 DEF Restart
  <2>2. \A ty \in PsiTypes : saved.ents[ty].offset + saved.ents[ty].nr <= Len(saved.pkts)
    <3>1. CASE Len(saved.pkts) < OUTPUT_PSI_PACKET_MAX_NUM
      BY <3>1, <1>1
    <3>2. CASE Len(saved.pkts) = OUTPUT_PSI_PACKET_MAX_NUM
      <4> SUFFICES ASSUME NEW ty \in PsiTypes
                   PROVE  saved.ents[ty].offset + saved.ents[ty].nr <= Len(saved.pkts)
        OBVIOUS
      <4>1. saved.ents[ty].offset + saved.ents[ty].nr < OUTPUT_PSI_PACKET_MAX_NUM
        BY <1>1, <1>2, ValidFits
      <4>2. saved.ents[ty].offset \in Nat /\ saved.ents[ty].nr \in Nat
        BY <1>1, EntsType
      <4> QED BY <3>2, <4>1, <4>2, OutputPsiAssumption, SMTT(60)
    <3>3. \/ Len(saved.pkts) < OUTPUT_PSI_PACKET_MAX_NUM
          \/ Len(saved.pkts) = OUTPUT_PSI_PACKET_MAX_NUM
      <4>1. saved.pkts \in Seq(Packet) /\ Len(saved.pkts) <= OUTPUT_PSI_PACKET_MAX_NUM
        BY <1>1, Zenon
      <4>2. Len(saved.pkts) \in Nat
        BY <4>1
      <4>3. OUTPUT_PSI_PACKET_MAX_NUM \in Nat
        BY OutputPsiAssumption
      <4> QED BY <4>1, <4>2, <4>3
    <3> QED BY <3>1, <3>2, <3>3
  <2>3. AreaOf(saved.pkts) = saved.pkts
    BY <1>1 DEF AreaOf
  <2> QED BY <1>1, <2>1, <2>2, <2>3
<1>3. CASE ~output_psi_data_validate(saved.ents)
  <2>1. ents' = NoEnts /\ pkts' = <<>>
    BY <1>3 DEF Restart
  <2>2. Begun(pkts') /\ pkts' \in Seq(Packet) /\ Len(pkts') = 0
    BY <2>1, EmptyBegun
  <2>3. /\ ents' \in Ents /\ Chained(ents') /\ Counted(ents', pkts')
        /\ \A ty \in PsiTypes : ents'[ty].offset = 0 /\ ents'[ty].nr = 0
    BY <2>1, <2>2, NoEntsFacts
  <2>4. \A ty \in PsiTypes : ents'[ty].offset + ents'[ty].nr <= Len(pkts')
    BY <2>2, <2>3
  <2> QED BY <1>3, <2>1, <2>2, <2>3, <2>4
<1> QED BY <1>2, <1>3

LEMMA RestartStep ==
  ASSUME Core, Restart
  PROVE  Core'
<1> USE DEF Core
<1>1. /\ pkt_offset' = 0 /\ fpga' = WriteInfo(ents', pkts')
      /\ heap' = Cardinality(Howtos \ {hp[1] : hp \in Range(fpga')})
      /\ request_save' = FALSE
      /\ pc' = [u \in Thread |-> "idle"]
      /\ job' = [u \in Thread |-> [next |-> 0, what |-> <<>>]]
      /\ garbled' = saved.garbled /\ lost' = FALSE
      /\ UNCHANGED <<saved, applies>>
  BY DEF Restart
<1>2. /\ ents' \in Ents /\ pkts' \in Seq(Packet) /\ Begun(pkts')
      /\ \A ty \in PsiTypes : ents'[ty].offset + ents'[ty].nr <= Len(pkts')
      /\ ~saved.garbled => Chained(ents') /\ Counted(ents', pkts')
      /\ \/ saved.ents = ents' /\ saved.pkts = AreaOf(pkts')
         \/ ~output_psi_data_validate(saved.ents) /\ ents' = NoEnts
  BY Reloaded
<1>3. CoreOK'
  <2>1. fpga' \in Seq(Nat \X Packet)
    BY <1>1, <1>2, InfoIndex
  <2>2. heap' \in 0..HeapBufs
    <3> DEFINE left == Cardinality(Howtos \ {hp[1] : hp \in Range(fpga')})
    <3>1. left \in Nat /\ Cardinality(Howtos) \in Nat /\ left <= Cardinality(Howtos)
      BY GroupsLeft
    <3>2. heap' = left
      BY <1>1
    <3> HIDE DEF left
    <3> QED BY <3>1, <3>2, OutputPsiAssumption
  <2>3. pkt_offset' \in 0..Len(pkts') /\ pc' \in [Thread -> {"idle", "gen", "apply"}]
    BY <1>1, <1>2
  <2>4. garbled' \in BOOLEAN /\ request_save' \in BOOLEAN /\ lost' \in BOOLEAN
    BY <1>1 DEF FillInv
  <2> QED BY <1>1, <1>2, <2>1, <2>2, <2>3, <2>4 DEF CoreOK
<1>4. JobInv'
  BY <1>1, EmptyWhat, Threads DEF JobInv
<1>5. FillInv'
  BY <1>1, <1>2 DEF FillInv
<1>6. OrderInv'
  BY <1>1, <1>2 DEF OrderInv
<1>7. LoadInv'
  BY <1>1, <1>2 DEF LoadInv
<1> QED BY <1>3, <1>4, <1>5, <1>6, <1>7

-----------------------------------------------------------------------------
(* The panel's table *)

LEMMA WalkFacts ==
  ASSUME sel \in Seq(Program)
  PROVE  /\ Len(Walk(sel)) \in Nat /\ Len(Walk(sel)) <= Len(sel)
         /\ \A i \in 1..Len(Walk(sel)) : sel[i].num \in Nat /\ sel[i].pid \in Nat
<1>1. PROGRAM_MAX_NUM \in Nat
  BY OutputPsiAssumption
<1>2. Len(Walk(sel)) \in Nat /\ Len(Walk(sel)) <= Len(sel)
  BY <1>1 DEF Walk
<1>3. ASSUME NEW i \in 1..Len(Walk(sel)) PROVE sel[i].num \in Nat /\ sel[i].pid \in Nat
  <2>1. i \in 1..Len(sel)
    BY <1>2
  <2>2. sel[i] \in Program
    BY <2>1
  <2> QED BY <2>2 DEF Program
<1> QED BY <1>2, <1>3

LEMMA FpSectionsType ==
  ASSUME sel \in Seq(Program), NEW ty \in PsiTypes, ty # PSI_TYPE_CAT, NEW len \in Nat
  PROVE  FpSections(ty, len) \in Seq(Section)
<1>1. \A p \in Nat : [pid |-> p, len |-> len] \in Section
  BY DEF Section
<1>2. ty \in {0, 1, 3, 4}
  BY DEF PsiTypes, PSI_TYPE_PAT, PSI_TYPE_NIT, PSI_TYPE_CAT
<1>3. CASE ty = 1
  <2> DEFINE n == Len(Walk(sel))
             s(i) == [pid |-> sel[i].pid, len |-> len]
  <2>1. n \in Nat /\ \A i \in 1..n : s(i) \in Section
    BY <1>1, WalkFacts
  <2>2. FpSections(ty, len) = [i \in 1..n |-> s(i)]
    BY <1>3 DEF FpSections, PSI_TYPE_PAT, PSI_TYPE_PMT, PSI_TYPE_SDT, PSI_TYPE_NIT
  <2> HIDE DEF n, s
  <2> QED BY <2>1, <2>2
<1>4. CASE ty # 1
  <2>1. PICK p \in Nat : FpSections(ty, len) = <<[pid |-> p, len |-> len]>>
    <3> USE DEF FpSections, PSI_TYPE_PAT, PSI_TYPE_PMT, PSI_TYPE_SDT, PSI_TYPE_NIT,
                PAT_PID, SDT_PID, NIT_PID
    <3>1. CASE ty = 0
      <4>1. FpSections(ty, len) = <<[pid |-> 0, len |-> len]>>
        BY <3>1
      <4> QED BY <4>1
    <3>2. CASE ty = 3
      <4>1. FpSections(ty, len) = <<[pid |-> 17, len |-> len]>>
        BY <3>2
      <4> QED BY <4>1
    <3>3. CASE ty = 4
      <4>1. FpSections(ty, len) = <<[pid |-> 16, len |-> len]>>
        BY <3>3
      <4> QED BY <4>1
    <3> QED BY <1>2, <1>4, <3>1, <3>2, <3>3
  <2> DEFINE s == [pid |-> p, len |-> len]
  <2>2. s \in Section
    BY <1>1
  <2> HIDE DEF s
  <2>3. <<s>> \in Seq(Section)
    BY <2>2
  <2> QED BY <2>1, <2>3 DEF s
<1> QED BY <1>3, <1>4

LEMMA PanelSame ==
  ASSUME Panel, UNCHANGED <<sel, prog_num_table, announced, cleared>>
  PROVE  Panel'
BY DEF Panel, PanelOK, NumberInv, Numbered

LEMMA FpBeginPanel ==
  ASSUME Panel, NEW progs \in Selections,
         sel' = progs, prog_num_table' = build_program_number_table(progs),
         announced' = [ty \in PsiTypes |-> {}], cleared' = FALSE
  PROVE  Panel'
<1>1. progs \in Seq(Program)
  BY OutputPsiAssumption
<1>2. /\ build_program_number_table(progs) \in Seq(Nat)
      /\ Len(build_program_number_table(progs)) = Len(Walk(progs))
      /\ Distinct(build_program_number_table(progs))
  BY <1>1, NumbersBuilt
<1>3. announced' \in [PsiTypes -> SUBSET (Nat \X Nat)] /\ \A ty \in PsiTypes : announced'[ty] = {}
  OBVIOUS
<1>4. PanelOK'
  BY <1>1, <1>2, <1>3 DEF PanelOK
<1>5. NumberInv'
  BY <1>2, <1>3 DEF NumberInv, Distinct
<1> QED BY <1>4, <1>5 DEF Panel

\* The walk over the table stays inside the numbers.
LEMMA NumberedType ==
  ASSUME Panel
  PROVE  Range(Numbered) \subseteq Nat \X Nat
<1> DEFINE n == Len(Walk(sel))
           p(i) == <<prog_num_table[i], sel[i].pid>>
<1>1. n \in Nat /\ n <= Len(prog_num_table) /\ prog_num_table \in Seq(Nat)
  BY WalkFacts DEF Panel, PanelOK, NumberInv
<1>2. ASSUME NEW i \in 1..n PROVE p(i) \in Nat \X Nat
  <2>1. sel[i].pid \in Nat
    BY <1>2, WalkFacts DEF Panel, PanelOK
  <2>2. i \in 1..Len(prog_num_table)
    <3> HIDE DEF n
    <3> QED BY <1>1, <1>2
  <2>3. prog_num_table[i] \in Nat
    BY <1>1, <2>2
  <2> QED BY <2>1, <2>3
<1>3. Numbered = [i \in 1..n |-> p(i)]
  BY DEF Numbered
<1> HIDE DEF n, p
<1> QED BY <1>2, <1>3 DEF Range

LEMMA FpTablePanel ==
  ASSUME Panel, NEW ty \in PsiTypes,
         announced' = IF ty \in {PSI_TYPE_PAT, PSI_TYPE_PMT, PSI_TYPE_SDT}
                      THEN [announced EXCEPT ![ty] = Range(Numbered)] ELSE announced,
         UNCHANGED <<sel, prog_num_table, cleared>>
  PROVE  Panel'
<1>1. announced' \in [PsiTypes -> SUBSET (Nat \X Nat)]
  <2> DEFINE R == Range(Numbered)
  <2>1. R \in SUBSET (Nat \X Nat) /\ announced \in [PsiTypes -> SUBSET (Nat \X Nat)]
    BY NumberedType DEF Panel, PanelOK
  <2> HIDE DEF R
  <2>2. [announced EXCEPT ![ty] = R] \in [PsiTypes -> SUBSET (Nat \X Nat)]
    BY <2>1
  <2> QED BY <2>1, <2>2 DEF R
<1>2. \A u \in PsiTypes : announced'[u] = announced[u] \/ announced'[u] = Range(Numbered)
  BY DEF Panel, PanelOK
<1>3. PanelOK'
  BY <1>1 DEF Panel, PanelOK
<1>4. NumberInv'
  <2>1. Numbered' = Numbered
    BY DEF Numbered
  <2> QED BY <1>2, <2>1 DEF Panel, NumberInv
<1> QED BY <1>3, <1>4 DEF Panel

LEMMA ClearPanel ==
  ASSUME Panel, ClearProgInfo
  PROVE  Panel'
<1>1. /\ cleared' = TRUE /\ UNCHANGED <<prog_num_table, announced>>
      /\ \E n \in 1..Len(sel) : sel' = SubSeq(sel, n + 1, Len(sel))
  BY DEF ClearProgInfo
<1>2. sel \in Seq(Program)
  BY DEF Panel, PanelOK
<1>3. sel' \in Seq(Program) /\ Len(sel') <= Len(sel)
  BY <1>1, <1>2
<1>4. Len(Walk(sel')) <= Len(Walk(sel)) /\ Len(Walk(sel')) \in Nat /\ Len(Walk(sel)) \in Nat
  <2>1. \A s \in Seq(Program) :
          Len(Walk(s)) = IF Len(s) <= PROGRAM_MAX_NUM THEN Len(s) ELSE PROGRAM_MAX_NUM
    BY OutputPsiAssumption DEF Walk
  <2> QED BY <2>1, <1>2, <1>3, OutputPsiAssumption
<1>5. Len(Walk(sel')) <= Len(prog_num_table) /\ prog_num_table \in Seq(Nat)
  BY <1>4 DEF Panel, PanelOK, NumberInv
<1> QED BY <1>1, <1>3, <1>5 DEF Panel, PanelOK, NumberInv

LEMMA RestartPanel ==
  ASSUME Panel, Restart
  PROVE  Panel'
<1>1. /\ sel' = <<>> /\ prog_num_table' = <<>> /\ cleared' = FALSE
      /\ announced' = [ty \in PsiTypes |-> {}]
  BY DEF Restart
<1>2. Walk(<<>>) = <<>>
  BY OutputPsiAssumption DEF Walk
<1>3. announced' \in [PsiTypes -> SUBSET (Nat \X Nat)] /\ \A ty \in PsiTypes : announced'[ty] = {}
  BY <1>1
<1>4. sel' \in Seq(Program) /\ prog_num_table' \in Seq(Nat)
  BY <1>1
<1>5. PanelOK'
  BY <1>1, <1>3, <1>4 DEF PanelOK
<1>6. NumberInv'
  BY <1>1, <1>2, <1>3 DEF NumberInv
<1> QED BY <1>5, <1>6 DEF Panel

-----------------------------------------------------------------------------
(* Every step *)

LEMMA SnmpTableSections ==
  ASSUME JobInv, pc["agent"] = "gen", job["agent"].next \in PsiTypes
  PROVE  job["agent"].what[job["agent"].next] \in Seq(Section)
<1>1. job["agent"].what \in [PsiTypes -> Seq(Section)]
  BY OutputPsiAssumption DEF JobInv
<1> QED BY <1>1

LEMMA FpTableSections ==
  ASSUME JobInv, Panel, pc["fp"] = "gen", job["fp"].next \in PsiTypes
  PROVE  FpSections(job["fp"].next, job["fp"].what[1]) \in Seq(Section)
<1>1. job["fp"].what \in {<<len>> : len \in FpLens} /\ job["fp"].next # PSI_TYPE_CAT
  BY DEF JobInv
<1>2. PICK len \in FpLens : job["fp"].what = <<len>>
  BY <1>1
<1>3. job["fp"].what[1] = len /\ len \in Nat
  BY <1>2, OutputPsiAssumption
<1>4. sel \in Seq(Program)
  BY DEF Panel, PanelOK
<1> QED BY <1>1, <1>3, <1>4, FpSectionsType

LEMMA StepHolds == IInv /\ [Next]_vars => IInv'
<1> SUFFICES ASSUME Core, Panel, [Next]_vars PROVE Core' /\ Panel'
  BY Parts, PartsNext
<1>0. JobInv
  BY DEF Core
<1>1. CASE SnmpBegin
  <2>1. PICK r \in Requests : Begin("agent", r) /\ UNCHANGED panel
    BY <1>1 DEF SnmpBegin
  <2>2. r \in What /\ "agent" \in Thread /\ "agent" # "fp"
    BY Threads DEF What
  <2>3. Core'
    BY <2>1, <2>2, BeginStep
  <2>4. Panel'
    BY <2>1, PanelSame DEF panel
  <2> QED BY <2>3, <2>4
<1>2. CASE FpBegin
  <2>1. PICK len \in FpLens, progs \in Selections :
          /\ Begin("fp", <<len>>)
          /\ sel' = progs
          /\ prog_num_table' = build_program_number_table(progs)
          /\ announced' = [ty \in PsiTypes |-> {}]
          /\ cleared' = FALSE
    BY <1>2 DEF FpBegin
  <2>2. <<len>> \in What /\ <<len>> \in {<<l>> : l \in FpLens} /\ "fp" \in Thread /\ "agent" # "fp"
    BY Threads DEF What
  <2>3. Core'
    BY <2>1, <2>2, BeginStep
  <2>4. Panel'
    BY <2>1, FpBeginPanel
  <2> QED BY <2>3, <2>4
<1>3. CASE SnmpTable
  <2>1. Generate("agent", job["agent"].what[job["agent"].next]) /\ UNCHANGED panel
    BY <1>3 DEF SnmpTable
  <2>2. job["agent"].what[job["agent"].next] \in Seq(Section) /\ "agent" \in Thread
    BY <1>0, <2>1, SnmpTableSections, Threads DEF Generate
  <2>3. Core'
    BY <2>1, <2>2, GenerateStep
  <2>4. Panel'
    BY <2>1, PanelSame DEF panel
  <2> QED BY <2>3, <2>4
<1>4. CASE FpTable
  <2> DEFINE ty == job["fp"].next
             secs == FpSections(ty, job["fp"].what[1])
  <2>1. /\ ty \in PsiTypes /\ Generate("fp", secs)
        /\ announced' = IF ty \in {PSI_TYPE_PAT, PSI_TYPE_PMT, PSI_TYPE_SDT}
                        THEN [announced EXCEPT ![ty] = Range(Numbered)] ELSE announced
        /\ UNCHANGED <<sel, prog_num_table, cleared>>
    BY <1>4 DEF FpTable
  <2>2. secs \in Seq(Section) /\ "fp" \in Thread
    BY <1>0, <2>1, FpTableSections, Threads DEF Generate
  <2> HIDE DEF ty, secs
  <2>3. Core'
    BY <2>1, <2>2, GenerateStep
  <2>4. Panel'
    BY <2>1, FpTablePanel
  <2> QED BY <2>3, <2>4
<1>5. ASSUME NEW t \in Thread, RequestSave(t) PROVE Core' /\ Panel'
  <2>1. UNCHANGED <<sel, prog_num_table, announced, cleared>>
    BY <1>5 DEF RequestSave, panel
  <2> QED BY <1>5, <2>1, RequestSaveStep, PanelSame
<1>6. ASSUME NEW t \in Thread, Apply(t) PROVE Core' /\ Panel'
  <2>1. UNCHANGED <<sel, prog_num_table, announced, cleared>>
    BY <1>6 DEF Apply, panel
  <2> QED BY <1>6, <2>1, ApplyStep, PanelSame
<1>7. ASSUME NEW t \in Thread, ApplyNoMem(t) PROVE Core' /\ Panel'
  <2>1. UNCHANGED <<sel, prog_num_table, announced, cleared>>
    BY <1>7 DEF ApplyNoMem, panel
  <2> QED BY <1>7, <2>1, ApplyNoMemStep, PanelSame
<1>8. CASE ClearProgInfo
  <2>1. UNCHANGED <<ents, pkts, pkt_offset, request_save, saved, fpga, heap, pc, job,
                    garbled, lost, applies>>
    BY <1>8 DEF ClearProgInfo, container
  <2> QED BY <1>8, <2>1, CoreSame, ClearPanel
<1>9. CASE Save
  <2>1. UNCHANGED <<sel, prog_num_table, announced, cleared>>
    BY <1>9 DEF Save, panel
  <2> QED BY <1>9, <2>1, SaveStep, PanelSame
<1>10. CASE Restart
  BY <1>10, RestartStep, RestartPanel
<1>11. CASE UNCHANGED vars
  <2>1. /\ UNCHANGED <<ents, pkts, pkt_offset, request_save, saved, fpga, heap, pc, job,
                       garbled, lost, applies>>
        /\ UNCHANGED <<sel, prog_num_table, announced, cleared>>
    BY <1>11 DEF vars
  <2> QED BY <2>1, CoreSame, PanelSame
<1> QED BY <1>1, <1>2, <1>3, <1>4, <1>5, <1>6, <1>7, <1>8, <1>9, <1>10, <1>11 DEF Next

\* The packets are named, begun, counted, in order and loaded, the area agrees and the
\* numbers differ, in every state.
THEOREM Inductive == Spec => []IInv
<1>1. Init => IInv
  BY InitCore, InitPanel, Parts
<1>2. IInv /\ [Next]_vars => IInv'
  BY StepHolds
<1> QED BY <1>1, <1>2, PTL DEF Spec

-----------------------------------------------------------------------------
(* What it means for the multiplex *)

LEMMA TotalIsBefore == Total = Before(ents, 5)
BY DEF Total, Before

LEMMA SoundHolds == IInv => ContainerSound
<1> SUFFICES ASSUME IInv PROVE ContainerSound
  OBVIOUS
<1>1. TypeOK
  BY DEF IInv
<1>2. TsBufHolds
  BY DEF IInv, FillInv, Begun, TsBufHolds
<1>3. Reloadable
  <2> SUFFICES ASSUME ~garbled, Total < OUTPUT_PSI_PACKET_MAX_NUM
               PROVE  output_psi_data_validate(ents)
    BY DEF Reloadable
  <2>1. ents \in Ents /\ Chained(ents)
    BY <1>1 DEF IInv, TypeOK, OrderInv, Ents
  <2>2. Before(ents, 5) < OUTPUT_PSI_PACKET_MAX_NUM
    BY TotalIsBefore
  <2> QED BY <2>1, <2>2, ChainedIsValid
<1> QED BY <1>1, <1>2, <1>3 DEF ContainerSound

LEMMA LoadedHolds == IInv => LoadedInGroups
<1> SUFFICES ASSUME IInv PROVE LoadedInGroups
  OBVIOUS
<1>1. /\ ents \in Ents /\ pkts \in Seq(Packet)
      /\ \A ty \in PsiTypes : ents[ty].offset + ents[ty].nr <= Len(pkts)
  BY DEF IInv, TypeOK, Ents
<1>2. Idle /\ ~lost => fpga = WriteInfo(ents, pkts)
  BY DEF IInv, LoadInv
<1>3. ~garbled => Counted(ents, pkts)
  BY DEF IInv, OrderInv
<1>4. AllLoaded
  <2> SUFFICES ASSUME fpga = WriteInfo(ents, pkts)
               PROVE  Len(fpga) = Total /\ \A g \in 1..Len(fpga) : fpga[g][1] \in Howtos
    BY <1>2 DEF AllLoaded
  <2>1. /\ Len(fpga) = Before(ents, 5)
        /\ \A ty \in PsiTypes : \A i \in 1..ents[ty].nr :
             /\ Before(ents, ty) + i \in 1..Before(ents, 5)
             /\ fpga[Before(ents, ty) + i] =
                  <<HowtoOf(ents, pkts, ty, i), PacketOf(pkts, ents[ty], i)>>
    BY <1>1, InfoIndex
  <2>2. ASSUME NEW g \in 1..Len(fpga) PROVE fpga[g][1] \in Howtos
    <3>1. PICK ty \in PsiTypes : \E i \in 1..ents[ty].nr : g = Before(ents, ty) + i
      BY <1>1, <2>1, Located
    <3>2. PICK i \in 1..ents[ty].nr : g = Before(ents, ty) + i
      BY <3>1
    <3>3. fpga[g][1] = HowtoOf(ents, pkts, ty, i)
      BY <2>1, <3>2
    <3> QED BY <1>1, <3>3, HowtoCases
  <2> QED BY <2>1, <2>2, TotalIsBefore
<1>5. ContinuityKept
  <2> SUFFICES ASSUME Counted(ents, pkts), NEW ty \in PsiTypes, NEW i \in 1..(ents[ty].nr - 1)
               PROVE  PacketOf(pkts, ents[ty], i + 1).cc = (PacketOf(pkts, ents[ty], i).cc + 1) % 16
    BY <1>1, <1>3 DEF ContinuityKept, Range, Ents
  <2>1. /\ ents[ty].offset \in Nat /\ ents[ty].nr \in Nat
        /\ ents[ty].offset + ents[ty].nr <= Len(pkts)
    BY <1>1, EntsType
  <2>2. /\ i \in 1..ents[ty].nr /\ i + 1 \in 1..ents[ty].nr
        /\ ents[ty].offset + i <= Len(pkts) /\ ents[ty].offset + (i + 1) <= Len(pkts)
    BY <1>1, <2>1, SMTT(60)
  <2>3. /\ PacketOf(pkts, ents[ty], i).cc = (i - 1) % 16
        /\ PacketOf(pkts, ents[ty], i + 1).cc = (i + 1 - 1) % 16
    BY <2>2 DEF Counted
  <2>4. (i + 1 - 1) % 16 = (((i - 1) % 16) + 1) % 16
    BY <2>1, <2>2
  <2> QED BY <2>3, <2>4
<1>6. GroupOfOnePid
  <2> SUFFICES ASSUME Idle, ~lost, ~garbled, NEW i \in 1..Len(fpga), NEW j \in 1..Len(fpga),
                      fpga[i][1] \in PSISI_MUL_PKT_0 .. PSISI_MUL_PKT_3, Succeeds(j, i)
               PROVE  /\ fpga[j][2].pid = fpga[i][2].pid
                      /\ fpga[j][2].cc = (fpga[i][2].cc + 1) % 16
    BY DEF GroupOfOnePid
  <2>1. fpga = WriteInfo(ents, pkts) /\ Counted(ents, pkts)
    BY <1>2, <1>3
  <2>2. fpga[i][1] >= 3
    BY DEF PSISI_MUL_PKT_0, PSISI_MUL_PKT_3
  <2> QED BY <1>1, <2>1, <2>2, GroupsHold
<1> QED BY <1>4, <1>5, <1>6 DEF LoadedInGroups

LEMMA NumbersHold == IInv => NumbersIdentify
<1> SUFFICES ASSUME IInv, ~cleared,
                    NEW a \in UNION {announced[ty] : ty \in PsiTypes},
                    NEW b \in UNION {announced[ty] : ty \in PsiTypes}, a[1] = b[1]
             PROVE  a[2] = b[2]
  BY DEF NumbersIdentify
<1> DEFINE n == Len(Walk(sel))
           p(i) == <<prog_num_table[i], sel[i].pid>>
<1>1. /\ Len(prog_num_table) = n
      /\ \A i, j \in 1..Len(prog_num_table) : prog_num_table[i] = prog_num_table[j] => i = j
      /\ \A ty \in PsiTypes : announced[ty] \subseteq Range(Numbered)
  BY DEF IInv, NumberInv
<1>2. a \in Range(Numbered) /\ b \in Range(Numbered)
  BY <1>1
<1>3. Numbered = [i \in 1..n |-> p(i)]
  BY DEF Numbered
<1> HIDE DEF n
<1>4. PICK i \in 1..n : a = p(i)
  BY <1>2, <1>3 DEF Range
<1>5. PICK j \in 1..n : b = p(j)
  BY <1>2, <1>3 DEF Range
<1>6. i = j
  BY <1>1, <1>4, <1>5
<1> QED BY <1>4, <1>5, <1>6

LEMMA RestartKeeps ==
  ASSUME IInv, Restart, Idle, ~request_save, ~garbled, ~lost, output_psi_data_validate(ents)
  PROVE  fpga' = fpga
<1>1. /\ ents \in Ents /\ pkts \in Seq(Packet)
      /\ fpga = WriteInfo(ents, pkts) /\ fpga' = WriteInfo(ents', pkts')
  BY DEF IInv, TypeOK, Ents, LoadInv, Restart
<1>2. \/ saved.ents = ents /\ saved.pkts = AreaOf(pkts)
      \/ ~output_psi_data_validate(saved.ents) /\ ents = NoEnts
  BY DEF IInv, LoadInv, Idle
<1>3. CASE saved.ents = ents /\ saved.pkts = AreaOf(pkts)
  <2>1. ents' = ents /\ pkts' = AreaOf(pkts)
    BY <1>3 DEF Restart
  <2> QED BY <1>1, <2>1, AreaKeeps
<1>4. CASE ~output_psi_data_validate(saved.ents) /\ ents = NoEnts
  <2>1. ents' = NoEnts /\ pkts' = <<>>
    BY <1>4 DEF Restart
  <2> QED BY <1>1, <1>4, <2>1, NoEntsFacts, EmptyBegun
<1> QED BY <1>2, <1>3, <1>4

\* The container is sound whatever a manager asks for and the panel selects, for any size of
\* the area: sections fit the buffer, the entries name packets that are there, and the next
\* start accepts it (fill_output_psi_data, output_psi_data_validate).
THEOREM ContainerIsSound == Spec => []ContainerSound
<1>1. IInv => ContainerSound
  BY SoundHolds
<1> QED BY <1>1, Inductive, PTL

\* The FPGA is given every packet with a group it has, tables count on, and a group of a
\* long table is never shared, for any number of sections (psi_apply_from_output_psi).
THEOREM EveryPacketInItsGroup == Spec => []LoadedInGroups
<1>1. IInv => LoadedInGroups
  BY LoadedHolds
<1> QED BY <1>1, Inductive, PTL

\* A program number in PAT, PMT and SDT stands for one program, for any selection and any
\* numbers of the inputs (build_program_number_table).
THEOREM NumberedApart == Spec => []NumbersIdentify
<1>1. IInv => NumbersIdentify
  BY NumbersHold
<1> QED BY <1>1, Inductive, PTL

\* A restart with nothing left to save gives the FPGA what it had (the save of the main
\* loop, and the load, check and apply at the start).
THEOREM OutputSurvivesRestart == Spec => RestartKeepsOutput
<1> DEFINE Kept == Restart /\ Idle /\ ~request_save /\ ~garbled /\ ~lost
                     /\ output_psi_data_validate(ents) => fpga' = fpga
<1>1. IInv => [Kept]_vars
  BY RestartKeeps
<1> QED BY <1>1, Inductive, PTL DEF RestartKeepsOutput
=============================================================================
