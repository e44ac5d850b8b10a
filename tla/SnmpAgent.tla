------------------------------ MODULE SnmpAgent ------------------------------
(* The agent's own SNMP library (wu_snmp_lib.c, oids.c) and the objects that  *)
(* xmux_snmp.c registers with it. One object serves every channel, program    *)
(* and section of a table: the tree of oids leads to the shared object, and   *)
(* the library stores the oid asked for in the object, where the getter or    *)
(* setter finds its indices. Requests carry several bindings; the tables of   *)
(* a channel's programs are transferred in several nodes.                     *)
(* A value is a triple of what it is of, a number and its length. Who may set *)
(* is decided in Management; here a request comes from a client that is       *)
(* logged in, is not, or is read-only.                                        *)
EXTENDS Integers, Sequences, FiniteSets, SequencesExt

CONSTANTS
  CHANNEL_MAX_NUM, PROGRAM_MAX_NUM, SDT_SECTION_NUM, EIT_SECTION_NUM,
  NODE_NUM, NODE_MAX_SIZE,  \* the nodes of a channel's pid_trans_info
  NODE_SIZE,    \* nodes of the tree
  SUBID_MAX,    \* the largest sub-id (0xffffffff)
  Tables,       \* pid_trans_info tables a client may transfer -> their length
  Asked,        \* oids that clients ask for
  MaxBinds, MaxRequests

ASSUME AgentAssumption ==
  /\ {CHANNEL_MAX_NUM, PROGRAM_MAX_NUM, SDT_SECTION_NUM, EIT_SECTION_NUM, NODE_NUM, NODE_MAX_SIZE}
       \subseteq Nat \ {0}
  /\ {NODE_SIZE, SUBID_MAX, MaxBinds, MaxRequests} \subseteq Nat
  /\ \A t \in DOMAIN Tables : Tables[t] \in Nat /\ t # "zero"

XMUX_ROOT_OID == <<1, 3, 6, 1, 3, 5188>>
NULL == "null"
Chans == 1..(CHANNEL_MAX_NUM + 1)   \* the last is the output
-----------------------------------------------------------------------------
(* The registered objects (xmux_snmp.c). CAT and NIT are like PAT; the solo    *)
(* objects left out have a getter and a setter of their own.                  *)

ChanOid(c, rest) == XMUX_ROOT_OID \o <<c>> \o rest
Reg(obj, oid) == [obj |-> obj, oid |-> oid]
register_sections(obj, c, tbl, n) == [i \in 1..n |-> Reg(obj, ChanOid(c, <<tbl, i>>))]
register_channel_oids(c) ==
  <<Reg("PAT", ChanOid(c, <<1>>))>> \o register_sections("PMT", c, 2, PROGRAM_MAX_NUM)
  \o register_sections("SDT", c, 5, SDT_SECTION_NUM) \o register_sections("EIT", c, 6, EIT_SECTION_NUM)
register_input_trans_oids ==
  [i \in 1..(CHANNEL_MAX_NUM * NODE_NUM) |-> Reg("PID_TRANS_INFO", XMUX_ROOT_OID \o <<12, i>>)]
LoadOid == XMUX_ROOT_OID \o <<100>>
register_solo_oids ==
  << Reg("PSI_STATUS", XMUX_ROOT_OID \o <<16>>), Reg("APPLY_PSI", XMUX_ROOT_OID \o <<17>>),
     Reg("TUNNER_0_PARAM", XMUX_ROOT_OID \o <<19>>), Reg("LOAD_INFO", LoadOid) >>
xmux_snmp_register_all_oids ==
  FlattenSeq([c \in Chans |-> register_channel_oids(c)])
  \o register_input_trans_oids \o register_solo_oids

HasGetter(obj) == obj # "APPLY_PSI"
HasSetter(obj) == obj # "PSI_STATUS"

\* What the getter or setter of an object finds at an oid. EIT is registered with
\* the functions of SDT, whose sections are fewer: the sections of the channels
\* follow each other in memory.
SdtCell(c, s) ==
  LET n == (c - 1) * SDT_SECTION_NUM + s - 1
  IN  <<"SDT", 1 + n \div SDT_SECTION_NUM, 1 + (n % SDT_SECTION_NUM)>>
TransCell(i) == <<"PID_TRANS_INFO", (i - 1) \div NODE_NUM, (i - 1) % NODE_NUM>>
CellAt(obj, oid) ==
  CASE obj = "PAT" -> <<obj, oid[7], 0>>
    [] obj = "PMT" -> <<obj, oid[7], oid[9]>>
    [] obj \in {"SDT", "EIT"} -> SdtCell(oid[7], oid[9])
    [] obj = "PID_TRANS_INFO" -> TransCell(Last(oid))
    [] OTHER -> <<obj, 0, 0>>

\* What the MIB says is at an oid.
OwnCell(obj, oid) == IF obj = "EIT" THEN <<"EIT", oid[7], oid[9]>> ELSE CellAt(obj, oid)
Registered == Range(xmux_snmp_register_all_oids)
OwnCells == {OwnCell(r.obj, r.oid) : r \in Registered}
Cells == OwnCells \cup {CellAt(r.obj, r.oid) : r \in Registered}
-----------------------------------------------------------------------------
(* Oids on the wire (oids.c). *)

\* The client's encoding: seven bits to a byte, the first two sub-ids in one.
Base128(n) == (IF n >= 16384 THEN <<128 + n \div 16384>> ELSE <<>>)
              \o (IF n >= 128 THEN <<128 + ((n \div 128) % 128)>> ELSE <<>>) \o <<n % 128>>
Encode(oid) == Base128(40 * oid[1] + oid[2])
               \o FlattenSeq([i \in 1..(Len(oid) - 2) |-> Base128(oid[i + 2])])

First(subid) == IF subid >= 80 THEN 2 ELSE IF subid >= 40 THEN 1 ELSE 0

\* No sub-ids at all if one of them is too large.
oid_encoded2subid(bytes) ==
  LET add(s, b) ==
        LET n == s.subid * 128 + (b % 128)
        IN  IF b >= 128 THEN [s EXCEPT !.subid = n]
            ELSE [subid |-> 0, large |-> s.large \/ n > SUBID_MAX,
                  out |-> s.out \o (IF s.out = <<>> THEN <<First(n), n - 40 * First(n)>> ELSE <<n>>)]
      s == FoldLeft(add, [subid |-> 0, large |-> FALSE, out |-> <<>>], bytes)
  IN  IF s.large THEN <<>> ELSE s.out

\* The instance 0 is cut off.
decode_oid(bytes) ==
  LET oid == oid_encoded2subid(bytes)
  IN  IF oid # <<>> /\ Last(oid) = 0 THEN Front(oid) ELSE oid
Decoded == [o \in Asked |-> decode_oid(Encode(o))]
-----------------------------------------------------------------------------
VARIABLES
  regs,        \* objects main has still to register
  tree, node_used,  \* the oids' nodes with their objects, and how many there are
  obj_oid,     \* the oid stored in each object
  mib,         \* what the getters and setters work on
  logged,      \* sg_mib_heartDevice.flag is SUCCESS
  pdu,         \* the request in hand
  binds,       \* client->variable_bindings
  data_buf,    \* vb.data_buf, a local variable of the handler
  resp,        \* client->resp_data
  requests,
  expect,      \* history: what was set last under each oid
  smeared,     \* history: cells a set of an EIT section belongs to or hits
  sent         \* history: the request and the reply just sent

vars == <<regs, tree, node_used, obj_oid, mib, logged, pdu, binds, data_buf, resp, requests,
          expect, smeared, sent>>
registry == <<regs, tree, node_used>>

\* A request has n bindings; bad is the place of the first that cannot be decoded,
\* once it is met, or 0.
NoPdu == [method |-> "none", id |-> 0, n |-> 0, bad |-> 0, readonly |-> FALSE]
NoResp == [id |-> 0, errors |-> <<>>, vars |-> <<>>]
NoSent == [pdu |-> NoPdu, binds |-> <<>>, resp |-> NoResp]
Unset == <<"none", 0, 1>>
Cleared == <<"zero", 0, 0>>
Zeroed == <<"zero", 0, 1>>   \* a struct of zeros
InitialValue(c) == IF c[1] = "PID_TRANS_INFO" THEN Cleared ELSE Unset

Init ==
  /\ regs = xmux_snmp_register_all_oids
  /\ tree = [p \in {<<>>} |-> NULL] /\ node_used = 1
  /\ obj_oid = [o \in {r.obj : r \in Registered} |-> <<>>]
  /\ mib = [c \in Cells |-> InitialValue(c)]
  /\ expect = [c \in OwnCells |-> InitialValue(c)]
  /\ logged = FALSE /\ pdu = NoPdu /\ binds = <<>> /\ data_buf = Unset
  /\ resp = NoResp /\ requests = 0 /\ smeared = {} /\ sent = NoSent
-----------------------------------------------------------------------------
(* The tree *)

Path(oid) == {SubSeq(oid, 1, k) : k \in 1..Len(oid)}
Missing(oid) == Path(oid) \ DOMAIN tree

\* Adds the nodes that are missing, as far as the pool reaches; the last one gets
\* the object. (No oid is registered twice, so there is always one to add.)
wu_agent_register(r) ==
  LET new == {p \in Missing(r.oid) : Cardinality(Missing(r.oid) \cap Path(p)) <= NODE_SIZE - node_used}
  IN  /\ tree' = [p \in DOMAIN tree \cup new |->
                    IF p \in new THEN (IF p = r.oid THEN r.obj ELSE NULL) ELSE tree[p]]
      /\ node_used' = node_used + Cardinality(new)

Register ==
  /\ regs # <<>>
  /\ wu_agent_register(Head(regs))
  /\ obj_oid' = [obj_oid EXCEPT ![Head(regs).obj] = Head(regs).oid]
  /\ regs' = Tail(regs)
  /\ UNCHANGED <<mib, logged, pdu, binds, data_buf, resp, requests, expect, smeared, sent>>

\* Only a node without sons is found.
find_oid_object(oid) ==
  IF oid \in DOMAIN tree \ {<<>>}
     /\ ~\E p \in DOMAIN tree : Len(p) = Len(oid) + 1 /\ Front(p) = oid
  THEN tree[oid] ELSE NULL
-----------------------------------------------------------------------------
(* Requests *)

\* A datagram; the login status may have changed since the last one.
Recv ==
  /\ regs = <<>> /\ pdu = NoPdu /\ requests < MaxRequests
  /\ requests' = requests + 1
  /\ \E method \in {"get", "set", "other"}, n \in 1..MaxBinds, readonly \in BOOLEAN :
       /\ method # "set" => ~readonly
       /\ method = "other" => n = 1
       /\ pdu' = [method |-> method, id |-> requests + 1, n |-> n, bad |-> 0, readonly |-> readonly]
       /\ IF method = "set" THEN logged' \in BOOLEAN ELSE UNCHANGED logged
  /\ binds' = <<>> /\ sent' = NoSent
  /\ UNCHANGED <<registry, obj_oid, mib, data_buf, resp, expect, smeared>>

MoreBinds == pdu.method \in {"get", "set"} /\ pdu.bad = 0 /\ Len(binds) < pdu.n
Popped(oid) == MoreBinds /\ Decoded[oid] # <<>>
Bound(oid, err, val, own) ==
  binds' = Append(binds, [oid |-> oid, err |-> err, val |-> val, own |-> own])

\* "the object's oid should fixed to current one"
FixOid(obj, oid) == obj_oid' = [obj_oid EXCEPT ![obj] = oid]

\* The length of a node that is read comes from the first node of its channel.
TableLen(tag) == IF tag \in DOMAIN Tables THEN Tables[tag] ELSE 2
ReadSizeAlwaysRest(c) == TableLen(mib[<<c[1], c[2], 0>>][1]) % NODE_MAX_SIZE
pid_trans_info_read_size(c) ==
  LET len == TableLen(mib[<<c[1], c[2], 0>>][1])
  IN  IF c[3] < len \div NODE_MAX_SIZE THEN NODE_MAX_SIZE ELSE len % NODE_MAX_SIZE
Read(c) == IF c[1] = "PID_TRANS_INFO"
           THEN <<mib[c][1], mib[c][2], pid_trans_info_read_size(c)>> ELSE mib[c]

\* What the getter may return. The tuner's parameters are the control MCU's, and
\* tunner_param_get returns a struct of zeros for an answer that does not come.
Getter(obj, c) == {Read(c)} \cup (IF obj = "TUNNER_0_PARAM" THEN {Zeroed} ELSE {})

\* What was set under an oid; Cleared for a node of another table than the one begun.
Own(c) == IF c[1] = "PID_TRANS_INFO" /\ expect[c][1] # expect[<<c[1], c[2], 0>>][1]
          THEN Cleared ELSE expect[c]

\* get_request_process_var_bind. No getter fails.
GetVarBind ==
  \E oid \in Asked :
    /\ Popped(oid) /\ pdu.method = "get"
    /\ LET obj == find_oid_object(Decoded[oid]) IN
       IF obj = NULL
       THEN Bound(oid, "noSuchName", Unset, Unset) /\ UNCHANGED <<obj_oid, data_buf>>
       ELSE /\ FixOid(obj, Decoded[oid])
            /\ \E c \in {CellAt(obj, obj_oid'[obj])} :
                 \/ ~HasGetter(obj) /\ Bound(oid, "noAccess", Unset, Unset) /\ UNCHANGED data_buf
                 \/ /\ HasGetter(obj) /\ data_buf' \in Getter(obj, c)
                    /\ Bound(oid, "noError", data_buf', Own(OwnCell(obj, Decoded[oid])))
    /\ UNCHANGED <<registry, mib, logged, pdu, resp, requests, expect, smeared, sent>>

\* What a client may send for an object: a new section, or a node of a table.
Piece(tag, i) ==
  LET rest == Tables[tag] - i * NODE_MAX_SIZE
  IN  <<tag, i, IF rest > NODE_MAX_SIZE THEN NODE_MAX_SIZE ELSE rest>>
Payload(obj, oid) ==
  IF obj = "PID_TRANS_INFO"
  THEN {v \in {Piece(tag, CellAt(obj, oid)[3]) : tag \in DOMAIN Tables} : v[3] > 0}
  ELSE {<<"section", 10 * requests + Len(binds), 1>>}

WriteKeepsNodes(c, v) == [mib EXCEPT ![c] = v]
\* The first node of a table clears the others.
pid_trans_info_write_data_snmp(c, v) ==
  [x \in Cells |-> IF x = c THEN v
                   ELSE IF c[3] = 0 /\ x[1] = c[1] /\ x[2] = c[2] THEN Cleared ELSE mib[x]]

\* The setter. load_info_set keeps what it refuses; apply_psi_set may refuse, and
\* what it keeps is not read here.
Setter(obj, c, v, ok) ==
  /\ mib' = CASE obj = "PID_TRANS_INFO" -> pid_trans_info_write_data_snmp(c, v)
              [] obj = "APPLY_PSI" -> mib
              [] OTHER -> [mib EXCEPT ![c] = v]
  /\ logged' = IF obj = "LOAD_INFO" THEN ok ELSE logged
MayFail(obj) == obj \in {"LOAD_INFO", "APPLY_PSI"}

Expected(obj, own, v) ==
  CASE obj = "PID_TRANS_INFO" -> [x \in OwnCells |->
         IF x = own THEN v
         ELSE IF own[3] = 0 /\ x[1] = own[1] /\ x[2] = own[2] THEN Cleared ELSE expect[x]]
    [] obj = "APPLY_PSI" -> expect
    [] OTHER -> [expect EXCEPT ![own] = v]

\* set_request_process_var_bind, refused before the object is touched.
Refusal(obj) == CASE pdu.readonly -> "readOnly"
                  [] ~pdu.readonly /\ obj = NULL -> "noSuchName"
                  [] ~pdu.readonly /\ obj # NULL /\ ~logged /\ obj_oid[obj] # LoadOid -> "resourceUnavailable"
                  [] OTHER -> "noError"
SetRefused ==
  \E oid \in Asked :
    /\ Popped(oid) /\ pdu.method = "set"
    /\ LET err == Refusal(find_oid_object(Decoded[oid]))
       IN  err # "noError" /\ Bound(oid, err, <<"section", 10 * requests + Len(binds), 1>>, Unset)
    /\ UNCHANGED <<registry, obj_oid, mib, logged, pdu, data_buf, resp, requests, expect, smeared, sent>>

SetVarBind ==
  \E oid \in Asked :
    /\ Popped(oid) /\ pdu.method = "set"
    /\ LET obj == find_oid_object(Decoded[oid])
           own == OwnCell(obj, Decoded[oid])
       IN
       /\ Refusal(obj) = "noError"
       /\ FixOid(obj, Decoded[oid])
       /\ \E v \in Payload(obj, Decoded[oid]), c \in {CellAt(obj, obj_oid'[obj])} :
            \/ /\ ~HasSetter(obj) /\ Bound(oid, "readOnly", v, Unset)
               /\ UNCHANGED <<mib, logged, expect, smeared>>
            \/ /\ HasSetter(obj) /\ Setter(obj, c, v, TRUE)
               /\ Bound(oid, "noError", <<"empty", 0, 0>>, v)
               /\ expect' = Expected(obj, own, v)
               /\ smeared' = IF c = own THEN smeared ELSE smeared \cup {c, own}
            \/ /\ MayFail(obj) /\ Setter(obj, c, v, FALSE)
               /\ Bound(oid, "genErr", v, Unset)
               /\ UNCHANGED <<expect, smeared>>
            \* tunner_param_set returns 0 although the MCU did not take it.
            \/ /\ obj = "TUNNER_0_PARAM" /\ Bound(oid, "noError", <<"empty", 0, 0>>, Unset)
               /\ UNCHANGED <<mib, logged, expect, smeared>>
    /\ UNCHANGED <<registry, pdu, data_buf, resp, requests, sent>>

\* A binding that cannot be decoded ends the list: the rest is not looked at, and
\* nothing of it is kept for the reply.
PopFails ==
  /\ MoreBinds
  /\ pdu' = [pdu EXCEPT !.bad = Len(binds) + 1]
  /\ UNCHANGED <<registry, obj_oid, mib, logged, binds, data_buf, resp, requests, expect, smeared, sent>>

\* A pass over a list that goes on past what is not in S: Picked(S, n)[i] is what it
\* has met in the first i places.
Picked(S, n) ==
  LET met[i \in 0..n] == IF i = 0 THEN <<>> ELSE IF i \in S THEN Append(met[i - 1], i) ELSE met[i - 1]
  IN  met
Failed(bs) == {i \in DOMAIN bs : bs[i].err # "noError"}

build_error_from_0(bs) ==
  LET at == Picked(Failed(bs), Len(bs))[Len(bs)]
  IN  IF at = <<>> THEN <<<<"noError", 0>>>> ELSE [k \in DOMAIN at |-> <<bs[at[k]].err, at[k] - 1>>]
build_error(bs) ==
  LET at == Picked(Failed(bs), Len(bs))[Len(bs)]
  IN  IF at = <<>> THEN <<<<"noError", 0>>>> ELSE [k \in DOMAIN at |-> <<bs[at[k]].err, at[k]>>]

\* The values of a get all point to data_buf, which holds the last one read; each
\* keeps its length. Bindings with an error are left out.
GetResponse ==
  LET at == Picked(DOMAIN binds \ Failed(binds), Len(binds))[Len(binds)]
  IN  [k \in DOMAIN at |-> [oid |-> binds[at[k]].oid,
                           val |-> <<data_buf[1], data_buf[2], binds[at[k]].val[3]>>]]
SetResponse == [i \in DOMAIN binds |-> [oid |-> binds[i].oid, val |-> binds[i].val]]

\* The reply; to any other method it is the last reply once more.
Reply ==
  /\ pdu.method = "other" \/ (pdu.method \in {"get", "set"} /\ ~MoreBinds)
  /\ resp' = CASE pdu.method = "get" -> [id |-> pdu.id, errors |-> build_error(binds), vars |-> GetResponse]
               [] pdu.method = "set" -> [id |-> pdu.id, errors |-> build_error(binds), vars |-> SetResponse]
               [] OTHER -> resp
  /\ sent' = [pdu |-> pdu, binds |-> binds, resp |-> resp']
  /\ pdu' = NoPdu /\ binds' = <<>> /\ data_buf' = Unset
  /\ UNCHANGED <<registry, obj_oid, mib, logged, requests, expect, smeared>>

Next == Register \/ Recv \/ GetVarBind \/ SetRefused \/ SetVarBind \/ PopFails \/ Reply
Spec == Init /\ [][Next]_vars
-----------------------------------------------------------------------------
(* Properties *)

\* Every variable has its type, and the pool of nodes is not exceeded.
TypeOK ==
  /\ node_used = Cardinality(DOMAIN tree) /\ node_used <= NODE_SIZE
  /\ Range(tree) \subseteq DOMAIN obj_oid \cup {NULL}
  /\ DOMAIN mib = Cells /\ DOMAIN expect = OwnCells /\ smeared \subseteq Cells \cup OwnCells
  /\ logged \in BOOLEAN /\ pdu.method \in {"none", "get", "set", "other"}
  /\ Len(binds) <= pdu.n /\ pdu.n <= MaxBinds /\ pdu.bad \in {0, Len(binds) + 1}
  /\ requests \in 0..MaxRequests

\* What the properties below suppose: the channels' numbers stay below the other
\* objects', which start at 11, so that no oid is registered above another or twice;
\* the pool has a node for each part of each; and the client's oids are decoded
\* to what they are, without the instance.
FewChannels == CHANNEL_MAX_NUM <= 9
AllNodes == {<<>>} \cup UNION {Path(r.oid) : r \in Registered}
OidsApart == \A r, s \in Registered : r.oid \in Path(s.oid) => r = s
NodesSuffice == Cardinality(AllNodes) <= NODE_SIZE
DecodesRight ==
  \A o \in Asked, r \in Registered : Decoded[o] = r.oid <=> o \in {r.oid, Append(r.oid, 0)}

Object(oid) == IF \E r \in Registered : oid \in {r.oid, Append(r.oid, 0)}
               THEN (CHOOSE r \in Registered : oid \in {r.oid, Append(r.oid, 0)}).obj ELSE NULL

\* Whenever a request may come in, what it asks for leads to the object registered
\* under this oid and to no other: not to one above or below it, nor to nothing for lack of nodes
\* (wu_agent_register, find_node, oid_encoded2subid).
FoundIsRegistered ==
  regs = <<>> /\ pdu = NoPdu => \A o \in Asked : find_oid_object(Decoded[o]) = Object(o)

\* Although all channels, programs and sections share an object, a set changes
\* what its oid names and nothing else, and a refused one nothing. Left out are
\* the login data, and the sections of SDT and EIT that a set of an EIT section
\* belongs to or hits (set_request_process_var_bind and the setters).
MibIsOwn ==
  \A c \in OwnCells \ (smeared \cup {<<"LOAD_INFO", 0, 0>>}) : mib[c] = expect[c]

Successes == {i \in DOMAIN sent.binds : sent.binds[i].err = "noError"}
Claimed(i) == LET obj == Object(sent.binds[i].oid)
              IN  obj \notin {"EIT", "LOAD_INFO"} /\ OwnCell(obj, Decoded[sent.binds[i].oid]) \notin smeared
Place(S, i) == Cardinality({j \in S : j <= i})

\* The values of a reply to a get: the last one read is the one set last under its
\* oid, the tuner's the one the MCU took last or, if it did not answer, zeros; those
\* read before it have their own lengths, a node the one its table has there, but
\* carry the bytes of the last (get_request_process_var_bind and the getters,
\* pid_trans_info_read_data_snmp). Left out are the login data, and the sections
\* of SDT and EIT that a set of an EIT section belongs to or hits.
GetIsOwn ==
  sent.pdu.method = "get" =>
    \A i \in Successes :
      LET own == sent.binds[i].own
          val == sent.resp.vars[Place(Successes, i)].val
      IN  Claimed(i) /\ own # Cleared =>
            /\ val[3] = own[3]
            /\ Place(Successes, i) = Cardinality(Successes) =>
                 val = own \/ (Object(sent.binds[i].oid) = "TUNNER_0_PARAM" /\ val = Zeroed)

\* The reply to a get or set request is its own: its id, and each binding before the
\* first that cannot be decoded either with its name in the order asked or named
\* by an error index. Of that one and all after it nothing is in the reply, not even
\* an error: without other errors it says noError (the request handlers, build_error).
ReplyMatches ==
  sent.pdu.method \in {"get", "set"} =>
    LET seen == {i \in 1..sent.pdu.n : sent.pdu.bad = 0 \/ i < sent.pdu.bad}
        named == {sent.resp.errors[k][2] : k \in DOMAIN sent.resp.errors}
        listed == IF sent.pdu.method = "set" THEN seen ELSE Successes
    IN  /\ sent.resp.id = sent.pdu.id
        /\ DOMAIN sent.binds = seen
        /\ named \ {0} = seen \ Successes
        /\ sent.resp.errors = <<<<"noError", 0>>>> <=> seen \subseteq Successes
        /\ Len(sent.resp.vars) = Cardinality(listed)
        /\ \A i \in listed : sent.resp.vars[Place(listed, i)].oid = sent.binds[i].oid

\* A request reaches what its oids name and nothing else: the object registered
\* under each, and in the shared object the data of this channel, program, section
\* or node (wu_agent_register, find_oid_object, set_request_process_var_bind).
ReachesOwn == TypeOK /\ FoundIsRegistered /\ MibIsOwn
=============================================================================
