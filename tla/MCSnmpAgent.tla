---------------------------- MODULE MCSnmpAgent ----------------------------
EXTENDS SnmpAgent

Oid(rest) == XMUX_ROOT_OID \o rest
MCTables == [t1 |-> 8, t2 |-> 6]
\* Sections of several channels, an EIT section with a namesake and one that falls
\* on the next channel, the nodes of a table, an inner oid, one that is too long,
\* an instance, and a sub-id that is too large.
MCAsked == { Oid(<<1, 2, 1>>), Oid(<<3, 2, 1, 0>>),
             Oid(<<2, 5, 1>>), Oid(<<1, 6, 2>>), Oid(<<12, 3>>), Oid(<<12, 4>>),
             Oid(<<16>>), Oid(<<17>>), Oid(<<19>>), Oid(<<100>>),
             Oid(<<1, 2>>), Oid(<<1, 1, 1>>), Oid(<<16384>>) }

\* What the theorems about SnmpAgent suppose.
ASSUME RegistryAssumption == FewChannels /\ OidsApart /\ NodesSuffice /\ DecodesRight
=============================================================================
