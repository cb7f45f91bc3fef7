------------------------------ MODULE MCGroups ------------------------------
\* Three SubDevices: s1 has CoE and two input sync managers side by side that
\* share an FMMU, s2 is configured from its EEPROM and has an empty sync manager,
\* s3 is alone in the second group.
EXTENDS Groups, TLC

CONSTANTS s1, s2, s3, g1, g2

\* The last sync manager of s1 is not enabled by its EEPROM.
Sm(type, pdos, phys) ==
  [type |-> type, pdos |-> pdos, phys |-> phys, enable |-> phys # 21,
   size |-> IF type = "mailbox" THEN 2 ELSE 0]
Pdo(entries, over) == [entries |-> entries, over |-> over]

MCStation ==
  (s1 :> [sms |-> <<Sm("mailbox", <<>>, 0), Sm("out", <<Pdo(<<8, 1>>, 1)>>, 10),
                   Sm("in", <<Pdo(<<1, 3>>, 2)>>, 20), Sm("in", <<Pdo(<<2>>, 1), Pdo(<<1>>, 1)>>, 21)>>,
         fmmus |-> <<"out", "in">>, mailbox |-> TRUE, coe |-> TRUE, dc |-> FALSE,
         assign |-> TRUE, group |-> g1]) @@
  (s2 :> [sms |-> <<Sm("out", <<>>, 10), Sm("in", <<Pdo(<<8>>, 1)>>, 20)>>,
         fmmus |-> <<"out", "in">>, mailbox |-> FALSE, coe |-> FALSE, dc |-> TRUE,
         assign |-> FALSE, group |-> g1]) @@
  (s3 :> [sms |-> <<Sm("in", <<Pdo(<<4>>, 2)>>, 20)>>,
         fmmus |-> <<"in">>, mailbox |-> FALSE, coe |-> FALSE, dc |-> TRUE,
         assign |-> FALSE, group |-> g2])
MCRings == {<<s3, s1, s2>>, <<s2, s3>>}
MCMaxPdi == (g1 :> 5) @@ (g2 :> 2)
MCGroupSize == (g1 :> 2) @@ (g2 :> 1)
MCApplications ==
  {(g1 :> {"into_pre_op_pdi", "into_safe_op", "into_op", "into_pre_op", "request_into_op"}) @@
   (g2 :> {"into_pre_op_pdi"}),
   (g1 :> {"into_pre_op_pdi", "configure_dc_sync", "into_init"}) @@ (g2 :> {})}
MCDcConfs == {[delay |-> 4, period |-> 3, shift |-> 1]}

\* The hypothesis of the theorems on the layout: this instance has it.
ASSUME LayoutAssumption == LayoutPossible
=============================================================================
