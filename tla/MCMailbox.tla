----------------------------- MODULE MCMailbox -----------------------------
EXTENDS Mailbox, TLC

CONSTANTS t1, t2

\* Fragments of the list of objects: two entries, then one.
MCInfoParts == <<2, 1>>

\* The calls of several requests by one task, the others by another.
MCCalls ==
  t1 :> {<<"sdo_write_array", NoObject>>, <<"sdo_read_array", NoObject>>,
         <<"sdo_read", Long>>}
  @@ t2 :> {<<"sdo_write", Single>>, <<"sdo_read", Normal>>,
            <<"sdo_read_expedited", Single>>, <<"sdo_info", NoObject>>}
=============================================================================
