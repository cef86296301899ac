------------------------- MODULE MCSubscriptionData -------------------------
(* The subscription data with the authentication documents the database may *)
(* hold before the first test.                                              *)
EXTENDS SubscriptionData

\* No document; one in the core's structure, its sequence number a text that
\* has been counted on, or a number; one in the structure of the test code.
MCEarlier ==
    {NoDocument,
     [sequenceNumber |-> Value("sqn", 1), encPermanentKey |-> "K", encOpcKey |-> "OPC"],
     [sequenceNumber |-> Value("number", 1), encPermanentKey |-> "other", encOpcKey |-> "other"],
     [sequenceNumber |-> Text(1), permanentKey |-> "other", opc |-> "other"]}

=============================================================================
