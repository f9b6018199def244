--------------------------- MODULE MCSourceSeeding ---------------------------
(* Three tables, one of them loaded in full, and two threads.              *)
EXTENDS SourceSeeding

MCTableConfigs == <<"application_train", "bureau", "bureau_balance">>

\* The second chunk has a row that is older than those of the first.
MCLong == <<{2}, {1, 2}>>
MCShort == <<{1}>>
MCFiles == {MCLong, MCShort}

MCSources ==
    {[application_train |-> MCShort, bureau |-> MCLong,
      bureau_balance |-> NoFile],
     [application_train |-> MCLong, bureau |-> NoFile,
      bureau_balance |-> MCShort]}

=============================================================================
