----------------------------- MODULE MCDbServer -----------------------------
(* Instances of DbServer for TLC.                                          *)
EXTENDS DbServer, TLC

\* The empty value, and a value of two bytes.
SomeStrings == {<< >>, <<"b", "c">>}
OneString == {<<"b", "c">>}

\* Clients, workers, keys and buffers are interchangeable (safety runs only).
Interchangeable == Permutations(Clients) \cup Permutations(Workers)
                   \cup Permutations(Key) \cup Permutations(Bufs)
=============================================================================
