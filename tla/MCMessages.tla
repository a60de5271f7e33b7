----------------------------- MODULE MCMessages -----------------------------
(* Small instances of Messages.                                            *)
EXTENDS Messages, TLC

CONSTANTS m1, m2, f1, f2

NothingPreset == <<>>
OnePreset == (f1 :> <<m1, m2>>)
TwoPreset == (f1 :> <<m1, m2>>) @@ (f2 :> <<m1>>)
TwoProvided == {<<m1, f1>>, <<m2, f1>>, <<m1, f2>>}
Interchangeable == Permutations(Threads)
=============================================================================
