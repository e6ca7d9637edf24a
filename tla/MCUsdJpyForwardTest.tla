------------------------ MODULE MCUsdJpyForwardTest ------------------------
(* Small instances of UsdJpyForwardTest for TLC. *)
EXTENDS UsdJpyForwardTest, TLC

\* the whole series, and late days on their own
SeriesAndDays == {<<1, LastDay>>} \cup {<<d, d>> : d \in {1, 3, LastDay}}

\* requests are alike
AnyRequest == Permutations(Requests)
=============================================================================
