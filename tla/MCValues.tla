------------------------------ MODULE MCValues ------------------------------
(* Model checking of the parts of the library that are about values rather *)
(* than about trees: in each behaviour one of them runs and the others are *)
(* idle.                                                                   *)
EXTENDS Dates, Points, PropertyValues, GameTexts, NodeProperties, RootProperties, Arguments

TextsOf(alphabet, n) == UNION {[1..k -> alphabet] : k \in 0..n}

MCTextValues == TextsOf({"a", Escape, ValueEnd, Separator, LineEnding}, 4)
MCShortTextValues == TextsOf({"a", Escape, ValueEnd, Separator, LineEnding}, 2)
MCRawValues ==
  TextsOf({"a", Escape, ValueEnd, Separator}, 2) \cup TextsOf({"a", Escape, Separator}, 3)
    \cup {<<LineEnding>>, <<Escape, LineEnding>>}

MCNumbers == {-1001, -7, 0, 999, 1000}
MCReals == {-650, 0, 5, 50, 1235, 12350, 12345, 99900, 99950, 100000}
MCNumberTexts == TextsOf({"+", "-", "0", "1", "x"}, 4)
MCRealTexts == {t \in TextsOf({"-", ".", "0", "1", "x"}, 4) : \A i \in 1..(Len(t) - 3) : t[i] # "."}

MCScores == {-50, 0, 5, 50, 650, 12345, 99900, 100000}
MCRanks == {-1, 0, 5, 30}
MCResultTexts == TextsOf({"B+", "R", "Forfeit", "0", "5", ".", "x", "Draw"}, 4)
MCRankTexts == TextsOf({"1", "0", "k", "kyu", "dan", "p", "?", "*", "x"}, 4) \cup {<<"9", "9", "9", "9", "k">>}
MCRoundTexts == TextsOf({"a", " ", "(", ")", NewLine}, 5)
MCRoundParts == TextsOf({"a", " ", "(", ")", NewLine}, 2)

(* Standard properties with and without traits, and custom ones.           *)
MCNodeParent == ("root" :> "none") @@ ("child" :> "root") @@ ("grandchild" :> "child")
MCNamings == {<<"DD", "DD", "XX">>, <<"DD", "PM", "DD">>, <<"XX", "XX", "YY">>}

(* No game, Go and Chess; sizes of no board, of boards, and of boards that *)
(* are too large for Go.                                                   *)
MCRootValues ==
  {<<n>> : n \in {0, 1, 3, NotANumber}} \cup {<<3, 3>>, <<3, 60>>, <<3, NotANumber>>}

MCMessageIDs == {1, 75, UnknownSgfcMessageID, -8}

Init ==
  \/ DateInit /\ PointIdle /\ ValueIdle /\ TypedIdle /\ locale = "classic" /\ GameTextIdle
       /\ NodePropertiesIdle /\ RootIdle /\ ArgumentsIdle
  \/ DateIdle /\ PointInit /\ ValueIdle /\ TypedIdle /\ locale = "classic" /\ GameTextIdle
       /\ NodePropertiesIdle /\ RootIdle /\ ArgumentsIdle
  \/ DateIdle /\ PointIdle /\ ValueInit /\ TypedIdle /\ locale = "classic" /\ GameTextIdle
       /\ NodePropertiesIdle /\ RootIdle /\ ArgumentsIdle
  \/ DateIdle /\ PointIdle /\ ValueIdle /\ TypedInit /\ GameTextIdle
       /\ NodePropertiesIdle /\ RootIdle /\ ArgumentsIdle
  \/ DateIdle /\ PointIdle /\ ValueIdle /\ TypedIdle /\ GameTextInit
       /\ NodePropertiesIdle /\ RootIdle /\ ArgumentsIdle
  \/ DateIdle /\ PointIdle /\ ValueIdle /\ TypedIdle /\ locale = "classic" /\ GameTextIdle
       /\ NodePropertiesInit /\ RootIdle /\ ArgumentsIdle
  \/ DateIdle /\ PointIdle /\ ValueIdle /\ TypedIdle /\ locale = "classic" /\ GameTextIdle
       /\ NodePropertiesIdle /\ RootInit /\ ArgumentsIdle
  \/ DateIdle /\ PointIdle /\ ValueIdle /\ TypedIdle /\ locale = "classic" /\ GameTextIdle
       /\ NodePropertiesIdle /\ RootIdle /\ ArgumentsInit

conversionVars == <<dateVars, pointVars, valueVars, typedVars, gameTextVars>>
editVars == <<nodePropertyVars, rootVars, argumentVars>>

Next ==
  \/ DateNext /\ UNCHANGED <<pointVars, valueVars, typedVars, gameTextVars, editVars>>
  \/ PointNext /\ UNCHANGED <<dateVars, valueVars, typedVars, gameTextVars, editVars>>
  \/ ValueNext /\ UNCHANGED <<dateVars, pointVars, typedVars, gameTextVars, editVars>>
  \/ TypedNext /\ UNCHANGED <<dateVars, pointVars, valueVars, gameTextVars, editVars>>
  \/ GameTextNext /\ UNCHANGED <<dateVars, pointVars, valueVars, typedVars, editVars>>
  \/ NodePropertiesNext /\ UNCHANGED <<conversionVars, rootVars, argumentVars>>
  \/ RootNext /\ UNCHANGED <<conversionVars, nodePropertyVars, argumentVars>>
  \/ ArgumentsNext /\ UNCHANGED <<conversionVars, nodePropertyVars, rootVars>>

Spec == Init /\ [][Next]_<<conversionVars, editVars>>
=============================================================================
