---------------------------- MODULE MCDetection ----------------------------
EXTENDS Detection
word(w, t) == [word |-> w, type |-> t]
name(w, t, s) == [word |-> w, type |-> t, score |-> s]

MCDemoRules == {word(<<"a", "b">>, "PROJECT"), word(<<"h">>, "STRATEGY")}
MCRegexRules == <<word(<<"b", "1">>, "IL_PHONE"), word(<<"1">>, "PHONE"), word(<<"@">>, "EMAIL")>>
MCHebrewRules == <<word(<<"2">>, "TEUDAT_ZEHUT")>>
MCNerWords ==
  {name(<<"a">>, "PERSON", 1), name(<<"A">>, "PERSON", 1), name(<<"a", " ">>, "LOCATION", 2), name(<<"b", "0">>, "PERSON", 2),
   name(<<"b", "2">>, "LOCATION", 1), name(<<" ", "b">>, "ORGANIZATION", 3), name(<<"a", "|", " ">>, "ORGANIZATION", 3)}

MCTypes ==
  {"PROJECT", "STRATEGY", "IL_PHONE", "PHONE", "EMAIL", "TEUDAT_ZEHUT", "PERSON", "HE_PERSON", "LOCATION",
   "ORGANIZATION", "COLUMN", "plain"}
MCLower == [x \in Chars |-> IF x = "A" THEN "a" ELSE x]

MCValues == {<<"a", "b", "1">>, <<"a", "1">>, <<"h", "b">>, <<"b", "2">>}
MCOdd == {<<"2">>, <<"b", " ", "b">>, <<"b", "h", "b">>, <<"a", "b", "h">>, <<"a", "|", " ">>}
MCSkipped == {<<"A", "1">>, <<"a", "1">>, <<"@", " ">>, <<"<token>", "a">>, <<" ", "b">>}
MCSpelled == {<<"a", "1">>, <<"A", " ", " ", "1">>, <<" ", "A", " ", "1">>}
MCRequests ==
  [kind : {"csv", "xlsx"}, lang : {"auto", "he"}, rows : [1..2 -> [1..2 -> MCValues]],
   columns : {{}}, detect : {TRUE}]
  \union
  [kind : {"csv", "xlsx", "docx"}, lang : {"auto", "en"}, rows : [1..3 -> [1..1 -> MCValues \union MCOdd]],
   columns : {{}}, detect : {TRUE}]
  \union
  [kind : {"csv", "xlsx", "docx"}, lang : {"auto"}, rows : [1..3 -> [1..1 -> MCSkipped]],
   columns : {{}}, detect : {TRUE}]
  \union
  [kind : {"csv", "xlsx"}, lang : {"auto"}, rows : [1..3 -> [1..2 -> MCSpelled]],
   columns : {{2}}, detect : {FALSE}]
  \union
  [kind : {"csv", "xlsx"}, lang : {"auto"}, rows : [1..2 -> [1..2 -> MCSpelled \union MCValues]],
   columns : {{2}}, detect : {TRUE}]
=============================================================================
