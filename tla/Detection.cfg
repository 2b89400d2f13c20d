CONSTANTS
  Letters = {"a", "b", "A"}
  HebrewLetters = {"h"}
  Digits = {"1", "2"}
  Zero = "0"
  Blank = " "
  Delim = "|"
  At = "@"
  Mark = "<token>"
  Lower <- MCLower
  DemoRules <- MCDemoRules
  RegexRules <- MCRegexRules
  HebrewRules <- MCHebrewRules
  NerWords <- MCNerWords
  Types <- MCTypes
  Person = "PERSON"
  HePerson = "HE_PERSON"
  Email = "EMAIL"
  Phone = "PHONE"
  Column = "COLUMN"
  Plain = "plain"
  Sure = 3
  Requests <- MCRequests
  BatchRows = 2
  MinLen = 2
  MaxEntries = 1
  MaxLen = 4
SPECIFICATION Spec
INVARIANTS TypeOK AsIfAlone RulesWin EveryClusterKept RestoresSheet 
CHECK_DEADLOCK FALSE
