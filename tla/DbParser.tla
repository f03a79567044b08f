------------------------------- MODULE DbParser -------------------------------
(***************************************************************************)
(* Loading of the feature database by both route guide programs:           *)
(* GetDbFileContent, ParseDb and its Parser (helper.cc).                   *)
(*                                                                         *)
(* The file is a sequence of characters, of which the keys ("location":    *)
(* and the others, with quotes and colon) and the numbers are taken as     *)
(* one.  A comparison with several keys stands for the comparisons one     *)
(* after the other of the code: the first that fails ends the parsing, so  *)
(* that the place it leaves current_ at is not used any more.              *)
(***************************************************************************)
EXTENDS Integers, Sequences

CONSTANTS
  Files,    \* contents of the file to try
  Value,    \* the numbers that occur in them: a function from numerals to integers
  IntBits,  \* width of int32
  LongBits, \* width of long
  Lists     \* lists of features that files may say

Keys == {"location", "latitude", "longitude", "name"}
Marks == {"[", "{", "}", ",", "quote", "]", "space", "x"}
Numerals == DOMAIN Value
Characters == Keys \cup Marks \cup Numerals

ASSUME ValueAssumption == \A c \in Numerals : Value[c] \in Int /\ c \notin Keys \cup Marks
ASSUME FilesAssumption == Files \subseteq Seq(Characters)
ASSUME ListsAssumption == Lists \subseteq Seq(Int \X Int \X Seq(Characters))
ASSUME BitsAssumption == IntBits \in Nat \ {0} /\ LongBits \in Nat \ {0}

VARIABLES
  file,          \* contents of the file
  argument,      \* of the program: "none", "path" (--db_path=...), "other"
  db_,           \* the text without spaces
  current_,      \* how many characters of it were looked at
  failed_,       \* the parser failed
  feature_list,  \* what was parsed: <<latitude, longitude, name>>
  phase,         \* "start", "parsing", "loaded", "refused", "thrown"
  outside        \* history: a character after the terminating null was read

vars == <<file, argument, db_, current_, failed_, feature_list, phase, outside>>

Init ==
  /\ file \in Files
  /\ argument \in {"none", "path", "other"}
  /\ db_ = << >>
  /\ current_ = 0
  /\ failed_ = FALSE
  /\ feature_list = << >>
  /\ phase = "start"
  /\ outside = FALSE

\* remove_if keeps the other characters in their order.
RemoveSpaces(s) ==
  LET kept[n \in 0 .. Len(s)] ==
        IF n = 0 THEN << >>
        ELSE IF s[n] = "space" THEN kept[n - 1] ELSE Append(kept[n - 1], s[n])
  IN kept[Len(s)]

\* With an argument that it does not know the program opens no file.
GetDbFileContent == IF argument = "other" THEN << >> ELSE file

\* Mutant: as far as it goes on.
MatchAtClipped(at, prefix) ==
  LET n == IF at + Len(prefix) <= Len(db_) THEN Len(prefix) ELSE Len(db_) - at
  IN SubSeq(db_, at + 1, at + n) = SubSeq(prefix, 1, n)

\* Match: the text goes on like this.
MatchAt(at, prefix) ==
  at + Len(prefix) <= Len(db_) /\ SubSeq(db_, at + 1, at + Len(prefix)) = prefix

\* The constructor of Parser, called by ParseDb.
Construct ==
  /\ phase = "start"
  /\ db_' = RemoveSpaces(GetDbFileContent)
  /\ failed_' = (db_' = << >> \/ db_'[1] # "[")
  /\ current_' = 1
  /\ phase' = "parsing"
  /\ UNCHANGED <<file, argument, feature_list, outside>>

Finished == current_ >= Len(db_)

\* The first place from one on with one of some characters, or the end.
ScanTo(at, chars) ==
  LET there == { k \in at .. Len(db_) - 1 : db_[k + 1] \in chars }
  IN IF there = {} THEN Len(db_) ELSE CHOOSE k \in there : \A l \in there : k <= l

Longs == - 2 ^ (LongBits - 1) .. 2 ^ (LongBits - 1) - 1

\* ReadLong: std::stol takes the number that its text begins with, whatever follows,
\* and throws if there is none or it is too large.
IsLong(at) ==
  /\ at < Len(db_)
  /\ db_[at + 1] \in Numerals
  /\ Value[db_[at + 1]] \in Longs

\* set_latitude and set_longitude take an int32.
ToInt(n) == ((n + 2 ^ (IntBits - 1)) % 2 ^ IntBits) - 2 ^ (IntBits - 1)

\* Mutant: the name may end where the text ends.
NameEndsAny(name, quote) == TRUE

\* The name has a quote, and there is more after it.
NameEnds(name, quote) == quote # Len(db_)

\* TryParseOne, and what ParseDb does with the result.  Everything is thrown away
\* when one feature does not parse.
TryParseOne ==
  LET latitude == current_ + 4
      comma == ScanTo(latitude, {",", "}"})
      longitude == comma + 2
      brace == ScanTo(longitude, {",", "}"})
      name == brace + 4
      endQuote == ScanTo(name, {"quote"})
      quote == IF endQuote = Len(db_) THEN endQuote ELSE endQuote + 1
      begins == ~ failed_ /\ MatchAt(current_, <<"{", "location", "{", "latitude">>)
      goesOn == MatchAt(comma, <<",", "longitude">>)
      named == MatchAt(brace, <<"}", ",", "name", "quote">>) /\ NameEnds(name, quote)
      ends == MatchAt(quote, <<"}", ",">>)
      \* The last one: any two characters of which the second is the bracket.
      last == quote + 2 = Len(db_) /\ db_[quote + 2] = "]"
      parses == begins /\ IsLong(latitude) /\ goesOn /\ IsLong(longitude) /\ named
      throws == begins /\ (~ IsLong(latitude) \/ (goesOn /\ ~ IsLong(longitude)))
  IN
    /\ phase = "parsing"
    /\ ~ Finished
    /\ \/ /\ parses /\ (ends \/ last)
          /\ feature_list' = Append(feature_list,
               <<ToInt(Value[db_[latitude + 1]]), ToInt(Value[db_[longitude + 1]]),
                 SubSeq(db_, name + 1, quote - 1)>>)
          /\ UNCHANGED <<failed_, phase>>
       \/ /\ throws
          /\ phase' = "thrown"
          /\ UNCHANGED <<failed_, feature_list>>
       \/ /\ ~ throws /\ ~ (parses /\ (ends \/ last))
          /\ failed_' = TRUE
          /\ feature_list' = << >>
          /\ phase' = "refused"
    \* The test for the last one reads the character before current_.
    /\ outside' = (outside \/ (parses /\ ~ ends /\ quote + 1 > Len(db_)))
    /\ current_' = IF parses THEN quote + 2 ELSE current_
    /\ UNCHANGED <<file, argument, db_>>

Load ==
  /\ phase = "parsing"
  /\ Finished
  /\ phase' = "loaded"
  /\ UNCHANGED <<file, argument, db_, current_, failed_, feature_list, outside>>

Next == Construct \/ TryParseOne \/ Load

Spec == Init /\ [][Next]_vars /\ WF_vars(Next)
-----------------------------------------------------------------------------
(***************************************************************************)
(* "It requires the db file to have the exact form of [{"location":        *)
(* {"latitude": 123, "longitude": 456}, "name": "the name can be empty" }, *)
(* { ... } ...", said without a parser.                                    *)
(***************************************************************************)
\* A number that a long holds, with anything but a comma or brace after it.
IsNumber(s, n) ==
  /\ s # << >>
  /\ s[1] \in Numerals /\ Value[s[1]] \in Longs
  /\ n = ToInt(Value[s[1]])
  /\ \A i \in DOMAIN s : s[i] \notin {",", "}"}

IsFeature(s, f) ==
  \E i, j \in DOMAIN s :
    /\ 5 < i /\ i + 2 < j /\ j + 3 < Len(s)
    /\ s[i] = "," /\ s[j] = "}"
    /\ SubSeq(s, 1, 4) = <<"{", "location", "{", "latitude">>
    /\ IsNumber(SubSeq(s, 5, i - 1), f[1])
    /\ SubSeq(s, i, i + 1) = <<",", "longitude">>
    /\ IsNumber(SubSeq(s, i + 2, j - 1), f[2])
    /\ SubSeq(s, j, Len(s)) = <<"}", ",", "name", "quote">> \o f[3] \o <<"quote">>
    /\ \A k \in DOMAIN f[3] : f[3][k] # "quote"

\* The form, and what is accepted for it: a text of at most one character, which has
\* no features; the last feature may end with a comma, or any character, for the brace.
IsForm(s, list) ==
  IF list = << >> THEN Len(s) <= 1
  ELSE
    /\ s # << >> /\ s[1] = "["
    /\ \E end \in [DOMAIN list -> { p \in 3 .. Len(s) : s[p - 2] = "quote" }] :
         /\ end[Len(list)] = Len(s)
         /\ \A i \in DOMAIN list :
              LET begin == IF i = 1 THEN 2 ELSE end[i - 1] + 1 IN
                /\ IsFeature(SubSeq(s, begin, end[i] - 2), list[i])
                /\ \/ SubSeq(s, end[i] - 1, end[i]) = <<"}", ",">>
                   \/ i = Len(list) /\ s[end[i]] = "]"

\* A list is loaded only from a text that has the form and says just this list,
\* never a part of it, and a text that has the form is loaded.
LoadsTheForm ==
  LET text == RemoveSpaces(GetDbFileContent) IN
    /\ phase = "loaded" => IsForm(text, feature_list)
    /\ phase \in {"refused", "thrown"} => \A list \in Lists : ~ IsForm(text, list)

\* No character after the terminating null is read, wherever the text ends.
InBounds == ~ outside
=============================================================================
