----------------------------- MODULE MCListing -----------------------------
(* Volumes for Listing.                                                    *)
EXTENDS Listing, FiniteSets

NesParts == { <<".", "n">>, <<".", "N">> }

Named(name, leads) == [name |-> name, leads |-> leads]

Dots(here, above) == << Named(Here, here), Named(Above, above) >>

\* A directory that is called like a ROM and has directories in it; names that
\* do not fit in a row, one of them over more than two; ".nes" in the middle,
\* after another dot, and in capitals.
Deep ==
  [ root |-> << Named(<<"a", ".", "n">>, File), Named(<<"d", ".", "n">>, "games"),
                Named(<<"a", "a">>, File), Named(<<".", ".", "n">>, File) >>,
    games |-> Dots("games", "root") \o
              << Named(<<"a", "a", "d", "a", ".", "n">>, File), Named(<<"d">>, "more"),
                 Named(<<"a", ".", "N">>, File) >>,
    more |-> Dots("more", "games") \o
             << Named(<<"a", ".", "n", ".", "a", "a", "a", "d", "d", "a">>, File),
                Named(<<"n">>, "none"), Named(<<"d", ".", "n", "a">>, File) >>,
    none |-> Dots("none", "more") ]

Flat == [ root |-> << Named(<<"a", "a">>, File), Named(<<"N", ".", "N", "n">>, File) >> ]

Bare == [ root |-> << >> ]

\* The same small volume with all kinds of names.
Small(a, b, c) ==
  [ root |-> << Named(a, File), Named(b, "sub") >>,
    sub |-> Dots("sub", "root") \o << Named(c, File) >> ]

SomeNames ==
  { <<"a">>, <<".", "n">>, <<"a", ".", "a", "n">>, <<"d", "d", ".", "n">>,
    <<"a", "a", "d", "a", ".", "N", "d", "d", "a">> }

Volumes == {Deep, Flat, Bare} \cup {Small(a, b, c) : a, b, c \in SomeNames}

\* There is room: the code does not check it.
ASSUME RoomAssumption ==
  \A volume \in Volumes :
    LET entries == UNION { {<<d, i>> : i \in DOMAIN volume[d]} : d \in DOMAIN volume }
    IN  Cardinality(entries) + 2 <= MAX_FILE_NUMBER
=============================================================================
