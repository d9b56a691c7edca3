-------------------------------- MODULE Keys --------------------------------
(***************************************************************************)
(* How a text becomes a key: normalise_email, normalise_phone, event_key.  *)
(*                                                                         *)
(* A text is a sequence of characters, each named by a string.  A state is *)
(* one text somebody is typing into a form, or one event that arrived; the *)
(* keys are functions of the state.  The numbering plans are constants so  *)
(* that an instance can scale the digit counts down.                       *)
(***************************************************************************)
EXTENDS Naturals, Sequences, FiniteSets, SequencesExt

CONSTANTS
  EmailAlphabet, PhoneAlphabet,   \* the characters that get typed
  MaxEmail, MaxPhone,             \* bounds: characters of one text
  Plans,                          \* region -> [cc, len, trunk, mobile]
  E164Min, E164Max,               \* digits after the plus: 8 and 15
  Facts,                          \* events: records of [id, type, location, resource, time]
  Review,                         \* a refusal in place of a key
  None                            \* no region; no event; an absent field

AsciiWhitespace == {" ", "tab"}
Formatting == {" ", "(", ")", "-", "."}
Invisible  == {" ", "tab", "U+3000"}      \* isspace, or not isprintable
Bar        == "|"
Digits     == {"0", "1", "2", "3", "4", "5", "6", "7", "8", "9"}
UpperCase  == {"A", "K"}
Fold(c)    == CASE c = "A" -> "a" [] c = "K" -> "k" [] OTHER -> c

Regions == DOMAIN Plans
NationalLengths(p) == {p.len} \cup (IF p.mobile THEN {p.len + 1} ELSE {})

\* The plans of the package: a full number is within E.164 and has no leading
\* zero; where mobiles have a 9 more it is not as long as they are, and no
\* trunk zero is dropped.
ASSUME PlanAssumption ==
  \A r \in Regions : LET p == Plans[r] IN
    /\ p.cc \in Seq(Digits) /\ p.cc # <<>> /\ p.cc[1] # "0"
    /\ p.len \in Nat \ {0} /\ {p.trunk, p.mobile} \subseteq BOOLEAN
    /\ p.mobile => p.len >= 2
    /\ \A n \in NationalLengths(p) : Len(p.cc) + n \in E164Min..E164Max
    /\ p.mobile => Len(p.cc) > 1 /\ ~p.trunk

\* What is typed and what arrives are texts; a refusal is not.
ASSUME TextAssumption ==
  /\ EmailAlphabet \cup PhoneAlphabet \cup Digits \cup {"a", "k", "+", Bar} \subseteq STRING
  /\ Facts \subseteq [id : Seq(STRING) \cup {None}, type : Seq(STRING),
                     location : Seq(STRING), resource : Seq(STRING) \cup {None},
                     time : Seq(STRING)]
  /\ {Review, None} \cap Seq(STRING) = {}

VARIABLES
  form,     \* "email", "phone", "event", or "none" between two inputs
  text,     \* what was typed into the form
  event     \* the event that arrived
vars == <<form, text, event>>

Init == form = "none" /\ text = <<>> /\ event = None

Open(f) ==
  /\ form = "none"
  /\ form' = f
  /\ UNCHANGED <<text, event>>

Type(c) ==
  /\ \/ form = "email" /\ c \in EmailAlphabet /\ Len(text) < MaxEmail
     \/ form = "phone" /\ c \in PhoneAlphabet /\ Len(text) < MaxPhone
  /\ text' = Append(text, c)
  /\ UNCHANGED <<form, event>>

Arrive(e) ==
  /\ form = "none"
  /\ form' = "event" /\ event' = e
  /\ UNCHANGED text

Submit ==
  /\ form # "none"
  /\ form' = "none" /\ text' = <<>> /\ event' = None

Next ==
  \/ \E f \in {"email", "phone"} : Open(f)
  \/ \E c \in EmailAlphabet \cup PhoneAlphabet : Type(c)
  \/ \E e \in Facts : Arrive(e)
  \/ Submit

Spec == Init /\ [][Next]_vars

-----------------------------------------------------------------------------
Has(s, c) == \E i \in DOMAIN s : s[i] = c

\* str.strip(ASCII_WHITESPACE)
Trimmed(s) ==
  LET kept == {i \in DOMAIN s : s[i] \notin AsciiWhitespace}
  IN  IF kept = {} THEN <<>> ELSE SubSeq(s, Min(kept), Max(kept))

\* Mutant: str.lower, which folds the Kelvin sign as well.
LowerCased(s)  == [i \in DOMAIN s |-> IF s[i] = "U+212A" THEN "k" ELSE Fold(s[i])]
AsciiFolded(s) == [i \in DOMAIN s |-> Fold(s[i])]

IsMailDomain(d) ==
  /\ Has(d, ".")
  /\ d[1] # "." /\ d[Len(d)] # "."

normalise_email(s) ==
  LET t   == Trimmed(s)
      ats == {i \in DOMAIN t : t[i] = "@"}
      at  == CHOOSE i \in ats : TRUE
  IN  IF /\ Cardinality(ats) = 1
         /\ at > 1
         /\ IsMailDomain(SubSeq(t, at + 1, Len(t)))
         /\ \A i \in DOMAIN t : t[i] \notin Invisible
      THEN AsciiFolded(t) ELSE Review

-----------------------------------------------------------------------------
\* What a dialled text comes to: its digits, and whether they start with the
\* international prefix; Review if a character is no part of a number.
Plussed(t) == t # <<>> /\ t[1] = "+"
Body(t) == IF Plussed(t) THEN Tail(t) ELSE t
Nth(S, k) == CHOOSE i \in S : Cardinality(S \cap 1..i) = k   \* from below
Numeral(s) ==
  LET at == {i \in DOMAIN s : s[i] \in Digits}
  IN  [k \in 1..Cardinality(at) |-> s[Nth(at, k)]]
IsDiallable(t) == t # <<>> /\ \A i \in DOMAIN Body(t) : Body(t)[i] \in Digits \cup Formatting
StartsTwoZeros(n) == Len(n) >= 2 /\ n[1] = "0" /\ n[2] = "0"

\* Mutant: the key without its plus, as some stores keep numbers.
BareInternational(n) ==
  IF n # <<>> /\ n[1] # "0" /\ Len(n) \in E164Min..E164Max THEN n ELSE Review

International(n) ==
  IF n # <<>> /\ n[1] # "0" /\ Len(n) \in E164Min..E164Max
  THEN <<"+">> \o n ELSE Review

DropTrunkZero(n, p) ==
  IF p.trunk /\ n # <<>> /\ n[1] = "0" /\ Len(n) = p.len + 1 THEN Tail(n) ELSE n

National(n, p) ==
  LET m == DropTrunkZero(n, p)
  IN  IF p.mobile /\ Len(m) = p.len + 1 /\ m[3] = "9" THEN <<"+">> \o p.cc \o m
      ELSE IF Len(m) = p.len THEN <<"+">> \o p.cc \o m
      ELSE IF Len(m) = p.len + Len(p.cc) /\ IsPrefix(p.cc, m) THEN <<"+">> \o m
      ELSE Review

normalise_phone(s, region) ==
  LET t == Trimmed(s)
      n == Numeral(Body(t))
  IN  IF ~IsDiallable(t) THEN Review
      ELSE IF Plussed(t) THEN International(n)
      ELSE IF StartsTwoZeros(n) THEN International(SubSeq(n, 3, Len(n)))
      ELSE IF region \in Regions THEN National(n, Plans[region]) ELSE Review

-----------------------------------------------------------------------------
OrEmpty(field) == IF field = None THEN <<>> ELSE field

\* Mutant: a key that forgets when the event occurred.
TimelessMaterial(e) == e.type \o <<Bar>> \o e.location \o <<Bar>> \o OrEmpty(e.resource)
Material(e) ==
  e.type \o <<Bar>> \o e.location \o <<Bar>> \o OrEmpty(e.resource) \o <<Bar>> \o e.time

\* The hash is taken to be free of collisions.
event_key(e) ==
  IF OrEmpty(e.id) # <<>> THEN <<"id", e.id>> ELSE <<"derived", Material(e)>>

-----------------------------------------------------------------------------
(* What the keys promise.                                                  *)

\* The deduper searches with a key it has made, the platform normalises that
\* key again, and files the same lead under the key it makes from the raw text
\* (dedupe.py:100-128, fakes/highlevel.py:239-251): the two meet only if a
\* second reading of a key, with any default region, is the key itself.
KeysSurviveASecondReading ==
  /\ form = "email" /\ normalise_email(text) # Review
       => normalise_email(normalise_email(text)) = normalise_email(text)
  /\ form = "phone" => \A home, away \in Regions \cup {None} :
       LET key == normalise_phone(text, home)
       IN  key # Review => normalise_phone(key, away) = key

\* The text s is a way to write the number with the digits k: after the
\* international prefix, or in its own region as a national number, with the
\* trunk zero before it, or with the country code and no prefix.
Writes(s, k, region) ==
  LET t == Trimmed(s)
      n == Numeral(Body(t))
  IN  \/ Plussed(t) /\ n = k
      \/ ~Plussed(t) /\ n = <<"0", "0">> \o k
      \/ /\ ~Plussed(t) /\ ~StartsTwoZeros(n) /\ region \in Regions
         /\ \E cc \in {Plans[region].cc}, length \in NationalLengths(Plans[region]) :
              /\ IsPrefix(cc, k) /\ Len(k) = Len(cc) + length
              /\ LET m == SubSeq(k, Len(cc) + 1, Len(k))
                 IN  \/ n = m /\ (length # Plans[region].len => m[3] = "9")
                     \/ n = k /\ length = Plans[region].len
                     \/ n = <<"0">> \o m /\ length = Plans[region].len /\ Plans[region].trunk

\* The numbers a text may be read as, of those whose digits end as its do.
Readings(s, region) ==
  LET n     == Numeral(Body(Trimmed(s)))
      tails == {SubSeq(n, i, Len(n)) : i \in 1..3}
      coded == IF region \in Regions THEN {Plans[region].cc \o m : m \in tails} ELSE {}
  IN  {k \in tails \cup coded :
         /\ k # <<>> /\ k[1] # "0" /\ Len(k) \in E164Min..E164Max
         /\ IsDiallable(Trimmed(s)) /\ Writes(s, k, region)}

\* An address has one @, something before it, a dot inside what follows, and
\* nothing in it that cannot be seen.
IsAddress(t) ==
  \E at \in DOMAIN t :
    /\ at > 1 /\ \A i \in DOMAIN t : t[i] = "@" <=> i = at
    /\ \E dot \in at + 2 .. Len(t) - 1 : t[dot] = "."
    /\ t[at + 1] # "." /\ t[Len(t)] # "."
    /\ \A i \in DOMAIN t : t[i] \notin Invisible

\* identity.py:3-8, 34-46: no two identifiers that differ are folded onto one
\* key, and the input that does not determine a key is refused.  An email key
\* differs from what was typed only where that is a capital of ASCII; a phone
\* key is the one number the text can be read as; a refused text has none.
KeysAreTheOnlyReading ==
  /\ form = "email" =>
       LET t == Trimmed(text)
           key == normalise_email(text)
       IN  /\ key = Review <=> ~IsAddress(t)
           /\ key # Review => /\ Len(key) = Len(t)
                              /\ \A i \in DOMAIN t :
                                   /\ t[i] # key[i] => t[i] \in UpperCase
                                   /\ key[i] \notin UpperCase
  /\ form = "phone" => \A region \in Regions \cup {None} :
       LET key == normalise_phone(text, region)
       IN  Readings(text, region) = IF key = Review THEN {} ELSE {Tail(key)}

\* webhook.py:77-84: two events share a key only if they are one fact, as long
\* as no bar is in a type, a location or a time; the resource may hold any.
\* (With a bar in a type and one in a location the join is ambiguous.)
EventKeyTellsFactsApart ==
  form = "event" => \A other \in Facts :
    LET bare(e) == ~Has(e.type, Bar) /\ ~Has(e.location, Bar) /\ ~Has(e.time, Bar)
        id(e)   == OrEmpty(e.id)
    IN  event_key(event) = event_key(other) /\ bare(event) /\ bare(other) =>
          /\ id(event) = id(other)
          /\ id(event) = <<>> =>
               /\ event.type = other.type /\ event.location = other.location
               /\ OrEmpty(event.resource) = OrEmpty(other.resource)
               /\ event.time = other.time
=============================================================================
