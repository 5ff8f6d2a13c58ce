------------------------------- MODULE Decoder -------------------------------
(***************************************************************************)
(* How the service decoders walk a message: a place that moves over the    *)
(* octets, the fields read so far, and the error that ended the walk.      *)
(*                                                                         *)
(* A decoder is a sequence of steps.  What the C code looks at before it   *)
(* takes an item differs from one decoder to the next, and so do the       *)
(* steps: some compare the class and the number of a tag, some only its    *)
(* number, some nothing; some look whether octets are left first.          *)
(***************************************************************************)
EXTENDS ApplicationData

Begin(o) == [o |-> o, at |-> 1, got |-> <<>>, fail |-> "none"]

Failed(p) == p.fail # "none"
AtEnd(p) == p.at > Len(p.o)
Here(p) == At(p.o, p.at)
Fail(p, error) == [p EXCEPT !.fail = error]
Keep(p, field, v) == [p EXCEPT !.got = (field :> v) @@ @]

(* What the tag at the place is. *)
TagHere(p) == decode_tag_number_and_value(p.o, p.at)
IsContext(p, n) == decode_is_context_tag(p.o, p.at, n)
IsOpeningOf(p, n) == decode_is_opening_tag_number(p.o, p.at, n)
IsClosingOf(p, n) == decode_is_closing_tag_number(p.o, p.at, n)

(* The contents as a value of a type, which a decoder takes the tag's word  *)
(* for the length of; "flag" is a boolean with an octet of its own, "truth" *)
(* a boolean in its tag.                                                    *)
ValueOf(tag, contents, type) ==
  CASE type = "flag"  -> contents # <<>> /\ contents[1] # 0
    [] type = "truth" -> tag.value # 0
    [] OTHER          -> Contents(type, contents)

TakeTagged(p, tag, type, field) ==
  Keep([p EXCEPT !.at = @ + tag.len + IF type = "truth" THEN 0 ELSE tag.value],
       field, ValueOf(tag, Slice(p.o, p.at + tag.len, tag.value), type))

Take(p, type, field) == TakeTagged(p, TagHere(p), type, field)

(***************************************************************************)
(* The steps.                                                              *)
(***************************************************************************)
Step(do, n, type, field, other) ==
  [do |-> do, n |-> n, type |-> type, field |-> field, other |-> other]

Context(n, type, field)  == Step("context", n, type, field, "ERROR")
Numbered(n, type, field) == Step("numbered", n, type, field, "ERROR")
Application(type, field) == Step("application", Tags[IF type = "truth" THEN "boolean" ELSE type],
                                 type, field, "ERROR")
Unchecked(type, field)   == Step("unchecked", 0, type, field, "ERROR")
Opening(n) == Step("opening", n, "none", "none", "ERROR")
Closing(n) == Step("closing", n, "none", "none", "ERROR")
SkipTag == Step("skip", 0, "none", "none", "ERROR")
Or(step, error) == [step EXCEPT !.other = error]          \* the error it ends with

(* Taken when its context tag is there, the field having a value otherwise. *)
Optional(n, type, field, default) == Step("optional", n, type, field, default)
(* The same, but only the number is compared. *)
OptionalNumbered(n, type, field, default) == Step("optional numbered", n, type, field, default)
(* A field with a value of its own. *)
Given(field, v) == Step("given", 0, "none", field, v)
(* The octets up to the end of the message but for the closing tag there. *)
AllButLast(field) == Step("all but last", 0, "none", field, "ERROR")
(* Nothing may be left. *)
Ended == Step("ended", 0, "none", "none", "ERROR")

AnyTag(p, s) ==
  CASE s.do = "context"     -> IsContext(p, s.n)
    [] s.do = "numbered"    -> TagHere(p).number = s.n
    [] s.do = "application" -> TagHere(p).number = s.n
    [] s.do = "unchecked"   -> TRUE
    [] s.do = "optional"    -> ~AtEnd(p) /\ IsContext(p, s.n) /\ ~IsOpening(Here(p)) /\ ~IsClosing(Here(p))
    [] s.do = "optional numbered" -> ~AtEnd(p) /\ TagHere(p).number = s.n

Skip(p) == [p EXCEPT !.at = @ + TagHere(p).len]

DoStep(p, s) ==
  CASE Failed(p) -> p
    [] s.do \in {"context", "numbered", "application", "unchecked"} /\ ~Failed(p) ->
         IF ~AtEnd(p) /\ AnyTag(p, s) THEN Take(p, s.type, s.field) ELSE Fail(p, s.other)
    [] s.do \in {"optional", "optional numbered"} /\ ~Failed(p) ->
         IF AnyTag(p, s) THEN Take(p, s.type, s.field) ELSE Keep(p, s.field, s.other)
    [] s.do = "opening" /\ ~Failed(p) ->
         IF IsOpeningOf(p, s.n) THEN Skip(p) ELSE Fail(p, s.other)
    [] s.do = "closing" /\ ~Failed(p) ->
         IF IsClosingOf(p, s.n) THEN Skip(p) ELSE Fail(p, s.other)
    [] s.do = "skip" /\ ~Failed(p) -> Skip(p)
    [] s.do = "given" /\ ~Failed(p) -> Keep(p, s.field, s.other)
    [] s.do = "all but last" /\ ~Failed(p) ->
         Keep([p EXCEPT !.at = Len(p.o) + 1], s.field, Slice(p.o, p.at, Len(p.o) - p.at))
    [] s.do = "ended" /\ ~Failed(p) -> IF AtEnd(p) THEN p ELSE Fail(p, s.other)

Then(p, steps) == FoldLeft(DoStep, p, steps)
Decode(o, steps) == Then(Begin(o), steps)

(***************************************************************************)
(* Parts of any length: what stands between an opening tag and its closing *)
(* tag, and application values up to a closing tag.                        *)
(***************************************************************************)
Contained(p, n, field, error, len) ==
  LET first == Skip(p).at
  IN  IF ~IsOpeningOf(p, n) \/ len < 0 \/ ~decode_is_closing_tag_number(p.o, first + len, n)
      THEN Fail(p, error)
      ELSE Keep([p EXCEPT !.at = first + len + (first - p.at)], field, Slice(p.o, first, len))
Between(p, n, field, property, error) ==
  IF Failed(p) THEN p ELSE Contained(p, n, field, error, bacapp_data_len(p.o, p.at, property))

(* At 0 when one of them cannot be read. *)
ValuesFrom(p, n) ==
  LET From[at \in Nat] ==
        LET And(d) == IF d.len <= 0 THEN [values |-> <<>>, at |-> 0]
                      ELSE [From[at + d.len] EXCEPT !.values = <<d.value>> \o @]
        IN  IF decode_is_closing_tag_number(p.o, at, n) THEN [values |-> <<>>, at |-> at + 1]
            ELSE IF at > Len(p.o) THEN [values |-> <<>>, at |-> 0]
            ELSE And(bacapp_decode_application_data(p.o, at))
  IN  From[p.at + 1]

Stored(p, field, all) ==
  IF all.at = 0 THEN Fail(p, "ERROR") ELSE Keep([p EXCEPT !.at = all.at], field, all.values)
Values(p, n, field) ==
  IF Failed(p) THEN p
  ELSE IF ~IsOpeningOf(p, n) THEN Fail(p, "ERROR") ELSE Stored(p, field, ValuesFrom(p, n))

(***************************************************************************)
(* Lists: an item decoder is repeated while More, and its fields are kept  *)
(* as one record of the list.                                              *)
(***************************************************************************)
Items(p, field, More(_), Item(_)) ==
  LET From[at \in Nat] ==
        LET And(next) ==
              IF Failed(next) \/ next.at = at
              THEN [items |-> <<>>, at |-> at, fail |-> next.fail]
              ELSE [From[next.at] EXCEPT !.items = <<next.got>> \o @]
            ItemAt(here) == IF More(here) THEN And(Item(here))
                           ELSE [items |-> <<>>, at |-> at, fail |-> "none"]
        IN  ItemAt([p EXCEPT !.at = at, !.got = <<>>])
      All(list) == [Keep(p, field, list.items) EXCEPT !.at = list.at, !.fail = list.fail]
  IN  IF Failed(p) THEN p ELSE All(From[p.at])

(* The octets of each of a list, one after the other. *)
Concatenated(list, Encode(_)) == FlattenSeq([i \in DOMAIN list |-> Encode(list[i])])

(* An item that is only there when a field has a value. *)
When(condition, octets) == IF condition THEN octets ELSE <<>>
=============================================================================
