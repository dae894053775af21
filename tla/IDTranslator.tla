---------------------------- MODULE IDTranslator ----------------------------
(***************************************************************************)
(* The two hash maps of include/svs/core/translation.h: a translator is a  *)
(* record with the functions e2i and i2e.  Each operator is the state a    *)
(* method leaves behind when it does not throw, and each ...OK operator is *)
(* the test that makes it throw before it has changed anything.            *)
(***************************************************************************)
EXTENDS Naturals, Sequences

EmptyTranslator == [e2i |-> <<>>, i2e |-> <<>>]

Elements(s) == {s[k] : k \in DOMAIN s}

\* lib::all_unique
all_unique(s) == \A j, k \in DOMAIN s : j # k => s[j] # s[k]

\* The element of `to` at the place of x in `from`.
PartnerOf(x, from, to) == to[CHOOSE k \in DOMAIN from : from[k] = x]

has_external(t, e) == e \in DOMAIN t.e2i

has_internal(t, i) == i \in DOMAIN t.i2e

check_external_exist(t, external) == \A k \in DOMAIN external : has_external(t, external[k])

check_external_free(t, external) == \A k \in DOMAIN external : ~has_external(t, external[k])

check_internal_free(t, internal) == \A k \in DOMAIN internal : ~has_internal(t, internal[k])

InsertOK(t, external, internal) ==
  /\ Len(external) = Len(internal)
  /\ all_unique(external)
  /\ all_unique(internal)
  /\ check_external_free(t, external)
  /\ check_internal_free(t, internal)

insert(t, external, internal) ==
  [e2i |-> [e \in DOMAIN t.e2i \cup Elements(external) |->
              IF e \in Elements(external) THEN PartnerOf(e, external, internal)
              ELSE t.e2i[e]],
   i2e |-> [i \in DOMAIN t.i2e \cup Elements(internal) |->
              IF i \in Elements(internal) THEN PartnerOf(i, internal, external)
              ELSE t.i2e[i]]]

\* Mutant: erases one of the two maps only.
delete_one_way(t, external) == [t EXCEPT !.e2i = [e \in DOMAIN @ \ Elements(external) |-> @[e]]]

\* delete_external erases one id after the other.  An id that was erased by an
\* earlier element makes get_internal throw and ends the loop: `external` is then
\* erased up to there.
delete_external(t, external) ==
  LET erased == {external[k] : k \in
        {k \in DOMAIN external : all_unique(SubSeq(external, 1, k))}}
  IN  [e2i |-> [e \in DOMAIN t.e2i \ erased |-> t.e2i[e]],
       i2e |-> [i \in DOMAIN t.i2e \ {t.e2i[e] : e \in erased} |-> t.i2e[i]]]

\* insert({to, external}) keeps an entry that `to` has already.
remap_internal_id(t, from, to) ==
  LET external == t.i2e[from]
      rest     == DOMAIN t.i2e \ {from}
  IN  [e2i |-> [t.e2i EXCEPT ![external] = to],
       i2e |-> [i \in rest \cup {to} |-> IF i \in rest THEN t.i2e[i] ELSE external]]
=============================================================================
