-------------------------------- MODULE Status --------------------------------
(***************************************************************************)
(* status_t of include/status.h and src/status.c: a word of 64 bits with a *)
(* category, a condition and a code, the latter of an id and flags.  A     *)
(* word is the set of its bits that are 1: | is \cup, & ~ is \.            *)
(***************************************************************************)
EXTENDS Naturals

CONSTANTS Cats, Cnds, Ids, Flgs \* the bits of the enumerators in use

VARIABLES
  st,   \* the status
  told  \* history: what it was last told, field by field

statusVars == <<st, told>>

MaskCat == 48 .. 63
MaskCnd == 32 .. 47
MaskId == 16 .. 31
MaskFlg == 0 .. 15
MaskCode == 0 .. 31

(* Every enumerator is in its field. *)
InFields ==
  /\ Cats \subseteq SUBSET MaskCat /\ Cnds \subseteq SUBSET MaskCnd
  /\ Ids \subseteq SUBSET MaskId /\ Flgs \subseteq SUBSET MaskFlg

ASSUME FieldsAssumption == InFields

get_cat(w) == w \cap MaskCat
get_cnd(w) == w \cap MaskCnd
get_code(w) == w \cap MaskCode
get_code_id(w) == w \cap MaskId
get_code_flg(w) == w \cap MaskFlg

asstatus(cat, cnd, code) == cat \cup cnd \cup code
init_status(cat) == cat \cap MaskCat

(* Slip: the mask of the id. *)
UpdatedCodeId(w, code) == (w \ MaskId) \cup code

update_status_cat(w, cat) == (w \ MaskCat) \cup cat
update_status_cnd(w, cnd) == (w \ MaskCnd) \cup cnd
update_status_code(w, code) == (w \ MaskCode) \cup code
update_status_code_id(w, id) == (w \ MaskId) \cup id
update_status_code_flg(w, flg) == (w \ MaskFlg) \cup flg

-----------------------------------------------------------------------------
Told(cat, cnd, id, flg) == [cat |-> cat, cnd |-> cnd, id |-> id, flg |-> flg]

StatusInit ==
  \/ \E cat \in Cats : st = init_status(cat) /\ told = Told(cat, {}, {}, {})
  \/ \E cat \in Cats, cnd \in Cnds, id \in Ids, flg \in Flgs :
       /\ st = asstatus(cat, cnd, id \cup flg)
       /\ told = Told(cat, cnd, id, flg)

SetCat ==
  \E v \in Cats : st' = update_status_cat(st, v) /\ told' = [told EXCEPT !.cat = v]
SetCnd ==
  \E v \in Cnds : st' = update_status_cnd(st, v) /\ told' = [told EXCEPT !.cnd = v]
SetCode ==
  \E v \in Ids, f \in Flgs :
    /\ st' = update_status_code(st, v \cup f)
    /\ told' = [told EXCEPT !.id = v, !.flg = f]
SetCodeId ==
  \E v \in Ids : st' = update_status_code_id(st, v) /\ told' = [told EXCEPT !.id = v]
SetCodeFlg ==
  \E v \in Flgs : st' = update_status_code_flg(st, v) /\ told' = [told EXCEPT !.flg = v]

StatusNext == SetCat \/ SetCnd \/ SetCode \/ SetCodeId \/ SetCodeFlg

-----------------------------------------------------------------------------
(* After any sequence of updates every getter returns what its field was   *)
(* last told, whatever happened to the other fields (status.h:145-173,     *)
(* status.c:4-35).                                                         *)
FieldsKeepTheirValue ==
  /\ get_cat(st) = told.cat /\ get_cnd(st) = told.cnd
  /\ get_code_id(st) = told.id /\ get_code_flg(st) = told.flg
  /\ get_code(st) = told.id \cup told.flg
=============================================================================
