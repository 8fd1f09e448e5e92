---------------------------- MODULE MCPasteStore ----------------------------
\* Values for model checking PasteStore.
EXTENDS PasteStore, TLC

\* Creation forms: burn after reading, with an expiry and editable, plain.
BurnForm   == [life |-> Never, flags |-> {"one_use"}]
FlashForm  == [life |-> 1, flags |-> {"one_use", "is_editable"}]
EditForm   == [life |-> 1, flags |-> {"is_editable", "is_private"}]
PlainForm  == [life |-> Never, flags |-> {}]

MixedForms == {BurnForm, FlashForm, EditForm, PlainForm}
RaceForms  == {FlashForm, EditForm}

\* The forms above are ones that some creator accepts.
ASSUME FormsAreCreatable ==
  MixedForms \subseteq Creatable(0..2, 0)

ExpiryOps  == {"create"} \cup getPaste \cup handleEditPaste

AllFaults == {"primary", "backup", "crash"}

Perms == Permutations(Req) \cup Permutations(Body)
=============================================================================
