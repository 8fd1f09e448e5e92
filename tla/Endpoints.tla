------------------------------ MODULE Endpoints ------------------------------
(***************************************************************************)
(* The HTTP endpoints of CasPaste as far as the paste table can tell them  *)
(* apart: which protocol each one follows with the row it reads, and which *)
(* pastes each creator can ask PasteAdd for. PasteStore runs the           *)
(* protocols; this module says which handler uses which.                   *)
(***************************************************************************)
EXTENDS Integers

Flag == {"one_use", "is_editable", "is_private"}

\* Protocols. Claiming handlers delete a one-use paste first and serve it
\* only if their own delete removed the row.
Claiming == {"confirm", "burn"}
Editing  == {"edit", "mbEdit"}

\* "ask" shows no body of a one-use paste; "lax" serves it even when its
\* delete failed; "peek" serves it and deletes nothing; "edit" honours
\* is_editable, "mbEdit" does not; "delete" removes any paste by id.
Handlers == {"create", "ask", "lax", "peek", "delete"} \cup Claiming \cup Editing

\* Readers.
handleGetPaste     == {"ask", "confirm"}
handleDownload     == {"burn"}
rawHand            == {"burn"}
getPaste           == {"burn"}
apiv1_hastebinGet  == {"lax"}
lenpasteGet        == {"ask", "lax"}
compat_hastebinGet == {"peek"}
stikkedGetPaste    == {"peek"}
pastebinRaw        == {"peek"}
ResolvePaste       == {"peek"}
handleURLRedirect  == {"peek"}
handleEmbedded     == {"ask"}
handleEmbeddedHelp == {"ask"}

\* Editors and deleters.
handleEditPaste    == {"edit"}
microbinAPI        == {"peek", "mbEdit", "delete"}
pastebinDelete     == {"delete"}

\* Every protocol is some endpoint's, and no endpoint follows another one.
ASSUME ProtocolsAreEndpoints ==
  Handlers \ {"create"} =
    UNION {handleGetPaste, handleDownload, rawHand, getPaste, apiv1_hastebinGet,
           lenpasteGet, compat_hastebinGet, stikkedGetPaste, pastebinRaw,
           ResolvePaste, handleURLRedirect, handleEmbedded, handleEmbeddedHelp,
           handleEditPaste, microbinAPI, pastebinDelete}

-----------------------------------------------------------------------------
\* Creators: the forms (lifetime in seconds, flags) each one can turn into a
\* paste, out of lifetimes L. A lifetime that is absent, malformed or not
\* positive is Never.

Never == -1

Timed(L, flags)  == [life : {Never} \cup {l \in L : l > 0}, flags : SUBSET flags]
Untimed(flags)   == [life : {Never}, flags : SUBSET flags]

\* The form checks an expiration against the configured maximum (0: none)
\* only when the form has one.
PasteAddFromForm(L, maxLifeTime) ==
  {f \in Timed(L, Flag) : maxLifeTime > 0 => f.life <= maxLifeTime}

createPaste(L, maxLifeTime)    == PasteAddFromForm(L, maxLifeTime)
handleNewPaste(L, maxLifeTime) == PasteAddFromForm(L, maxLifeTime)

lenpasteNew(L)          == Timed(L, {"one_use"})
stikkedCreate(L)        == Timed(L, {"is_private"})
pastebinCreate(L)       == Timed(L, {"is_private"})
microbinCreate(L)       == Timed(L, {"one_use", "is_private"})
compat_hastebinCreate   == Untimed({})
termbinCreate           == Untimed({})

handlePastebinCompat(L) == Timed(L, {"is_private"})
handleStikkedCompat(L)  == Timed(L, {})
handleMicrobinCompat(L) == Timed(L, {"one_use", "is_private"})
handleGenericCompat(L)  == Timed(L, {"one_use", "is_private"})
handleSprungeCompat     == Untimed({})
handleIxCompat          == Untimed({})
handleTermbinCompat     == Untimed({})
apiv1_hastebinCreate    == Untimed({})
ResolveCreatePaste      == Untimed({"one_use", "is_private"})

\* A duration below one second is positive but rounds to zero seconds.
handleLenpasteCompat(L) ==
  [life : {Never} \cup {l \in L : l >= 0}, flags : SUBSET {"one_use"}]

\* What some creator accepts when the maximum lifetime is maxLifeTime.
Creatable(L, maxLifeTime) ==
  UNION {createPaste(L, maxLifeTime), handleNewPaste(L, maxLifeTime),
         lenpasteNew(L), stikkedCreate(L), pastebinCreate(L), microbinCreate(L),
         compat_hastebinCreate, termbinCreate, handlePastebinCompat(L),
         handleStikkedCompat(L), handleMicrobinCompat(L), handleGenericCompat(L),
         handleSprungeCompat, handleIxCompat, handleTermbinCompat,
         apiv1_hastebinCreate, ResolveCreatePaste, handleLenpasteCompat(L)}
=============================================================================
