------------------------------- MODULE Assets -------------------------------
(***************************************************************************)
(* The files of a business (assets.service.ts): an upload puts an object   *)
(* in R2 and then inserts its row; a link gives an asset a kind for the    *)
(* business. A logo and a cover are exclusive: linking one first unlinks   *)
(* what had the kind, in a statement of its own. The page of the business  *)
(* (negocio-page.tsx) reads the logo when it opens and uploads new ones.   *)
(*                                                                         *)
(* Every await between two statements is a step, and the next statement    *)
(* of a request may fail instead: R2 or the database does not answer, or   *)
(* the server is restarted.                                                *)
(***************************************************************************)
EXTENDS Naturals, FiniteSets, FiniteSetsExt

CONSTANTS
    Requests,       \* requests in flight
    Kinds,          \* kinds of link; "logo" is one of them
    Exclusive,      \* EXCLUSIVE_BUSINESS_KINDS
    None,           \* no asset
    MaxAssets,      \* bound: files uploaded
    MaxLinks        \* bound: links asked for by hand

VARIABLES
    objects,        \* uploads whose object is in R2
    assets,         \* rows of assets; a later one has a later created_at
    links,          \* businesses_assets: asset -> its kind, or "none"
    req,            \* request -> where it is, and the asset and kind it is about
    used,           \* how many files were sent, and links asked for
    shown,          \* the logo on the page, and whether it is uploading one
    last,           \* history: the asset last linked as the logo
    mixed           \* history: two linkings of a logo overlapped on what is linked now

vars == <<objects, assets, links, req, used, shown, last, mixed>>

\* An asset is not None, and the logo is one of the exclusive kinds.
AssetsAssumption ==
    /\ MaxAssets \in Nat /\ None \notin 1..MaxAssets
    /\ "logo" \in Exclusive /\ "logo" \in Kinds

NoReq == [pc |-> "idle", asset |-> None, kind |-> "none", page |-> FALSE]

\* SQL_FIND_BUSINESS_ASSET_BY_KIND: the newest one.
Linked(kind) == {a \in assets : links[a] = kind}
Logo == IF Linked("logo") = {} THEN None ELSE Max(Linked("logo"))

Linking(kind) == {r \in Requests : req[r].pc = "link" /\ req[r].kind = kind}

\* subir (link = "none") or set-business-logo: the file and R2 are checked first.
Upload(r, kind, page) ==
    /\ req[r].pc = "idle" /\ used.files < MaxAssets
    /\ used' = [used EXCEPT !.files = @ + 1]
    /\ req' = [req EXCEPT ![r] = [pc |-> "put", asset |-> used.files + 1, kind |-> kind,
                                  page |-> page]]

SendFile(r) ==
    /\ \E kind \in {"none", "logo"} : Upload(r, kind, FALSE)
    /\ UNCHANGED <<objects, assets, links, shown, last, mixed>>

\* PutObject, then SQL_INSERT_ASSET with the key.
Put(r) ==
    /\ req[r].pc = "put"
    /\ objects' = objects \cup {req[r].asset}
    /\ req' = [req EXCEPT ![r].pc = "insert"]
    /\ UNCHANGED <<assets, links, used, shown, last, mixed>>

Insert(r) ==
    /\ req[r].pc = "insert"
    /\ assets' = assets \cup {req[r].asset}
    /\ req' = [req EXCEPT ![r].pc = IF req[r].kind = "none" THEN "answer" ELSE "find"]
    /\ UNCHANGED <<objects, links, used, shown, last, mixed>>

\* link-business, with an id that may be of no asset.
AskLink(r, asset, kind) ==
    /\ req[r].pc = "idle" /\ used.links < MaxLinks
    /\ used' = [used EXCEPT !.links = @ + 1]
    /\ req' = [req EXCEPT ![r] = [pc |-> "find", asset |-> asset, kind |-> kind, page |-> FALSE]]
    /\ UNCHANGED <<objects, assets, links, shown, last, mixed>>

\* Broken: the exclusive kind is freed before the asset is found.
FindLate(r) ==
    /\ req[r].pc = "find"
    /\ IF req[r].kind \in Exclusive
       THEN links' = [a \in DOMAIN links |-> IF links[a] = req[r].kind THEN "none" ELSE links[a]]
       ELSE UNCHANGED links
    /\ req' = IF req[r].asset \in assets THEN [req EXCEPT ![r].pc = "link"]
              ELSE [req EXCEPT ![r] = NoReq]
    /\ UNCHANGED <<objects, assets, used, shown, last, mixed>>

\* findById: a 404 if there is no such asset.
Find(r) ==
    /\ req[r].pc = "find"
    /\ req' = IF req[r].asset \notin assets THEN [req EXCEPT ![r] = NoReq]
              ELSE [req EXCEPT ![r].pc = IF req[r].kind \in Exclusive THEN "unlink" ELSE "link"]
    /\ UNCHANGED <<objects, assets, links, used, shown, last, mixed>>

\* SQL_UNLINK_BUSINESS_ASSETS_BY_KIND.
Unlink(r) ==
    /\ req[r].pc = "unlink"
    /\ links' = [a \in DOMAIN links |-> IF links[a] = req[r].kind THEN "none" ELSE links[a]]
    /\ req' = [req EXCEPT ![r].pc = "link"]
    /\ IF req[r].kind = "logo" THEN last' = None /\ mixed' = (Linking("logo") # {})
       ELSE UNCHANGED <<last, mixed>>
    /\ UNCHANGED <<objects, assets, used, shown>>

\* SQL_LINK_BUSINESS_ASSET: an asset has one kind, the last one given.
Link(r) ==
    /\ req[r].pc = "link"
    /\ links' = [links EXCEPT ![req[r].asset] = req[r].kind]
    /\ req' = [req EXCEPT ![r].pc = "answer"]
    /\ last' = IF req[r].kind = "logo" THEN req[r].asset
               ELSE IF last = req[r].asset THEN None ELSE last
    /\ UNCHANGED <<objects, assets, used, shown, mixed>>

\* A statement fails, and what was done before it stays.
Fail(r) ==
    /\ req[r].pc \in {"put", "insert", "find", "unlink", "link"}
    /\ req' = [req EXCEPT ![r] = NoReq]
    /\ shown' = IF req[r].page THEN [shown EXCEPT !.uploading = FALSE] ELSE shown
    /\ UNCHANGED <<objects, assets, links, used, last, mixed>>

\* The answer reaches whoever asked; the page shows the logo it sent.
Answered(r) ==
    /\ req[r].pc = "answer"
    /\ req' = [req EXCEPT ![r] = NoReq]
    /\ shown' = IF req[r].page THEN [logo |-> req[r].asset, uploading |-> FALSE] ELSE shown
    /\ UNCHANGED <<objects, assets, links, used, last, mixed>>

\* The page is opened again, and hears no more of what the one before sent:
\* getBusinessLogo may fail and leave it without a logo, and the form is only
\* there once it ended.
OpenPage ==
    /\ \E logo \in {Logo, None} : shown' = [logo |-> logo, uploading |-> FALSE]
    /\ req' = [r \in Requests |-> [req[r] EXCEPT !.page = FALSE]]
    /\ UNCHANGED <<objects, assets, links, used, last, mixed>>

\* handleLogoChange, with a file of an allowed type and size; the button is off
\* while one is uploading.
ChangeLogo(r) ==
    /\ ~shown.uploading
    /\ Upload(r, "logo", TRUE)
    /\ shown' = [shown EXCEPT !.uploading = TRUE]
    /\ UNCHANGED <<objects, assets, links, last, mixed>>

Init ==
    /\ objects = {} /\ assets = {} /\ links = [a \in 1..MaxAssets |-> "none"]
    /\ req = [r \in Requests |-> NoReq]
    /\ used = [files |-> 0, links |-> 0]
    /\ shown = [logo |-> None, uploading |-> FALSE]
    /\ last = None /\ mixed = FALSE

Next ==
    \/ \E r \in Requests : \/ SendFile(r) \/ Put(r) \/ Insert(r) \/ Find(r) \/ Unlink(r)
                           \/ Link(r) \/ Fail(r) \/ Answered(r) \/ ChangeLogo(r)
    \/ \E r \in Requests, a \in 1..MaxAssets, kind \in Kinds : AskLink(r, a, kind)
    \/ OpenPage

Spec == Init /\ [][Next]_vars

-----------------------------------------------------------------------------
(* Properties *)

\* Type correctness; a row is of an object in R2, only assets are linked, and
\* the page's button is off exactly while a logo of the page is on its way.
TypeOK ==
    /\ assets \subseteq objects /\ objects \subseteq 1..MaxAssets
    /\ \A a \in 1..MaxAssets : links[a] \in Kinds \cup {"none"} /\ (links[a] # "none" => a \in assets)
    /\ shown.logo \in assets \cup {None}
    /\ shown.uploading <=> \E r \in Requests : req[r].page
    /\ last \in assets \cup {None} /\ mixed \in BOOLEAN

\* The logo a business has is the one linked last, though its predecessor is
\* unlinked in a statement of its own: it is missing only while a linking is
\* between the two or failed there, two are linked only by linkings that
\* overlapped, and the next linking cleans those up
\* (assets.service.ts:194-210, "Kinds con un solo asset por negocio").
LogoIsTheLastLinked ==
    /\ ~mixed => Linked("logo") = {last} \ {None}
    /\ Logo = None => last = None

=============================================================================
