------------------------------ MODULE MCConsole ------------------------------
(* Two tabs on pages that meet on the server, in the states where they do. *)
EXTENDS Console

CONSTANTS t1, t2, r1, r2, x, y

Scene(p, q, listing, status, review, d, e) ==
    [pages |-> (t1 :> p @@ t2 :> q), listing |-> listing, status |-> status, review |-> review,
     plans |-> (r1 :> d @@ r2 :> e)]

Planned(decision, listing, waits) ==
    [decision |-> decision, listing |-> listing, waits |-> waits]

Plain(decision) == Planned(decision, "none", FALSE)

\* Pages whose rows are not the release's.
Quiet(p, q) == Scene(p, q, "approved", "published", "legacy_pending", Plain("approve"), Plain("approve"))

\* Pages on the release, waiting for its first review or live without one.
Waiting(p, q) == Scene(p, q, "approved", "ready", "pending", Plain("approve"), Plain("unpublish"))
Unreviewed(p, q, d, e) == Scene(p, q, "legacy_pending", "published", "legacy_pending", d, e)

\* One tab with overlapping clicks, the other idle.
Alone ==
    {Quiet(p, "left") : p \in {"overview", "links", "safe", "reports", "library", "listing"}}
      \cup {Waiting(p, "left") : p \in {"versions", "triage", "review"}}
      \cup {Scene("versions", "left", "approved", s, "legacy_pending", Plain("approve"), Plain("approve")) :
              s \in {"absent", "superseded"}}

\* Two tabs on rows they share.
Together ==
    {Quiet("library", "gallery"), Waiting("versions", "review"),
     Unreviewed("prepared", "triage", Plain("approve"), Plain("unpublish")),
     Unreviewed("prepared", "left", Plain("request_changes"), Plain("needs_human_review"))}

\* One release that two batches decide, each saying something of the listing or waiting.
Batches ==
    {Unreviewed("prepared", "left", Planned("approve", "listing_needs_changes", FALSE),
                Planned("unpublish", "approve_listing", FALSE)),
     Unreviewed("prepared", "left", Planned("request_changes", "none", TRUE),
                Planned("approve", "listing_needs_human_review", FALSE))}

MCScenes == Alone \cup Together \cup Batches

\* The listing's author and its moderator, each on the page of it.
AuthorAndModerator == {Quiet("overview", "listing")}

\* One tab on the versions of a project never published, or on the library.
FirstPublish == {Waiting("versions", "left")}
LibraryAlone == {Quiet("library", "left")}

\* Which free slot a call takes (Slot) makes no difference to what can happen next: every
\* action and property is the same for all slots, so states that differ in their names are one.
SlotSymmetry == Permutations(Slots)

MCCatalog == <<x, y>>
=============================================================================
