----------------------------- MODULE SearchForm -----------------------------
(***************************************************************************)
(* SearchForm.js: the form on the home page of the web client, and the     *)
(* requests to /search/new that it has under way.  The submit button is    *)
(* never disabled, so there may be several, and what is done with their    *)
(* answers does not depend on the form being still there.                  *)
(***************************************************************************)
EXTENDS Naturals, SequencesExt

CONSTANTS
    MaxPosts,   \* bound on the requests under way at once
    NoAnswer    \* instead of the id of the new search

ASSUME MaxPostsAssumption == MaxPosts \in Nat \ {0}

VARIABLES
    form,       \* the state of SearchForm and of its switch
    posts       \* the requests under way

formVars == <<form, posts>>

\* input: whether there is a text.  target: whether it is plugins or themes.
\* switch: what the user sees of the uncontrolled checkbox, "keyed" from the
\* time it was turned with the keyboard, which the code does not notice.
NoForm == [on |-> FALSE, input |-> FALSE, target |-> TRUE, private |-> FALSE,
           switch |-> "no", alert |-> FALSE]

NewForm == [NoForm EXCEPT !.on = TRUE]

\* owner: the form that waits for the answer; the "tab", once that form was
\* unmounted; "none", once the tab was reloaded or closed.
NoPost == [valid |-> FALSE, private |-> FALSE, asked |-> FALSE, owner |-> "form",
           answer |-> NoAnswer]

Post == IF ~(form.input /\ form.target) THEN NoPost
        ELSE [NoPost EXCEPT !.valid = TRUE, !.private = form.private,
                            !.asked = form.switch = "yes"]

FormTypeOK(ids) ==
    /\ form \in [on : BOOLEAN, input : BOOLEAN, target : BOOLEAN, private : BOOLEAN,
                 switch : {"no", "yes", "keyed"}, alert : BOOLEAN]
    /\ posts \in Seq([valid : BOOLEAN, private : BOOLEAN, asked : BOOLEAN,
                      owner : {"form", "tab", "none"}, answer : ids \cup {NoAnswer}])
    /\ Len(posts) <= MaxPosts
    /\ \A i \in DOMAIN posts : posts[i].owner = "form" => form.on

-----------------------------------------------------------------------------
UpdateInput ==
    /\ form.on
    /\ \E text \in BOOLEAN : form' = [form EXCEPT !.input = text]
    /\ UNCHANGED posts

\* A click on the icon in the button has the icon for its target, and an icon
\* has no value.  The enter key in the text clicks the first of the buttons.
UpdateTarget ==
    /\ form.on
    /\ \E onButton \in BOOLEAN : form' = [form EXCEPT !.target = onButton]
    /\ UNCHANGED posts

\* A click on the label turns the checkbox and the flag.
TogglePrivate ==
    /\ form.on
    /\ form' = [form EXCEPT !.private = ~@,
                            !.switch = CASE @ = "no" -> "yes" [] @ = "yes" -> "no" [] OTHER -> @]
    /\ UNCHANGED posts

\* The keyboard turns the checkbox only.
KeySwitch ==
    /\ form.on /\ form.switch # "keyed"
    /\ form' = [form EXCEPT !.switch = "keyed"]
    /\ UNCHANGED posts

\* A plausible mistake: the request leaves the flag out.
HandleSubmitPublic ==
    /\ form.on /\ Len(posts) < MaxPosts
    /\ posts' = Append(posts, [Post EXCEPT !.private = FALSE])
    /\ form' = [form EXCEPT !.alert = FALSE]

HandleSubmit ==
    /\ form.on /\ Len(posts) < MaxPosts
    /\ posts' = Append(posts, Post)
    /\ form' = [form EXCEPT !.alert = FALSE]

-----------------------------------------------------------------------------
(* Answers.  Nobody waits for those of posts without an owner.             *)

IsSent(i) == posts[i].valid /\ posts[i].answer = NoAnswer

\* The server accepts post i as the search id.
PostAccepted(i, id) ==
    /\ IsSent(i)
    /\ posts' = IF posts[i].owner = "none" THEN RemoveAt(posts, i)
                ELSE [posts EXCEPT ![i] = [NoPost EXCEPT !.owner = posts[i].owner, !.answer = id]]
    /\ UNCHANGED form

\* The request or its answer is lost, or it is refused: then or catch.
PostFails(i) ==
    /\ posts' = RemoveAt(posts, i)
    /\ form' = [form EXCEPT !.alert = @ \/ posts[i].owner = "form"]

\* A plausible mistake: the answer is the form's still.
OrphansKept == posts

\* The posts after the form was unmounted.
Orphans == [i \in DOMAIN posts |->
               IF posts[i].owner = "form" THEN [posts[i] EXCEPT !.owner = "tab"] ELSE posts[i]]

\* The posts after the tab was reloaded: the server may still accept those that
\* were sent.
Abandoned == [i \in DOMAIN posts |-> [posts[i] EXCEPT !.owner = "none"]]
=============================================================================
