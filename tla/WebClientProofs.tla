--------------------------- MODULE WebClientProofs ---------------------------
(***************************************************************************)
(* Proofs about WebClient, for any number of searches, of requests and of  *)
(* answers in any order: its variables keep their types, no page throws,   *)
(* private searches are on no list, what the page of a search says of it   *)
(* is true, and the service under it is that of SearchService.             *)
(***************************************************************************)
EXTENDS WebClient, SumLemmas, SequenceTheorems

-----------------------------------------------------------------------------
(* The invariant                                                           *)

FormType == [on : BOOLEAN, input : BOOLEAN, target : BOOLEAN, private : BOOLEAN,
             switch : {"no", "yes", "keyed"}, alert : BOOLEAN]

PostType == [valid : BOOLEAN, private : BOOLEAN, asked : BOOLEAN,
             owner : {"form", "tab", "none"}, answer : IDs \cup {NoAnswer}]

\* What was asked for with the switch is what the request says, unless the keyboard
\* had a hand in it, and an answer has the id of a search that was created.
Sound(p, ids) == (p.asked => p.private) /\ p.answer \in ids \cup {NoAnswer}

FormInv ==
    /\ FormTypeOK(IDs)
    /\ form.switch # "keyed" => (form.private <=> form.switch = "yes")
    /\ \A i \in DOMAIN posts : Sound(posts[i], Created)

\* The searches that wait are none of those that were started, and those that are
\* settled will not be processed again.  Once it is true of a search either stays so.
Started(id) == id \in Created \ Service!Members(waiting)
Settled(id) == Started(id) /\ id # active

ServiceInv ==
    /\ created \in Seq(IDs) /\ waiting \in Seq(IDs)
    /\ Service!Members(waiting) \subseteq Created
    /\ \A i, j \in DOMAIN waiting : waiting[i] = waiting[j] => i = j
    /\ active # NoID => Started(active)
    /\ \A id \in done \cup stuck \cup late : Settled(id)

\* A search that is on a list was in the list of the service, and no request that
\* is accepted later makes it a private one.
TabInv ==
    /\ path \in Static \cup {Search(id) : id \in Created}
    /\ page \in [fetch : {"idle", "loading", "error", "shown"}, ids : SUBSET Created]
    /\ hidden \subseteq Created /\ exposed = {}
    /\ page.ids \cap hidden = {}
    /\ form.on <=> path.page = "home"
    /\ crashed \in BOOLEAN
    /\ crashed <=> path.page = "search" /\ ~HasMatch

\* What a poll was answered is true when it is delivered, however late.
PollType == [of : IDs, answer : {Waiting, 0, 1, 2}]

PollInv(p) ==
    /\ p \in PollType /\ p.of \in Created
    /\ p.answer = 1 => Started(p.of)
    /\ p.answer = 2 => Settled(p.of)
    /\ ~search.moved => p.of = path.id

PollsInv ==
    /\ IsFiniteSet(DOMAIN polls)
    /\ polls \in [DOMAIN polls -> Nat \ {0}]
    /\ SumFunction(polls) <= MaxPolls
    /\ \A p \in DOMAIN polls : PollInv(p)

SearchType == [on : BOOLEAN, id : IDs \cup {NoID}, status : {0, 1, 2, NoStatus},
               loading : BOOLEAN, error : BOOLEAN, table : IDs \cup {NoID}, moved : BOOLEAN]

\* The page of a search has the status of an answer to one of its polls, and as long
\* as its address stays that of the search in it.
SearchInv ==
    /\ search \in SearchType
    /\ search.status = 1 => Started(search.id)
    /\ search.status = 2 => Settled(search.id)
    /\ ~search.moved => {search.id, search.table} \subseteq {path.id, NoID}
    /\ search.on => path.page = "search"
    /\ ~search.on => search = NoSearch /\ timers = {} /\ DOMAIN polls = {}
    /\ path.page = "search" => crashed \/ search.on
    /\ timers \subseteq {"queue", "update", "tick", "message"}

Inv == FormInv /\ ServiceInv /\ TabInv /\ PollsInv /\ SearchInv

-----------------------------------------------------------------------------
(* Sequences                                                               *)

\* A post less, and every other one is as it was.
LEMMA RemoveAtKeeps ==
    ASSUME NEW S, NEW s \in Seq(S), NEW i \in DOMAIN s
    PROVE  /\ RemoveAt(s, i) \in Seq(S)
           /\ Len(RemoveAt(s, i)) = Len(s) - 1
           /\ \A j \in DOMAIN RemoveAt(s, i) : \E k \in DOMAIN s : RemoveAt(s, i)[j] = s[k]
  <1> DEFINE a == SubSeq(s, 1, i - 1)
             b == SubSeq(s, i + 1, Len(s))
  <1>1. i \in 1 .. Len(s) /\ Len(s) \in Nat /\ DOMAIN s = 1 .. Len(s)
    OBVIOUS
  <1>2. a \in Seq(S) /\ Len(a) = i - 1 /\ \A j \in 1 .. (i - 1) : a[j] = s[j]
    BY <1>1
  <1>3. b \in Seq(S) /\ Len(b) = Len(s) - i /\ \A j \in 1 .. (Len(s) - i) : b[j] = s[i + j]
    BY <1>1
  <1>4. RemoveAt(s, i) = a \o b
    BY DEF RemoveAt
  <1> HIDE DEF a, b
  <1>5. a \o b \in Seq(S) /\ Len(a \o b) = Len(s) - 1 /\ DOMAIN (a \o b) = 1 .. (Len(s) - 1)
    <2>1. a \o b \in Seq(S) /\ Len(a \o b) = Len(a) + Len(b)
      BY <1>2, <1>3, ConcatProperties
    <2>2. Len(a \o b) = Len(s) - 1
      BY <1>1, <1>2, <1>3, <2>1
    <2> QED BY <2>1, <2>2
  <1>6. ASSUME NEW j \in 1 .. (Len(s) - 1) PROVE \E k \in DOMAIN s : (a \o b)[j] = s[k]
    <2>1. CASE j <= i - 1
      <3>1. (a \o b)[j] = s[j] /\ j \in DOMAIN s
        BY <1>1, <1>2, <1>3, <2>1
      <3> QED BY <3>1
    <2>2. CASE ~(j <= i - 1)
      <3>1. PICK m \in 1 .. (Len(s) - i) : m = j - (i - 1) /\ i + m \in DOMAIN s
        BY <1>1, <2>2
      <3>2. (a \o b)[j] = b[m]
        BY <1>1, <1>2, <1>3, <2>2, <3>1, ConcatProperties
      <3> QED BY <1>3, <3>1, <3>2
    <2> QED BY <2>1, <2>2
  <1> QED BY <1>4, <1>5, <1>6

\* A function on the indices of a sequence is a sequence.
LEMMA MappedSeq ==
    ASSUME NEW S, NEW n \in Nat, NEW f \in [1 .. n -> S]
    PROVE  f \in Seq(S) /\ Len(f) = n /\ DOMAIN f = 1 .. n
  BY IsASeq

\* Append adds its element, and Tail takes away no more than Head.
LEMMA MembersAppend ==
    ASSUME NEW S, NEW s \in Seq(S), NEW e \in S
    PROVE  /\ Append(s, e) \in Seq(S)
           /\ Service!Members(Append(s, e)) = Service!Members(s) \cup {e}
  <1>1. /\ Append(s, e) \in Seq(S) /\ Len(Append(s, e)) = Len(s) + 1
        /\ \A i \in 1 .. Len(s) : Append(s, e)[i] = s[i]
        /\ Append(s, e)[Len(s) + 1] = e /\ Len(s) \in Nat
    BY AppendProperties
  <1>2. 1 .. Len(Append(s, e)) = (1 .. Len(s)) \cup {Len(s) + 1}
    BY <1>1
  <1> QED BY <1>1, <1>2 DEF Service!Members

\* What is left of a queue when its head is taken, and who its members are.
LEMMA MembersTail ==
    ASSUME NEW S, NEW s \in Seq(S), s # <<>>
    PROVE  /\ Head(s) \in S /\ Tail(s) \in Seq(S) /\ Len(Tail(s)) = Len(s) - 1
           /\ \A i \in 1 .. Len(Tail(s)) : Tail(s)[i] = s[i + 1]
           /\ Service!Members(Tail(s)) \subseteq Service!Members(s)
           /\ Head(s) \in Service!Members(s)
  <1>1. /\ Head(s) \in S /\ Tail(s) \in Seq(S) /\ Len(s) \in Nat \ {0}
        /\ Len(Tail(s)) = Len(s) - 1 /\ Head(s) = s[1]
        /\ \A i \in 1 .. Len(Tail(s)) : Tail(s)[i] = s[i + 1]
    BY HeadTailProperties
  <1>2. \A i \in 1 .. Len(Tail(s)) : i + 1 \in 1 .. Len(s)
    BY <1>1
  <1>3. 1 \in 1 .. Len(s)
    BY <1>1
  <1> QED BY <1>1, <1>2, <1>3 DEF Service!Members

-----------------------------------------------------------------------------
(* The form and its requests                                               *)

\* A request that is answered or fails leaves the others as they are.
LEMMA PostRemoved ==
    ASSUME NEW s \in Seq(PostType), Len(s) <= MaxPosts, NEW i \in DOMAIN s
    PROVE  /\ RemoveAt(s, i) \in Seq(PostType) /\ Len(RemoveAt(s, i)) <= MaxPosts
           /\ \A j \in DOMAIN RemoveAt(s, i) : \E k \in DOMAIN s : RemoveAt(s, i)[j] = s[k]
  <1>1. Len(RemoveAt(s, i)) = Len(s) - 1 /\ Len(s) \in Nat
    BY RemoveAtKeeps
  <1>2. Len(RemoveAt(s, i)) <= MaxPosts
    BY <1>1, MaxPostsAssumption
  <1> QED BY <1>2, RemoveAtKeeps

\* Leaving the form, and leaving the application, give up the requests of the form
\* but keep them all, with what they submitted.
LEMMA PostsMove ==
    ASSUME FormInv
    PROVE  /\ Orphans \in Seq(PostType) /\ Abandoned \in Seq(PostType)
           /\ DOMAIN Orphans = DOMAIN posts /\ DOMAIN Abandoned = DOMAIN posts
           /\ Len(Orphans) <= MaxPosts /\ Len(Abandoned) <= MaxPosts
           /\ \A i \in DOMAIN posts :
                 /\ Orphans[i].owner # "form" /\ Abandoned[i].owner # "form"
                 /\ Sound(Orphans[i], Created) /\ Sound(Abandoned[i], Created)
  <1>1. posts \in Seq(PostType) /\ Len(posts) \in Nat /\ Len(posts) <= MaxPosts
        /\ DOMAIN posts = 1 .. Len(posts)
    BY DEF FormInv, FormTypeOK, PostType, FormType
  <1>2. \A i \in DOMAIN posts : posts[i] \in PostType
    BY <1>1
  <1>3. Orphans \in [1 .. Len(posts) -> PostType] /\ Abandoned \in [1 .. Len(posts) -> PostType]
    BY <1>1, <1>2 DEF Orphans, Abandoned, PostType
  <1>4. \A i \in DOMAIN posts :
           /\ Orphans[i].owner # "form" /\ Abandoned[i].owner # "form"
           /\ Orphans[i].asked = posts[i].asked /\ Orphans[i].private = posts[i].private
           /\ Abandoned[i].asked = posts[i].asked /\ Abandoned[i].private = posts[i].private
           /\ Orphans[i].answer = posts[i].answer /\ Abandoned[i].answer = posts[i].answer
    BY <1>1, <1>2 DEF Orphans, Abandoned, PostType
  <1>5. Len(Orphans) = Len(posts) /\ Len(Abandoned) = Len(posts)
        /\ Orphans \in Seq(PostType) /\ Abandoned \in Seq(PostType)
        /\ DOMAIN Orphans = DOMAIN posts /\ DOMAIN Abandoned = DOMAIN posts
    BY <1>1, <1>3, MappedSeq
  <1>6. \A i \in DOMAIN posts : Sound(posts[i], Created)
    BY DEF FormInv
  <1> QED BY <1>1, <1>4, <1>5, <1>6 DEF Sound

\* A form that is new or gone, and posts that are not its own.
LEMMA NewForms ==
    ASSUME Created \subseteq Created',
           NEW p \in Seq(PostType), Len(p) <= MaxPosts,
           \A i \in DOMAIN p : p[i].owner # "form" /\ Sound(p[i], Created),
           posts' = p, form' \in {NewForm, NoForm}
    PROVE  FormInv'
  <1>1. \A f \in {NewForm, NoForm} : f.switch = "no" /\ f.private = FALSE /\ f \in FormType
    <2>1. NoForm \in FormType /\ NoForm.switch = "no" /\ NoForm.private = FALSE
      BY DEF NoForm, FormType
    <2>2. NewForm \in FormType /\ NewForm.switch = "no" /\ NewForm.private = FALSE
      BY <2>1 DEF NewForm, FormType
    <2> QED BY <2>1, <2>2
  <1> QED BY <1>1 DEF FormInv, FormTypeOK, PostType, FormType, Sound

\* The steps of the form and of its requests, of the service, and of the rest of the
\* client, which can only mount and unmount the form.
LEMMA FormStepKeeps ==
    ASSUME FormInv, [WebNext]_webVars, Created \subseteq Created', created \in Seq(IDs)
    PROVE  FormInv'
  <1>t. /\ form \in FormType
        /\ posts \in Seq(PostType) /\ Len(posts) <= MaxPosts
        /\ Len(posts) \in Nat /\ DOMAIN posts = 1 .. Len(posts)
        /\ \A i \in DOMAIN posts : /\ posts[i] \in PostType
                                   /\ posts[i].owner = "form" => form.on
                                   /\ Sound(posts[i], Created)
        /\ form.switch # "keyed" => (form.private <=> form.switch = "yes")
    <2>1. /\ form \in FormType /\ posts \in Seq(PostType) /\ Len(posts) <= MaxPosts
          /\ \A i \in DOMAIN posts : /\ posts[i].owner = "form" => form.on
                                     /\ Sound(posts[i], Created)
          /\ form.switch # "keyed" => (form.private <=> form.switch = "yes")
      BY DEF FormInv, FormTypeOK, PostType, FormType, Sound
    <2>2. Len(posts) \in Nat /\ DOMAIN posts = 1 .. Len(posts)
          /\ \A i \in DOMAIN posts : posts[i] \in PostType
      BY <2>1
    <2> QED BY <2>1, <2>2
  <1>1. CASE UNCHANGED formVars
    BY <1>1 DEF formVars, FormInv, FormTypeOK, Sound
  <1>2. ASSUME UpdateInput \/ UpdateTarget \/ TogglePrivate \/ KeySwitch PROVE FormInv'
    <2> DEFINE Fits(f) == /\ f \in FormType /\ f.on = form.on
                          /\ f.switch # "keyed" => (f.private <=> f.switch = "yes")
    <2>1. UNCHANGED posts
      BY <1>2 DEF UpdateInput, UpdateTarget, TogglePrivate, KeySwitch
    <2>2. ASSUME UpdateInput \/ UpdateTarget PROVE Fits(form')
      <3>1. PICK b \in BOOLEAN : \/ form' = [form EXCEPT !.input = b]
                                \/ form' = [form EXCEPT !.target = b]
        BY <2>2 DEF UpdateInput, UpdateTarget
      <3> QED BY <1>t, <3>1 DEF FormType
    <2>3. ASSUME TogglePrivate PROVE Fits(form')
      <3>1. form' = [form EXCEPT !.private = ~form.private,
                                 !.switch = CASE form.switch = "no" -> "yes"
                                              [] form.switch = "yes" -> "no"
                                              [] OTHER -> form.switch]
        BY <1>t, <2>3 DEF TogglePrivate, FormType
      <3>2. CASE form.switch = "no"
        <4>1. form' = [form EXCEPT !.private = ~form.private, !.switch = "yes"]
          BY <3>1, <3>2
        <4> QED BY <1>t, <3>2, <4>1 DEF FormType
      <3>3. CASE form.switch = "yes"
        <4>1. form' = [form EXCEPT !.private = ~form.private, !.switch = "no"]
          BY <3>1, <3>3
        <4> QED BY <1>t, <3>3, <4>1 DEF FormType
      <3>4. CASE form.switch = "keyed"
        <4>1. form' = [form EXCEPT !.private = ~form.private, !.switch = "keyed"]
          BY <3>1, <3>4
        <4> QED BY <1>t, <4>1 DEF FormType
      <3> QED BY <1>t, <3>2, <3>3, <3>4 DEF FormType
    <2>4. ASSUME KeySwitch PROVE Fits(form')
      BY <1>t, <2>4 DEF KeySwitch, FormType
    <2>5. Fits(form')
      BY <1>2, <2>2, <2>3, <2>4
    <2> QED BY <1>t, <2>1, <2>5 DEF FormInv, FormTypeOK, PostType, FormType, Sound
  <1>3. CASE HandleSubmit
    <2>1. /\ form.on /\ Len(posts) < MaxPosts /\ posts' = Append(posts, Post)
          /\ form' = [form EXCEPT !.alert = FALSE]
      BY <1>3 DEF HandleSubmit
    <2>2. Post \in PostType /\ Sound(Post, Created)
      <3>1. NoPost \in PostType /\ ~NoPost.asked /\ NoPost.answer = NoAnswer
        BY DEF NoPost, PostType
      <3>2. PICK asked \in BOOLEAN : asked = (form.switch = "yes")
        OBVIOUS
      <3>3. form.private \in BOOLEAN /\ (asked => form.private)
        BY <1>t, <3>2 DEF FormType
      <3>4. Post = NoPost \/ Post = [NoPost EXCEPT !.valid = TRUE, !.private = form.private,
                                                  !.asked = asked]
        BY <3>2 DEF Post
      <3> QED BY <3>1, <3>3, <3>4 DEF PostType, Sound
    <2>3. posts' \in Seq(PostType) /\ Len(posts') = Len(posts) + 1 /\ Len(posts') <= MaxPosts
      <3>1. posts' \in Seq(PostType) /\ Len(posts') = Len(posts) + 1
        BY <1>t, <2>1, <2>2, AppendProperties
      <3> QED BY <1>t, <2>1, <3>1, MaxPostsAssumption
    <2>4. \A i \in DOMAIN posts' : posts'[i] = Post \/ (i \in DOMAIN posts /\ posts'[i] = posts[i])
      <3>1. Len(posts') = Len(posts) + 1 /\ DOMAIN posts' = 1 .. Len(posts')
        BY <2>3
      <3>2. posts'[Len(posts) + 1] = Post /\ \A i \in 1 .. Len(posts) : posts'[i] = posts[i]
        BY <1>t, <2>1, <2>2, AppendProperties
      <3>3. \A i \in DOMAIN posts' : i = Len(posts) + 1 \/ i \in 1 .. Len(posts)
        BY <1>t, <3>1
      <3>4. DOMAIN posts = 1 .. Len(posts)
        BY <1>t
      <3> QED BY <3>2, <3>3, <3>4
    <2>5. form' \in FormType
          /\ form'.on /\ form'.private = form.private /\ form'.switch = form.switch
      BY <1>t, <2>1 DEF FormType
    <2> QED BY <1>t, <2>2, <2>3, <2>4, <2>5 DEF FormInv, FormTypeOK, PostType, FormType, Sound
  <1>4. ASSUME NEW i \in DOMAIN posts, PostFails(i) PROVE FormInv'
    <2>1. /\ posts' = RemoveAt(posts, i)
          /\ form' = [form EXCEPT !.alert = @ \/ posts[i].owner = "form"]
      BY <1>4 DEF PostFails
    <2>2. posts' \in Seq(PostType) /\ Len(posts') <= MaxPosts
          /\ \A j \in DOMAIN posts' : \E k \in DOMAIN posts : posts'[j] = posts[k]
      BY <1>t, <2>1, PostRemoved
    <2>3. form' \in FormType
          /\ form'.on = form.on /\ form'.private = form.private /\ form'.switch = form.switch
      <3>1. PICK alert \in BOOLEAN : form' = [form EXCEPT !.alert = alert]
        BY <1>t, <2>1 DEF FormType
      <3> QED BY <1>t, <3>1 DEF FormType
    <2> QED BY <1>t, <2>2, <2>3 DEF FormInv, FormTypeOK, PostType, FormType, Sound
  <1>5. ASSUME NEW i \in DOMAIN posts, CreateSearch(i) PROVE FormInv'
    <2>1. PICK id \in IDs : PostAccepted(i, id) /\ id \in Created'
      <3>1. PICK id \in IDs : PostAccepted(i, id) /\ created' = Append(created, id)
        BY <1>5 DEF CreateSearch, Service!Create
      <3> QED BY <3>1, MembersAppend DEF Created
    <2>2. UNCHANGED form
      BY <2>1 DEF PostAccepted
    <2>3. CASE posts[i].owner = "none"
      <3>1. posts' = RemoveAt(posts, i)
        BY <2>1, <2>3 DEF PostAccepted
      <3>2. posts' \in Seq(PostType) /\ Len(posts') <= MaxPosts
            /\ \A j \in DOMAIN posts' : \E k \in DOMAIN posts : posts'[j] = posts[k]
        BY <1>t, <3>1, PostRemoved
      <3> QED BY <1>t, <2>2, <3>2 DEF FormInv, FormTypeOK, PostType, FormType, Sound
    <2>4. CASE posts[i].owner # "none"
      <3> DEFINE new == [NoPost EXCEPT !.owner = posts[i].owner, !.answer = id]
      <3>1. posts' = [posts EXCEPT ![i] = new]
        BY <2>1, <2>4 DEF PostAccepted
      <3>2. new \in PostType /\ new.owner = posts[i].owner /\ Sound(new, Created')
        BY <1>t, <2>1 DEF NoPost, PostType, Sound
      <3> HIDE DEF new
      <3>3. posts' \in Seq(PostType) /\ Len(posts') = Len(posts) /\ DOMAIN posts' = DOMAIN posts
        BY <1>t, <3>1, <3>2
      <3>4. \A j \in DOMAIN posts : posts'[j] = IF j = i THEN new ELSE posts[j]
        BY <1>t, <3>1
      <3>5. \A j \in DOMAIN posts' : /\ posts'[j].owner = "form" => form.on
                                     /\ Sound(posts'[j], Created')
        BY <1>t, <3>2, <3>3, <3>4 DEF Sound
      <3> QED BY <1>t, <2>2, <3>3, <3>5 DEF FormInv, FormTypeOK, PostType, FormType, Sound
    <2> QED BY <2>3, <2>4
  <1>6. ASSUME NEW i \in DOMAIN posts, PostAnswered(i) PROVE FormInv'
    <2>1. CASE posts' = RemoveAt(posts, i) /\ UNCHANGED form
      <3>1. posts' \in Seq(PostType) /\ Len(posts') <= MaxPosts
            /\ \A j \in DOMAIN posts' : \E k \in DOMAIN posts : posts'[j] = posts[k]
        BY <1>t, <2>1, PostRemoved
      <3> QED BY <1>t, <2>1, <3>1 DEF FormInv, FormTypeOK, PostType, FormType, Sound
    <2>2. CASE posts' = RemoveAt(Orphans, i) /\ form' \in {NewForm, NoForm}
      <3>1. /\ Orphans \in Seq(PostType) /\ DOMAIN Orphans = DOMAIN posts
            /\ Len(Orphans) \in Nat /\ Len(Orphans) <= MaxPosts
            /\ \A j \in DOMAIN posts : /\ Orphans[j].owner # "form"
                                       /\ Sound(Orphans[j], Created)
        BY PostsMove
      <3>2. posts' \in Seq(PostType) /\ Len(posts') <= MaxPosts
            /\ \A j \in DOMAIN posts' : \E k \in DOMAIN posts : posts'[j] = Orphans[k]
        BY <2>2, <3>1, PostRemoved
      <3> QED BY <2>2, <3>1, <3>2, NewForms
    <2> QED BY <1>6, <2>1, <2>2 DEF PostAnswered, Enter
  <1>7. ASSUME NEW to, FollowLink(to) \/ Open(to) PROVE FormInv'
    <2>1. posts' \in {Orphans, Abandoned} /\ form' \in {NewForm, NoForm}
      BY <1>7 DEF FollowLink, Open, Enter
    <2> QED BY <2>1, PostsMove, NewForms
  <1>8. CASE ServiceStep \/ PageStep \/ TabStep \/ UNCHANGED webVars
    BY <1>1, <1>8 DEF ServiceStep, PageStep, TabStep, OfService, OfPage, webVars, formVars
  <1>9. CASE FormStep
    BY <1>2, <1>3, <1>4, <1>9 DEF FormStep
  <1>10. CASE UserStep
    BY <1>7, <1>10 DEF UserStep
  <1> QED BY <1>5, <1>6, <1>8, <1>9, <1>10 DEF WebNext

-----------------------------------------------------------------------------
(* The service                                                             *)

\* What is once true of a search stays so.
SettledStays ==
    /\ Created \subseteq Created'
    /\ \A id : (Started(id) => Started(id)') /\ (Settled(id) => Settled(id)')

\* The steps of the service: a search waits, is worked on or is done, or is stuck.
LEMMA ServiceStepKeeps ==
    ASSUME ServiceInv, [WebNext]_webVars
    PROVE  ServiceInv' /\ SettledStays
  <1> USE DEF ServiceInv
  <1>c. \A id \in Created : id \in IDs /\ id # NoID
    <2>1. \A i \in 1 .. Len(created) : created[i] \in IDs
      OBVIOUS
    <2> QED BY <2>1, MatchingAssumption DEF Created, Service!Members
  <1>1. CASE UNCHANGED <<created, waiting, active, done, stuck, late>>
    BY <1>1 DEF SettledStays, Started, Settled, Created
  <1>2. ASSUME NEW i, CreateSearch(i) PROVE ServiceInv' /\ SettledStays
    <2>1. PICK id \in IDs : Service!Create(id)
      BY <1>2 DEF CreateSearch
    <2>2. /\ id \notin Created /\ created' = Append(created, id) /\ waiting' = Append(waiting, id)
          /\ UNCHANGED <<active, done, stuck, late>>
      BY <1>2, <2>1 DEF CreateSearch, Service!Create, Created
    <2>3. created' \in Seq(IDs) /\ Created' = Created \cup {id}
      BY <2>2, MembersAppend DEF Created
    <2>4. /\ waiting' \in Seq(IDs)
          /\ Service!Members(waiting)' = Service!Members(waiting) \cup {id}
      BY <2>2, MembersAppend
    <2>5. SettledStays /\ \A x : Started(x) => Started(x)'
      BY <2>2, <2>3, <2>4 DEF SettledStays, Started, Settled
    <2>6. \A j, k \in DOMAIN waiting' : waiting'[j] = waiting'[k] => j = k
      <3>1. /\ Len(waiting') = Len(waiting) + 1 /\ Len(waiting) \in Nat
            /\ \A j \in 1 .. Len(waiting) : waiting'[j] = waiting[j]
            /\ waiting'[Len(waiting) + 1] = id
        BY <2>2, AppendProperties
      <3>2. DOMAIN waiting' = (1 .. Len(waiting)) \cup {Len(waiting) + 1}
            /\ DOMAIN waiting = 1 .. Len(waiting)
        BY <2>4, <3>1
      <3>3. \A j \in 1 .. Len(waiting) : waiting[j] # id
        BY <2>2 DEF Service!Members
      <3> QED BY <3>1, <3>2, <3>3
    <2> QED BY <2>2, <2>3, <2>4, <2>5, <2>6 DEF SettledStays
  <1>3. CASE ServiceStep
    <2>1. CASE ServiceWorks /\ Service!Start
      <3>1. /\ active = NoID /\ waiting # <<>> /\ active' = Head(waiting)
            /\ waiting' = Tail(waiting) /\ UNCHANGED <<created, done>>
        BY <2>1 DEF Service!Start
      <3>2. /\ Head(waiting) \in IDs /\ Tail(waiting) \in Seq(IDs)
            /\ Len(Tail(waiting)) = Len(waiting) - 1
            /\ \A i \in 1 .. Len(Tail(waiting)) : Tail(waiting)[i] = waiting[i + 1]
            /\ Service!Members(Tail(waiting)) \subseteq Service!Members(waiting)
            /\ Head(waiting) \in Service!Members(waiting)
        BY <3>1, MembersTail
      <3>3. Head(waiting) = waiting[1] /\ DOMAIN waiting = 1 .. Len(waiting) /\ Len(waiting) \in Nat \ {0}
            /\ DOMAIN Tail(waiting) = 1 .. Len(Tail(waiting))
        BY <3>1, <3>2
      <3>4. \A i \in 1 .. Len(Tail(waiting)) : i + 1 \in DOMAIN waiting /\ i + 1 # 1
        BY <3>2, <3>3
      <3>5. Head(waiting) \notin Service!Members(Tail(waiting))
        BY <3>2, <3>3, <3>4 DEF Service!Members
      <3>6. \A i, j \in DOMAIN Tail(waiting) : Tail(waiting)[i] = Tail(waiting)[j] => i = j
        <4> SUFFICES ASSUME NEW i \in 1 .. Len(Tail(waiting)), NEW j \in 1 .. Len(Tail(waiting)),
                            Tail(waiting)[i] = Tail(waiting)[j]
                     PROVE  i = j
          BY <3>3
        <4>1. i + 1 = j + 1
          BY <3>2, <3>4
        <4> QED BY <4>1
      <3>7. UNCHANGED Created
        BY <3>1 DEF Created
      <3>8. \A x : Started(x) => Started(x)' /\ x # Head(waiting)
        BY <3>1, <3>2, <3>7 DEF Started
      <3>9. SettledStays /\ Started(active)'
        BY <3>1, <3>2, <3>5, <3>7, <3>8 DEF SettledStays, Started, Settled
      <3>10. UNCHANGED <<stuck, late>>
        BY <2>1 DEF ServiceWorks
      <3> QED BY <3>1, <3>2, <3>6, <3>7, <3>9, <3>10 DEF SettledStays
    <2>2. CASE ServiceWorks /\ ~Service!Start
      <3>1. /\ active # NoID /\ done' = done \cup {active} /\ active' = NoID
            /\ UNCHANGED <<created, waiting, stuck, late>>
        BY <2>2 DEF ServiceWorks, Service!Finish
      <3>2. UNCHANGED Created /\ \A id : Started(id) => Started(id)' /\ Settled(id)'
        BY <1>c, <3>1 DEF Started, Settled, Created
      <3> QED BY <3>1, <3>2 DEF SettledStays, Settled
    <2>3. CASE ServiceFails
      <3>1. /\ active # NoID /\ active' = NoID /\ UNCHANGED <<created, waiting, done>>
            /\ (stuck \cup late)' = stuck \cup late \cup {active}
        BY <2>3 DEF ServiceFails, Service!Fail
      <3>2. UNCHANGED Created /\ \A id : Started(id) => Started(id)' /\ Settled(id)'
        BY <1>c, <3>1 DEF Started, Settled, Created
      <3> QED BY <3>1, <3>2 DEF SettledStays, Settled
    <2>4. CASE ServiceRestarts
      <3>1. /\ waiting' = <<>> /\ active' = NoID /\ stuck' = {} /\ late' = {}
            /\ UNCHANGED <<created, done>>
        BY <2>4 DEF ServiceRestarts, Service!Restart
      <3>2. <<>> \in Seq(IDs) /\ DOMAIN <<>> = {} /\ Service!Members(<<>>) = {}
        BY DEF Service!Members
      <3> QED BY <1>c, <3>1, <3>2 DEF SettledStays, Started, Settled, Created
    <2> QED BY <1>3, <2>1, <2>2, <2>3, <2>4 DEF ServiceStep, OfService
  <1>4. CASE FormStep \/ PageStep \/ TabStep \/ UserStep \/ UNCHANGED webVars
    BY <1>1, <1>4 DEF FormStep, PageStep, OfPage, TabStep, UserStep, FollowLink, Open,
                      serviceVars, webVars
  <1>5. ASSUME NEW i, PostAnswered(i) PROVE ServiceInv' /\ SettledStays
    BY <1>1, <1>5 DEF PostAnswered, serviceVars
  <1> QED BY <1>2, <1>3, <1>4, <1>5 DEF WebNext

-----------------------------------------------------------------------------
(* The tab and its pages                                                   *)

PageType == [fetch : {"idle", "loading", "error", "shown"}, ids : SUBSET Created]

\* The places a user goes to.
Places == Static \cup {Search(id) : id \in Created}

\* What a path names, and that only a search page names a search.
LEMMA PlacesAre ==
    \A to \in Places : /\ to.page = "search" => to.id \in Created /\ to = Search(to.id)
                       /\ to.page \in {"home", "searches", "repos", "search",
                                       "about", "examples", "notfound"}
  BY DEF Places, Static, ListPages, At, Search, About, Examples, NotFoundPage

\* A page that is entered lists nothing yet, and throws for want of match only.
LEMMA EnterKeeps ==
    ASSUME TabInv, NEW to \in Places, UNCHANGED serviceVars,
           path' = to, page' = NewPage(to), form' = IF to.page = "home" THEN NewForm ELSE NoForm,
           crashed' \in BOOLEAN, crashed' <=> to.page = "search" /\ ~HasMatch
    PROVE  TabInv'
  <1>1. UNCHANGED <<Created, hidden, exposed>>
    BY DEF serviceVars, Created
  <1>2. path' \in Places'
    BY <1>1 DEF Places
  <1>3. page' \in PageType /\ page'.ids = {}
    BY DEF NewPage, NoPage, PageType
  <1>4. form'.on <=> path'.page = "home"
    BY DEF NewForm, NoForm
  <1> QED BY <1>1, <1>2, <1>3, <1>4 DEF TabInv, PageType, Places

\* The steps of the tab, and those of the form that lead it to another page.
LEMMA TabStepKeeps ==
    ASSUME TabInv, FormInv, ServiceInv, [WebNext]_webVars, SettledStays
    PROVE  TabInv'
  <1>t. /\ path \in Places /\ page \in PageType
        /\ hidden \subseteq Created /\ exposed = {} /\ page.ids \cap hidden = {}
        /\ form.on <=> path.page = "home"
        /\ crashed \in BOOLEAN /\ (crashed <=> path.page = "search" /\ ~HasMatch)
    BY DEF TabInv, Places, PageType
  <1>c. Created \subseteq Created'
    BY DEF SettledStays
  <1>p. path \in Places' /\ page \in PageType'
    BY <1>c, <1>t DEF Places, PageType
  <1>1. CASE UNCHANGED <<tabVars, hidden, exposed>> /\ form'.on = form.on
    BY <1>1, <1>t, <1>c, <1>p DEF TabInv, tabVars, Places, PageType
  <1>2. CASE ServiceStep \/ PageStep \/ UNCHANGED webVars
    BY <1>1, <1>2 DEF ServiceStep, OfService, ServiceWorks, ServiceFails, ServiceRestarts,
                      PageStep, OfPage, webVars, serviceVars, formVars, tabVars
  <1>3. CASE FormStep
    <2>1. UNCHANGED <<tabVars, hidden, exposed>>
      BY <1>3 DEF FormStep, serviceVars, tabVars
    <2>2. form'.on = form.on
      <3>1. form \in FormType
        BY DEF FormInv, FormTypeOK, FormType
      <3> QED BY <1>3, <3>1 DEF FormStep, UpdateInput, UpdateTarget, TogglePrivate, KeySwitch,
                                HandleSubmit, PostFails, FormType
    <2> QED BY <1>1, <2>1, <2>2
  <1>4. ASSUME NEW i \in DOMAIN posts, CreateSearch(i) PROVE TabInv'
    <2>1. PICK id \in IDs :
            /\ PostAccepted(i, id) /\ Service!Create(id)
            /\ hidden' = IF posts[i].private THEN hidden \cup {id} ELSE hidden
            /\ exposed' = IF posts[i].asked /\ ~posts[i].private THEN exposed \cup {id} ELSE exposed
            /\ UNCHANGED <<stuck, late, tabVars, searchVars>>
      BY <1>4 DEF CreateSearch
    <2>2. id \notin Created /\ Created' = Created \cup {id}
      BY <2>1, MembersAppend DEF Service!Create, Created, ServiceInv
    <2>3. exposed' = {}
      BY <1>t, <2>1 DEF FormInv, Sound
    <2>4. hidden' \subseteq Created' /\ page.ids \cap hidden' = {}
      BY <1>t, <2>1, <2>2 DEF PageType
    <2>5. UNCHANGED <<form, path, page, crashed>>
      BY <2>1 DEF PostAccepted, tabVars
    <2> QED BY <1>t, <1>p, <2>3, <2>4, <2>5 DEF TabInv, Places, PageType
  <1>5. CASE TabStep
    <2>1. UNCHANGED <<created, hidden, exposed, form, path>>
      BY <1>5 DEF TabStep, serviceVars, formVars, LatestAnswered, SearchesAnswered,
                  ReposAnswered, PageFails, ShowSearches
    <2>2. CASE ShowSearches /\ path.page # "search"
      <3>1. Listed \subseteq Created /\ Listed \cap hidden = {}
        BY DEF Listed, ServiceInv, Settled, Started
      <3>2. PICK how \in {"error", "shown"} :
              page' = [fetch |-> how, ids |-> Listed] /\ crashed' = crashed
        BY <2>2 DEF ShowSearches, Content
      <3>3. page' \in PageType /\ page'.ids = Listed
        BY <3>1, <3>2 DEF PageType
      <3> QED BY <1>t, <2>1, <3>1, <3>2, <3>3 DEF TabInv, Places, PageType, Created
    <2>3. CASE ReposAnswered \/ PageFails
      <3>1. PICK how \in {"error", "shown"} : page' = [page EXCEPT !.fetch = how]
        BY <2>3 DEF ReposAnswered, PageFails
      <3>2. page' \in PageType /\ page'.ids = page.ids
        BY <1>t, <3>1 DEF PageType
      <3>3. crashed' = crashed
        BY <2>3 DEF ReposAnswered, PageFails
      <3> QED BY <1>t, <2>1, <3>2, <3>3 DEF TabInv, Places, PageType, Created
    <2> QED BY <1>5, <2>2, <2>3 DEF TabStep, LatestAnswered, SearchesAnswered
  <1>6. ASSUME NEW to \in Places, FollowLink(to) \/ Open(to) PROVE TabInv'
    <2>1. crashed' \in BOOLEAN /\ (crashed' <=> to.page = "search" /\ ~HasMatch)
      BY <1>6, <1>t DEF FollowLink, Open, Enter, Mounts
    <2> QED BY <1>6, <2>1, EnterKeeps DEF FollowLink, Open, Enter
  <1>7. ASSUME NEW i \in DOMAIN posts, PostAnswered(i) PROVE TabInv'
    <2> DEFINE to == Search(posts[i].answer)
    <2>1. CASE to = path
      BY <1>1, <1>7, <2>1 DEF PostAnswered, serviceVars
    <2>2. CASE to # path
      <3>1. posts[i].answer \in Created /\ to \in Places
        BY <1>7 DEF PostAnswered, FormInv, Sound, Places
      <3>2. Enter(to) /\ UNCHANGED serviceVars
        BY <1>7, <2>2 DEF PostAnswered
      <3> HIDE DEF to
      <3>3. crashed' \in BOOLEAN /\ (crashed' <=> to.page = "search" /\ ~HasMatch)
        BY <1>7, <1>t, <3>2 DEF PostAnswered, Enter, Mounts
      <3> QED BY <3>1, <3>2, <3>3, EnterKeeps DEF Enter
    <2> QED BY <2>1, <2>2
  <1>8. CASE UserStep
    BY <1>6, <1>8 DEF UserStep, Places
  <1> QED BY <1>2, <1>3, <1>4, <1>5, <1>7, <1>8 DEF WebNext

-----------------------------------------------------------------------------
(* Bags                                                                    *)

IsBag(B) == IsFiniteSet(DOMAIN B) /\ B \in [DOMAIN B -> Nat \ {0}]

\* A request that is sent: one more poll, whether or not one like it was there.
LEMMA BagAdded ==
    ASSUME NEW B, IsBag(B), NEW x
    PROVE  /\ IsBag((B (+) SetToBag({x}))) /\ DOMAIN (B (+) SetToBag({x})) = DOMAIN B \cup {x}
           /\ SumFunction(B) \in Nat /\ SumFunction((B (+) SetToBag({x}))) = SumFunction(B) + 1
  <1> DEFINE D == DOMAIN B
             A == (B (+) SetToBag({x}))
             E == D \cup {x}
  <1>1. IsFiniteSet(D) /\ IsFiniteSet(E) /\ \A y \in D : B[y] \in Nat \ {0}
    <2>1. IsFiniteSet(D) /\ B \in [D -> Nat \ {0}]
      BY DEF IsBag
    <2> QED BY <2>1, FS_AddElement
  <1>a. /\ A = [e \in E |-> A[e]]
        /\ A[x] = (IF x \in D THEN B[x] ELSE 0) + 1
        /\ \A y \in D \ {x} : A[y] = B[y]
    <2>1. A = [e \in E |-> (IF e \in D THEN B[e] ELSE 0) + (IF e \in {x} THEN 1 ELSE 0)]
      BY DEF (+), SetToBag
    <2> HIDE DEF A
    <2> QED BY <1>1, <2>1
  <1>2. CASE x \in D
    <2>1. E = D
      BY <1>2
    <2>2. DOMAIN A = D /\ A \in [D -> Nat \ {0}] /\ A[x] = B[x] + 1 /\ \A y \in D \ {x} : A[y] = B[y]
      <3> HIDE DEF A, D, E
      <3>1. \A y \in D : A[y] \in Nat \ {0}
        BY <1>1, <1>2, <1>a
      <3> QED BY <1>2, <1>a, <2>1, <3>1
    <2> HIDE DEF A, D
    <2>3. /\ SumFunctionOnSet(A, D) = SumFunctionOnSet(B, D) + A[x] - B[x]
          /\ SumFunctionOnSet(B, D) \in Nat
      BY <1>1, <1>2, <2>2, SumChange, SumOfSet
    <2>4. SumFunctionOnSet(A, D) = SumFunctionOnSet(B, D) + 1 /\ D = DOMAIN B
      BY <1>1, <1>2, <2>2, <2>3 DEF D
    <2> QED BY <1>1, <1>2, <2>2, <2>3, <2>4 DEF IsBag, SumFunction, A
  <1>3. CASE x \notin D
    <2>2. /\ DOMAIN A = E /\ A \in [E -> Nat \ {0}] /\ A[x] = 1 /\ \A y \in D : A[y] = B[y]
          /\ \A y \in E : A[y] \in Nat
      BY <1>1, <1>3, <1>a
    <2>3. x \in E /\ E \ {x} = D
      BY <1>3
    <2> HIDE DEF A, D, E
    <2>4. SumFunctionOnSet(A, E) = A[x] + SumFunctionOnSet(A, E \ {x})
      BY <1>1, <2>2, <2>3, SumOfSet
    <2>5. SumFunctionOnSet(A, D) = SumFunctionOnSet(B, D) /\ SumFunctionOnSet(B, D) \in Nat
      BY <1>1, <2>2, SumSame, SumOfSet
    <2>6. SumFunctionOnSet(A, E) = SumFunctionOnSet(B, D) + 1 /\ D = DOMAIN B
      BY <2>2, <2>3, <2>4, <2>5 DEF D
    <2> QED BY <1>1, <2>2, <2>5, <2>6 DEF IsBag, SumFunction, A, E
  <1> QED BY <1>2, <1>3

\* A request that is answered or lost: one poll less.
LEMMA BagRemoved ==
    ASSUME NEW B, IsBag(B), NEW x \in DOMAIN B
    PROVE  /\ IsBag((B (-) SetToBag({x}))) /\ DOMAIN (B (-) SetToBag({x})) \subseteq DOMAIN B
           /\ SumFunction(B) \in Nat /\ SumFunction((B (-) SetToBag({x}))) = SumFunction(B) - 1
  <1> DEFINE D == DOMAIN B
             A == (B (-) SetToBag({x}))
             E == D \ {x}
             F == DOMAIN A
  <1>1. IsFiniteSet(D) /\ IsFiniteSet(E) /\ \A y \in D : B[y] \in Nat \ {0}
    <2>1. IsFiniteSet(D) /\ B \in [D -> Nat \ {0}]
      BY DEF IsBag
    <2> QED BY <2>1, FS_RemoveElement
  <1>a. /\ F = {e \in D : e # x \/ B[x] # 1} /\ A = [e \in F |-> A[e]]
        /\ \A y \in F : A[y] = IF y = x THEN B[y] - 1 ELSE B[y]
    <2> DEFINE C == [e \in D |-> IF e \in {x} THEN B[e] - 1 ELSE B[e]]
    <2>1. A = [e \in {d \in D : C[d] > 0} |-> C[e]]
      BY DEF (-), SetToBag
    <2>2. {d \in D : C[d] > 0} = {e \in D : e # x \/ B[x] # 1}
      BY <1>1
    <2> HIDE DEF A
    <2> QED BY <1>1, <2>1, <2>2
  <1>2. CASE B[x] # 1
    <2>1. F = D
      BY <1>1, <1>2, <1>a
    <2>2. DOMAIN A = D /\ A \in [D -> Nat \ {0}] /\ A[x] = B[x] - 1 /\ \A y \in D \ {x} : A[y] = B[y]
      BY <1>1, <1>2, <1>a, <2>1
    <2>x. x \in D
      OBVIOUS
    <2> HIDE DEF A, D
    <2>3. /\ SumFunctionOnSet(A, D) = SumFunctionOnSet(B, D) + A[x] - B[x]
          /\ SumFunctionOnSet(B, D) \in Nat
      BY <1>1, <2>2, <2>x, SumChange, SumOfSet
    <2>4. SumFunctionOnSet(A, D) = SumFunctionOnSet(B, D) - 1 /\ D = DOMAIN B
      BY <1>1, <2>2, <2>3, <2>x DEF D
    <2> QED BY <1>1, <2>2, <2>3, <2>4 DEF IsBag, SumFunction, A
  <1>3. CASE B[x] = 1
    <2>1. F = E
      BY <1>1, <1>3, <1>a
    <2>2. DOMAIN A = E /\ A \in [E -> Nat \ {0}] /\ \A y \in E : A[y] = B[y]
      BY <1>1, <1>a, <2>1
    <2>x. x \in D
      OBVIOUS
    <2>3. SumFunctionOnSet(B, D) = B[x] + SumFunctionOnSet(B, E) /\ SumFunctionOnSet(B, D) \in Nat
      <3> HIDE DEF D
      <3> QED BY <1>1, <2>x, SumOfSet
    <2> HIDE DEF A, D, E
    <2>4. SumFunctionOnSet(A, E) = SumFunctionOnSet(B, E) /\ SumFunctionOnSet(B, E) \in Nat
      <3>1. \A y \in E : B[y] \in Nat
        BY <2>2
      <3> QED BY <1>1, <2>2, <3>1, SumSame, SumOfSet
    <2>5. SumFunctionOnSet(A, E) = SumFunctionOnSet(B, D) - 1 /\ D = DOMAIN B
      BY <1>3, <2>3, <2>4 DEF D
    <2> QED BY <1>1, <2>2, <2>3, <2>5 DEF IsBag, SumFunction, A, E, D
  <1> QED BY <1>2, <1>3

\* The bag of no polls, and the one of a first poll.
LEMMA SmallBags ==
    /\ IsBag(EmptyBag) /\ DOMAIN EmptyBag = {} /\ SumFunction(EmptyBag) = 0
    /\ \A x : /\ IsBag(SetToBag({x})) /\ DOMAIN SetToBag({x}) = {x}
              /\ SumFunction(SetToBag({x})) = 1
  <1>1. DOMAIN EmptyBag = {} /\ EmptyBag \in [{} -> Nat \ {0}]
    BY DEF EmptyBag, SetToBag
  <1>2. IsBag(EmptyBag) /\ SumFunction(EmptyBag) = 0
    <2>1. IsFiniteSet({})
      BY FS_EmptySet
    <2>2. SumFunctionOnSet(EmptyBag, {}) = 0
      BY <2>1, SumUnfold
    <2> QED BY <1>1, <2>1, <2>2 DEF IsBag, SumFunction
  <1>3. ASSUME NEW x PROVE /\ IsBag(SetToBag({x})) /\ DOMAIN SetToBag({x}) = {x}
                           /\ SumFunction(SetToBag({x})) = 1
    <2>1. EmptyBag (+) SetToBag({x}) = SetToBag({x})
      <3>1. EmptyBag (+) SetToBag({x}) = [e \in {x} |-> 0 + 1]
        BY DEF (+), EmptyBag, SetToBag
      <3> QED BY <3>1 DEF SetToBag
    <2>2. DOMAIN SetToBag({x}) = {x}
      BY DEF SetToBag
    <2>3. IsBag(EmptyBag (+) SetToBag({x})) /\ SumFunction(EmptyBag (+) SetToBag({x})) = 0 + 1
      BY <1>2, BagAdded
    <2> QED BY <2>1, <2>2, <2>3
  <1> QED BY <1>1, <1>2, <1>3

-----------------------------------------------------------------------------
(* The page of a search                                                    *)

\* What the server answers is true.
LEMMA AnswersAreTrue ==
    ASSUME ServiceInv, NEW id \in IDs
    PROVE  /\ StatusOf(id) \in {0, 1, 2, NotFound}
           /\ id \in Created => /\ StatusOf(id) = 1 => Started(id)
                                /\ StatusOf(id) = 2 => Settled(id)
  <1>1. id # NoID
    BY MatchingAssumption
  <1>2. CASE id \in Service!Members(waiting)
    <2>1. id # active /\ id \notin done \cup stuck \cup late
      BY <1>1, <1>2 DEF ServiceInv, Started, Settled
    <2>2. StatusOf(id) = 0
      BY <1>2, <2>1 DEF StatusOf
    <2> QED BY <2>2
  <1>3. CASE id \notin Service!Members(waiting)
    <2>1. id \in Created => Started(id)
      BY <1>3 DEF Started
    <2>2. StatusOf(id) \in {1, 2, NotFound}
      BY <1>3 DEF StatusOf
    <2>3. id \in done \cup stuck \cup late => Settled(id)
      BY DEF ServiceInv
    <2>4. StatusOf(id) = 2 => id \in done \cup late
      BY <1>3 DEF StatusOf, NotFound
    <2> QED BY <2>1, <2>2, <2>3, <2>4
  <1> QED BY <1>2, <1>3

\* What is rendered beside the state: its table and its intervals.
LEMMA StateSet ==
    ASSUME search \in SearchType, NEW s \in SearchType, SetState(s)
    PROVE  /\ search' \in SearchType
           /\ search'.on = s.on /\ search'.id = s.id /\ search'.status = s.status
           /\ search'.moved = s.moved
           /\ search'.table \in {NoID, search.table, s.id}
           /\ s.loading \/ ~s.on => search' = [s EXCEPT !.table = NoID]
           /\ timers' \subseteq {"queue", "update", "tick", "message"}
           /\ ~s.on => timers' = {}
  <1>1. search' = [s EXCEPT !.table = Table(s)] /\ timers' = PageTimers(s) \cup BlockTimers(s)
    BY DEF SetState
  <1>2. Table(s) \in {NoID, search.table, s.id}
    BY DEF Table
  <1>3. Table(s) \in IDs \cup {NoID}
    BY <1>2 DEF SearchType
  <1>4. s.loading \/ ~s.on => Overview(s) = "none"
    BY DEF Overview, Ready
  <1>5. s.loading \/ ~s.on => Table(s) = NoID
    BY <1>4 DEF Table, ShowsSummary
  <1>6. timers' \subseteq {"queue", "update", "tick", "message"}
    BY <1>1 DEF PageTimers, BlockTimers
  <1>7. ~s.on => timers' = {}
    BY <1>1, <1>4 DEF PageTimers, BlockTimers, ShowsProgress
  <1> QED BY <1>1, <1>2, <1>3, <1>5, <1>6, <1>7 DEF SearchType

\* A poll of the page as it is stays true, whatever the service does.
LEMMA PollStays ==
    ASSUME SettledStays, NEW p, PollInv(p),
           search'.moved \/ UNCHANGED <<path, search.moved>>
    PROVE  PollInv(p)'
  BY DEF PollInv, SettledStays

\* So does what the page says, while the page and its address stay.
LEMMA PageStays ==
    ASSUME SearchInv, PollsInv, SettledStays, UNCHANGED <<path, searchVars>>,
           path.page = "search" => crashed' = crashed
    PROVE  SearchInv' /\ PollsInv'
  <1>1. \A p \in DOMAIN polls : PollInv(p)'
    BY PollStays DEF PollsInv, searchVars
  <1>2. PollsInv'
    BY <1>1 DEF PollsInv, searchVars
  <1> QED BY <1>2 DEF SearchInv, SettledStays, searchVars

\* A page that is mounted asks for the search in its address.
LEMMA PageMounts ==
    ASSUME SearchInv, NEW id \in Created, id \in IDs, Created \subseteq Created',
           MountSearch(id), path' = Search(id)
    PROVE  SearchInv' /\ PollsInv'
  <1> DEFINE s == [NoSearch EXCEPT !.on = TRUE, !.loading = TRUE]
  <1>1. /\ s \in SearchType /\ s.on /\ s.loading /\ s.status = NoStatus /\ s.id = NoID
        /\ ~s.moved /\ s.table = NoID
    BY DEF NoSearch, SearchType, NoStatus
  <1>2. SetState(s) /\ polls' = SetToBag({Poll(id)})
    BY DEF MountSearch
  <1> HIDE DEF s
  <1>3. /\ search' \in SearchType /\ search'.on = s.on /\ search'.id = s.id
        /\ search'.status = s.status /\ search'.moved = s.moved
        /\ search' = [s EXCEPT !.table = NoID]
        /\ timers' \subseteq {"queue", "update", "tick", "message"}
    BY <1>1, <1>2, StateSet DEF SearchInv
  <1>4. search'.table = NoID
    BY <1>1, <1>3 DEF SearchType
  <1>5. path'.page = "search" /\ path'.id = id
    BY DEF Search
  <1>6. SearchInv'
    BY <1>1, <1>3, <1>4, <1>5 DEF SearchInv, NoStatus
  <1>7. Poll(id) \in PollType /\ Poll(id).of = id /\ Poll(id).answer \notin {1, 2}
    BY DEF Poll, PollType, Waiting
  <1>8. PollInv(Poll(id))'
    BY <1>5, <1>7 DEF PollInv
  <1>9. IsBag(polls)' /\ DOMAIN polls' = {Poll(id)} /\ SumFunction(polls') = 1
    BY <1>2, SmallBags
  <1>10. PollsInv'
    BY <1>8, <1>9, MaxPollsAssumption DEF PollsInv, IsBag
  <1> QED BY <1>6, <1>10

\* No page, no polls.
LEMMA PageLeaves ==
    ASSUME SearchInv, UnmountSearch, path'.page # "search" \/ crashed'
    PROVE  SearchInv' /\ PollsInv'
  <1>1. NoSearch \in SearchType /\ ~NoSearch.on
    BY DEF NoSearch, SearchType, NoStatus
  <1>2. SetState(NoSearch) /\ polls' = EmptyBag
    BY DEF UnmountSearch
  <1>3. search' = [NoSearch EXCEPT !.table = NoID] /\ timers' = {}
    BY <1>1, <1>2, StateSet DEF SearchInv
  <1>4. search' = NoSearch
    BY <1>3 DEF NoSearch
  <1>5. NoSearch.status = NoStatus /\ NoSearch.id = NoID /\ NoSearch.table = NoID
    BY DEF NoSearch
  <1>6. IsBag(polls)' /\ DOMAIN polls' = {} /\ SumFunction(polls') = 0
    BY <1>2, SmallBags
  <1>7. PollsInv'
    BY <1>6, MaxPollsAssumption DEF PollsInv, IsBag
  <1> QED BY <1>1, <1>3, <1>4, <1>5, <1>6, <1>7 DEF SearchInv, NoStatus

\* The page of one search that is given the address of another.
LEMMA PageMoves ==
    ASSUME SearchInv, PollsInv, SettledStays, search.on, MoveSearch,
           path'.page = "search"
    PROVE  SearchInv' /\ PollsInv'
  <1> DEFINE s == [search EXCEPT !.moved = TRUE]
  <1>1. /\ s \in SearchType /\ s.on /\ s.status = search.status /\ s.id = search.id
        /\ s.moved
    BY DEF SearchInv, SearchType
  <1>2. SetState(s) /\ UNCHANGED polls
    BY DEF MoveSearch
  <1> HIDE DEF s
  <1>3. /\ search' \in SearchType /\ search'.on = s.on /\ search'.id = s.id
        /\ search'.status = s.status /\ search'.moved = s.moved
        /\ timers' \subseteq {"queue", "update", "tick", "message"}
    BY <1>1, <1>2, StateSet DEF SearchInv
  <1>4. SearchInv'
    BY <1>1, <1>3 DEF SearchInv, SettledStays
  <1>5. PollsInv'
    BY <1>1, <1>2, <1>3, PollStays DEF PollsInv
  <1> QED BY <1>4, <1>5

\* A tick asks for the search in the address, within the bound.
LEMMA TickKeeps ==
    ASSUME SearchInv, PollsInv, SettledStays, path \in Places, Created \subseteq IDs,
           QueueTick(path.id) \/ UpdateTick(path.id), UNCHANGED <<path, crashed>>
    PROVE  SearchInv' /\ PollsInv'
  <1> DEFINE q == Poll(path.id)
  <1>1. /\ SumFunction(polls) < MaxPolls /\ polls' = polls (+) SetToBag({q})
        /\ UNCHANGED <<search, timers>> /\ timers # {}
    BY DEF QueueTick, UpdateTick, FetchData
  <1>2. search.on /\ path.id \in Created
    BY <1>1, PlacesAre DEF SearchInv
  <1>3. q \in PollType /\ q.of = path.id /\ q.answer \notin {1, 2}
    BY <1>2 DEF Poll, PollType, Waiting
  <1> HIDE DEF q
  <1>4. PollInv(q)
    BY <1>2, <1>3 DEF PollInv
  <1>5. /\ IsBag(polls') /\ DOMAIN polls' = DOMAIN polls \cup {q}
        /\ SumFunction(polls) \in Nat /\ SumFunction(polls') = SumFunction(polls) + 1
    BY <1>1, BagAdded DEF PollsInv, IsBag
  <1>6. SumFunction(polls') <= MaxPolls
    BY <1>1, <1>5, MaxPollsAssumption
  <1>7. \A p \in DOMAIN polls' : PollInv(p)'
    BY <1>1, <1>4, <1>5, PollStays DEF PollsInv
  <1>8. SearchInv'
    BY <1>1, <1>2 DEF SearchInv, SettledStays
  <1> QED BY <1>5, <1>6, <1>7, <1>8 DEF PollsInv, IsBag

\* The server answers a poll with what is true of the search it is of.
LEMMA AnswerKeeps ==
    ASSUME SearchInv, PollsInv, ServiceInv, SettledStays, NEW p \in DOMAIN polls, Answer(p),
           UNCHANGED <<path, crashed>>
    PROVE  SearchInv' /\ PollsInv'
  <1> DEFINE a == [p EXCEPT !.answer = StatusOf(p.of)]
             B == polls (-) SetToBag({p})
  <1>1. /\ StatusOf(p.of) # NotFound /\ polls' = B (+) SetToBag({a})
        /\ UNCHANGED <<search, timers>>
    BY DEF Answer, ServerAnswers
  <1>2. PollInv(p) /\ search.on
    BY DEF PollsInv, SearchInv
  <1>3. /\ StatusOf(p.of) \in {0, 1, 2}
        /\ StatusOf(p.of) = 1 => Started(p.of)
        /\ StatusOf(p.of) = 2 => Settled(p.of)
    BY <1>1, <1>2, AnswersAreTrue DEF PollInv, PollType
  <1>4. a \in PollType /\ a.of = p.of /\ a.answer = StatusOf(p.of)
    BY <1>2, <1>3 DEF PollInv, PollType
  <1> HIDE DEF a
  <1>5. PollInv(a)
    BY <1>2, <1>3, <1>4 DEF PollInv
  <1>6. /\ IsBag(B) /\ DOMAIN B \subseteq DOMAIN polls
        /\ SumFunction(polls) \in Nat /\ SumFunction(B) = SumFunction(polls) - 1
    BY BagRemoved DEF PollsInv, IsBag
  <1> HIDE DEF B
  <1>7. /\ IsBag(polls') /\ DOMAIN polls' = DOMAIN B \cup {a}
        /\ SumFunction(polls') = SumFunction(B) + 1
    BY <1>1, <1>6, BagAdded
  <1>8. SumFunction(polls') <= MaxPolls
    BY <1>6, <1>7 DEF PollsInv
  <1>9. \A q \in DOMAIN polls' : PollInv(q)'
    BY <1>1, <1>5, <1>6, <1>7, PollStays DEF PollsInv
  <1>10. SearchInv'
    BY <1>1, <1>2 DEF SearchInv, SettledStays
  <1> QED BY <1>7, <1>8, <1>9, <1>10 DEF PollsInv, IsBag

\* A poll that is over gives the page a new state: that of its answer, or an error.
LEMMA PollEnds ==
    ASSUME SearchInv, PollsInv, SettledStays, NEW p \in DOMAIN polls,
           DeliverPoll(p, path.id) \/ PollFails(p), UNCHANGED <<path, crashed>>
    PROVE  SearchInv' /\ PollsInv'
  <1>1. PollInv(p) /\ search.on /\ search \in SearchType
    BY DEF PollsInv, SearchInv
  <1>2. PICK s \in SearchType :
          /\ SetState(s) /\ s.on /\ s.moved = search.moved
          /\ \/ s.id = search.id /\ s.status = search.status
             \/ s.id = p.of /\ s.status = p.answer
    <2>1. CASE DeliverPoll(p, path.id)
      <3> DEFINE s == [search EXCEPT !.id = p.of, !.status = p.answer, !.loading = FALSE]
      <3>1. SetState(s) /\ p.answer \in {0, 1, 2} /\ p.of \in IDs
        BY <1>1, <2>1 DEF DeliverPoll, PollInv, PollType
      <3>2. s \in SearchType /\ s.on /\ s.moved = search.moved /\ s.id = p.of /\ s.status = p.answer
        BY <1>1, <3>1 DEF SearchType
      <3> QED BY <3>1, <3>2
    <2>2. CASE PollFails(p)
      <3> DEFINE s == [search EXCEPT !.error = TRUE, !.loading = FALSE]
      <3>1. SetState(s)
        BY <2>2 DEF PollFails
      <3>2. /\ s \in SearchType /\ s.on /\ s.moved = search.moved
            /\ s.id = search.id /\ s.status = search.status
        BY <1>1 DEF SearchType
      <3> QED BY <3>1, <3>2
    <2> QED BY <2>1, <2>2
  <1>3. /\ search' \in SearchType /\ search'.on = s.on /\ search'.id = s.id
        /\ search'.status = s.status /\ search'.moved = s.moved
        /\ search'.table \in {NoID, search.table, s.id}
        /\ timers' \subseteq {"queue", "update", "tick", "message"}
    BY <1>1, <1>2, StateSet
  <1>4. /\ s.status = 1 => Started(s.id)
        /\ s.status = 2 => Settled(s.id)
        /\ ~s.moved => {s.id, search.table} \subseteq {path.id, NoID}
    BY <1>1, <1>2 DEF SearchInv, PollInv
  <1>5. SearchInv'
    BY <1>1, <1>2, <1>3, <1>4 DEF SearchInv, SettledStays
  <1>6. polls' = polls (-) SetToBag({p})
    BY DEF DeliverPoll, PollFails
  <1>7. /\ IsBag(polls') /\ DOMAIN polls' \subseteq DOMAIN polls
        /\ SumFunction(polls) \in Nat /\ SumFunction(polls') = SumFunction(polls) - 1
    BY <1>6, BagRemoved DEF PollsInv, IsBag
  <1>8. SumFunction(polls') <= MaxPolls
    BY <1>7, MaxPollsAssumption DEF PollsInv
  <1>9. \A q \in DOMAIN polls' : PollInv(q)'
    BY <1>2, <1>3, <1>7, PollStays DEF PollsInv
  <1> QED BY <1>5, <1>7, <1>8, <1>9 DEF PollsInv, IsBag

\* Wherever the user goes, the page of the search he leaves or finds is what it
\* should be.
LEMMA EnterPage ==
    ASSUME SearchInv, PollsInv, TabInv, SettledStays, UNCHANGED Created, Created \subseteq IDs,
           ~crashed, NEW to \in Places, Enter(to)
    PROVE  SearchInv' /\ PollsInv'
  <1>1. path' = to /\ crashed' = (Mounts(to) /\ ~HasMatch)
    BY DEF Enter
  <1>2. CASE to.page # "search" \/ crashed'
    <2>1. UnmountSearch
      BY <1>2 DEF Enter
    <2> QED BY <1>1, <1>2, <2>1, PageLeaves
  <1>3. CASE to.page = "search" /\ ~crashed' /\ Mounts(to)
    <2>1. MountSearch(to.id) /\ to.id \in Created /\ to = Search(to.id)
      BY <1>3, PlacesAre DEF Enter
    <2> QED BY <1>1, <2>1, PageMounts
  <1>4. CASE to.page = "search" /\ ~crashed' /\ ~Mounts(to)
    <2>1. MoveSearch /\ search.on
      BY <1>4 DEF Enter, Mounts
    <2> QED BY <1>1, <1>4, <2>1, PageMoves
  <1> QED BY <1>2, <1>3, <1>4

\* The steps of the search page, of its timers and of its polls, and what the steps of
\* the service and of the tab do to them.
LEMMA PageStepKeeps ==
    ASSUME Inv, [WebNext]_webVars, SettledStays
    PROVE  SearchInv' /\ PollsInv'
  <1> USE DEF Inv
  <1>c. Created \subseteq IDs
    <2>1. \A i \in 1 .. Len(created) : created[i] \in IDs
      BY DEF ServiceInv
    <2> QED BY <2>1 DEF Created, Service!Members
  <1>p. path \in Places
    BY DEF TabInv, Places
  <1>1. CASE ServiceStep \/ FormStep \/ UNCHANGED webVars
    <2>1. UNCHANGED <<path, crashed, searchVars>>
      BY <1>1 DEF ServiceStep, OfService, FormStep, webVars, tabVars
    <2> QED BY <2>1, PageStays
  <1>2. CASE TabStep
    <2>1. UNCHANGED <<path, searchVars>> /\ (path.page = "search" => crashed' = crashed)
      BY <1>2 DEF TabStep, LatestAnswered, SearchesAnswered, ReposAnswered, PageFails, ShowSearches
    <2> QED BY <2>1, PageStays
  <1>3. ASSUME NEW i \in DOMAIN posts, CreateSearch(i) PROVE SearchInv' /\ PollsInv'
    <2>1. UNCHANGED <<path, crashed, searchVars>>
      BY <1>3 DEF CreateSearch, tabVars
    <2> QED BY <2>1, PageStays
  <1>4. CASE PageStep
    <2>1. UNCHANGED <<path, crashed>>
      BY <1>4 DEF PageStep, OfPage, tabVars
    <2>2. CASE Ticks
      BY <1>c, <1>p, <2>1, <2>2, TickKeeps DEF Ticks
    <2>3. ASSUME NEW p \in DOMAIN polls, Answer(p) \/ DeliverPoll(p, path.id) \/ PollFails(p)
          PROVE  SearchInv' /\ PollsInv'
      BY <2>1, <2>3, AnswerKeeps, PollEnds
    <2> QED BY <1>4, <2>2, <2>3 DEF PageStep, OfPage, BagToSet
  <1>5. ASSUME NEW to \in Places, FollowLink(to) PROVE SearchInv' /\ PollsInv'
    <2>1. ~crashed /\ Enter(to) /\ UNCHANGED Created
      BY <1>5 DEF FollowLink, serviceVars, Created
    <2> QED BY <1>c, <2>1, EnterPage
  <1>6. ASSUME NEW to \in Places, Open(to) PROVE SearchInv' /\ PollsInv'
    <2>1. path' = to /\ crashed' = (to.page = "search" /\ ~HasMatch) /\ UNCHANGED Created
      BY <1>6 DEF Open, serviceVars, Created
    <2>2. CASE to.page = "search" /\ HasMatch
      <3>1. MountSearch(to.id) /\ to.id \in Created /\ to = Search(to.id)
        BY <1>6, <2>2, PlacesAre DEF Open
      <3> QED BY <1>c, <2>1, <3>1, PageMounts
    <2>3. CASE ~(to.page = "search" /\ HasMatch)
      <3>1. UnmountSearch
        BY <1>6, <2>3 DEF Open
      <3> QED BY <2>1, <2>3, <3>1, PageLeaves
    <2> QED BY <2>2, <2>3
  <1>7. ASSUME NEW i \in DOMAIN posts, PostAnswered(i) PROVE SearchInv' /\ PollsInv'
    <2> DEFINE to == Search(posts[i].answer)
    <2>1. CASE to = path
      <3>1. UNCHANGED <<path, crashed, searchVars>>
        BY <1>7, <2>1 DEF PostAnswered, tabVars
      <3> QED BY <3>1, PageStays
    <2>2. CASE to # path
      <3>1. to \in Places
        BY <1>7 DEF PostAnswered, FormInv, Sound, Places
      <3>2. Enter(to) /\ ~crashed /\ UNCHANGED Created
        BY <1>7, <2>2 DEF PostAnswered, serviceVars, Created
      <3> HIDE DEF to
      <3> QED BY <1>c, <3>1, <3>2, EnterPage
    <2> QED BY <2>1, <2>2
  <1>8. CASE UserStep
    BY <1>5, <1>6, <1>8 DEF UserStep, Places
  <1> QED BY <1>1, <1>2, <1>3, <1>4, <1>7, <1>8 DEF WebNext

-----------------------------------------------------------------------------
(* The theorems                                                            *)

\* The tab is opened at the home page, before anything was submitted.
LEMMA InvInit == WebInit => Inv
  <1> SUFFICES ASSUME WebInit PROVE Inv
    OBVIOUS
  <1> USE DEF WebInit
  <1>1. created = <<>> /\ waiting = <<>> /\ active = NoID /\ done = {}
    BY DEF Service!Init
  <1>2. <<>> \in Seq(IDs) /\ DOMAIN <<>> = {} /\ Service!Members(<<>>) = {} /\ <<>> \in Seq(PostType)
        /\ Len(<<>>) = 0
    BY DEF Service!Members
  <1>3. ServiceInv
    BY <1>1, <1>2 DEF ServiceInv
  <1>4. FormInv
    <2>1. NewForm \in FormType /\ NewForm.switch = "no" /\ NewForm.private = FALSE
      BY DEF NewForm, NoForm, FormType
    <2>2. DOMAIN posts = {} /\ posts \in Seq(PostType) /\ Len(posts) <= MaxPosts
      BY <1>2, MaxPostsAssumption
    <2> QED BY <2>1, <2>2 DEF FormInv, FormTypeOK, FormType, PostType
  <1>5. TabInv
    <2>1. path \in Static /\ path.page = "home" /\ form.on
      BY DEF Static, ListPages, At, NewForm, NoForm
    <2>2. page \in PageType /\ page.ids = {}
      BY DEF NewPage, NoPage, PageType
    <2> QED BY <2>1, <2>2 DEF TabInv, PageType
  <1>6. SearchInv
    <2>1. search \in SearchType
      BY DEF NoSearch, SearchType, NoStatus
    <2>2. /\ search.status = NoStatus /\ search.id = NoID /\ search.table = NoID /\ ~search.on
          /\ path.page = "home"
      BY DEF NoSearch, At
    <2> QED BY <2>1, <2>2, SmallBags DEF SearchInv, NoStatus
  <1>7. PollsInv
    BY SmallBags, MaxPollsAssumption DEF PollsInv, IsBag
  <1> QED BY <1>3, <1>4, <1>5, <1>6, <1>7 DEF Inv

\* Each part is kept by every step, given the parts before it.
LEMMA InvStep == Inv /\ [WebNext]_webVars => Inv'
  <1> SUFFICES ASSUME Inv, [WebNext]_webVars PROVE Inv'
    OBVIOUS
  <1>1. ServiceInv' /\ SettledStays
    BY ServiceStepKeeps DEF Inv
  <1>2. FormInv'
    BY <1>1, FormStepKeeps DEF Inv, SettledStays, ServiceInv
  <1>3. TabInv'
    BY <1>1, TabStepKeeps DEF Inv
  <1>4. SearchInv' /\ PollsInv'
    BY <1>1, PageStepKeeps
  <1> QED BY <1>1, <1>2, <1>3, <1>4 DEF Inv

\* The parts of the invariant, at every moment.
LEMMA InvHolds == WebSpec => []Inv
  BY InvInit, InvStep, PTL DEF WebSpec

\* The state of the client has its type: a page has what is mounted with it, a form
\* that is gone waits for no answer, and there are no more requests than the bound.
THEOREM ClientTypeCorrect == WebSpec => []WTypeOK
  <1>1. Inv => WTypeOK
    <2> SUFFICES ASSUME Inv PROVE WTypeOK
      OBVIOUS
    <2>1. FormTypeOK(IDs)
      BY DEF Inv, FormInv
    <2>2. SearchTypeOK
      <3>1. BagToSet(polls) \subseteq PollType
        BY DEF Inv, PollsInv, PollInv, BagToSet
      <3>2. IsABag(polls)
        BY DEF Inv, PollsInv, IsABag
      <3> QED BY <3>1, <3>2
              DEF Inv, SearchInv, PollsInv, SearchTypeOK, SearchType, PollType
    <2>3. Created \subseteq IDs
      <3>1. \A i \in 1 .. Len(created) : created[i] \in IDs
        BY DEF Inv, ServiceInv
      <3> QED BY <3>1 DEF Created, Service!Members
    <2> QED BY <2>1, <2>2, <2>3 DEF Inv, TabInv, SearchInv, WTypeOK
  <1> QED BY <1>1, InvHolds, PTL

\* What was submitted with the switch at "Yes" is on no list the user sees.
THEOREM PrivateStaysUnlisted == WebSpec => []PrivateNotListed
  <1>1. Inv => PrivateNotListed
    BY DEF Inv, TabInv, PrivateNotListed
  <1> QED BY <1>1, InvHolds, PTL

\* A page throws exactly when it is that of a search and the router gives it no prop
\* match (Search.js:34): whether by a link, a shared address or the answer to a form, and
\* nothing the service answers makes one throw.
LEMMA PageNeedsMatch == WebSpec => [](crashed <=> path.page = "search" /\ ~HasMatch)
  <1>1. Inv => (crashed <=> path.page = "search" /\ ~HasMatch)
    BY DEF Inv, TabInv
  <1> QED BY <1>1, InvHolds, PTL

\* However late answers come and in whichever order, what the page of a search says
\* is true of the search it names, and that is the one in the address if the page
\* was opened with it.
THEOREM PageTellsTheTruth == WebSpec => []ShownIsTrue
  <1>1. Inv => ShownIsTrue
    <2> SUFFICES ASSUME Inv PROVE ShownIsTrue
      OBVIOUS
    <2>1. Title(search) = "In Progress" => search.status = 1
      BY DEF Title
    <2>2. Title(search) = "Completed" => search.status = 2
      BY DEF Title
    <2> QED BY <2>1, <2>2 DEF Inv, SearchInv, Started, Settled, ShownIsTrue
  <1> QED BY <1>1, InvHolds, PTL

-----------------------------------------------------------------------------
(* The service under its web client                                        *)

\* Nothing that the client does without a request touches the searches; a form that
\* is submitted, the service's own work, its failures and restarts do to them what
\* SearchService allows.
LEMMA ClientStepServes == [WebNext]_webVars => [Service!Next]_(Service!serviceVars)
  <1> SUFFICES ASSUME [WebNext]_webVars,
                      ~UNCHANGED Service!serviceVars
               PROVE  Service!Next
    OBVIOUS
  <1>1. CASE ServiceStep
    BY <1>1 DEF ServiceStep, OfService, ServiceWorks, ServiceFails, ServiceRestarts,
                Service!Next
  <1>2. CASE \E i \in DOMAIN posts : CreateSearch(i)
    BY <1>2 DEF CreateSearch, Service!Next
  <1>3. CASE FormStep \/ PageStep \/ TabStep
    BY <1>3 DEF FormStep, PageStep, OfPage, TabStep, serviceVars, Service!serviceVars
  <1>4. CASE UserStep \/ \E i \in DOMAIN posts : PostAnswered(i)
    BY <1>4 DEF UserStep, FollowLink, Open, PostAnswered, serviceVars, Service!serviceVars
  <1>5. CASE UNCHANGED webVars
    BY <1>5 DEF webVars, serviceVars, Service!serviceVars
  <1> QED BY <1>1, <1>2, <1>3, <1>4, <1>5 DEF WebNext

\* The service keeps its promises under this client: the service that the pages talk
\* to is the one that the manager of searches implements.
THEOREM ClientKeepsService == WebSpec => Service!Spec
  <1>1. WebInit => Service!Init
    BY DEF WebInit
  <1> QED BY <1>1, ClientStepServes, PTL DEF WebSpec, Service!Spec
=============================================================================
