-------------------------- MODULE CreateSessionForm --------------------------
(***************************************************************************)
(* The form that creates a session, and what it takes from the server: the *)
(* catalogue of regions and sizes, and whether a slug is free              *)
(* (web/src/control/routes/SessionPage/components/CreateSessionForm.tsx,   *)
(* internal/server/provisioning_options.go).                               *)
(*                                                                         *)
(* The slug in the field is looked up a moment after it was typed, so that *)
(* answers come for slugs that are not in the field any more.  The server  *)
(* may be restarted in another environment, with another catalogue, while  *)
(* the form is open, and sessions are created by others.                   *)
(***************************************************************************)
EXTENDS Integers

CONSTANTS
    FormSlugs,      \* valid slugs that are typed
    Invalid,        \* anything else that can be typed
    Nothing,        \* no options, no answer, no choice
    Regions,        \* of the catalogue
    Sizes,
    MaxRestarts,    \* bound on restarts
    MaxFailures     \* bound on requests that fail

ASSUME FormAssumption ==
    /\ Nothing # Invalid /\ {Nothing, Invalid} \cap FormSlugs = {}
    /\ Nothing \notin {"available", "taken"}
    /\ Regions \subseteq {"nyc", "sfo"} /\ Regions # {}
    /\ Sizes \subseteq {"tiny", "basic", "dedicated"} /\ "basic" \in Sizes
    /\ {MaxRestarts, MaxFailures} \subseteq Nat

Environments == {"development", "production"}

\* Of the twelve regions one with and one without dedicated processors, and of the
\* six sizes one of each kind; "tiny" is for development only.
Recommended == "basic"

\* What the catalogue has for a region.
Availability(r) == IF r = "sfo" THEN Sizes ELSE Sizes \ {"dedicated"}

\* Mutant: the sizes are filtered, but not what the regions offer.
AvailableAnywhere(e, r) == Availability(r)

\* catalogForEnvironment: what a region offers there.
Available(e, r) == Availability(r) \ (IF e = "production" THEN {"tiny"} ELSE {})

\* validateProvisioningSelection, on the server, from its own catalogue.
ValidSelection(e, r, s) ==
    /\ r \in Regions
    /\ s = "tiny" => e = "development"
    /\ s \in Sizes
    /\ s \in Availability(r)

VARIABLES
    env,        \* the environment of the server
    taken,      \* slugs of sessions
    field,      \* the slug in the field
    debounced,  \* the slug that is looked up
    data,       \* the last answer for each slug
    failed,     \* slugs whose last request failed
    request,    \* for each slug the request that is out, then its answer
    options,    \* the environment of the options the page has
    applied,    \* the environment whose defaults the form started from
    region, size,
    post,       \* what was submitted, and what came of it
    restarts, failures

slugVars == <<field, debounced, data, failed, request>>
choiceVars == <<options, applied, region, size>>
serverVars == <<env, taken, restarts>>
formVars == <<serverVars, slugVars, choiceVars, post, failures>>

Answers == {"available", "taken"}
States == {"no", "sent", "created", "refused", "conflict", "lost"}

FormTypeOK ==
    /\ env \in Environments /\ taken \in SUBSET FormSlugs
    /\ field \in FormSlugs \cup {Invalid} /\ debounced \in FormSlugs \cup {Invalid}
    /\ data \in [FormSlugs -> Answers \cup {Nothing}]
    /\ failed \in SUBSET FormSlugs
    /\ request \in [FormSlugs -> Answers \cup {"no", "asked"}]
    /\ options \in Environments \cup {Nothing} /\ applied \in Environments \cup {Nothing}
    /\ region \in Regions \cup {Nothing} /\ size \in Sizes \cup {Nothing}
    /\ post \in [state : States, slug : FormSlugs \cup {Nothing},
                region : Regions \cup {Nothing}, size : Sizes \cup {Nothing},
                options : Environments \cup {Nothing}]
    /\ restarts \in 0..MaxRestarts /\ failures \in 0..MaxFailures

NoPost == [state |-> "no", slug |-> Nothing, region |-> Nothing, size |-> Nothing,
           options |-> Nothing]

\* The page is opened; the empty field is not a slug.
FormInit ==
    /\ env \in Environments /\ taken \in SUBSET FormSlugs
    /\ field = Invalid /\ debounced = Invalid
    /\ data = [s \in FormSlugs |-> Nothing]
    /\ failed = {}
    /\ request = [s \in FormSlugs |-> "no"]
    /\ options = Nothing /\ applied = Nothing /\ region = Nothing /\ size = Nothing
    /\ post = NoPost
    /\ restarts = 0 /\ failures = 0

Failure == failures < MaxFailures /\ failures' = failures + 1

\* Mutant: the answer is shown beside whatever is in the field.
StatusOfDebounced ==
    IF field = Invalid THEN "invalid"
    ELSE IF debounced = Invalid \/ request[debounced] # "no" THEN "checking"
    ELSE IF debounced \in failed THEN "unknown"
    ELSE IF data[debounced] = Nothing THEN "checking"
    ELSE data[debounced]

\* slugAvailabilityStatus
SlugStatus ==
    IF field = Invalid THEN "invalid"
    ELSE IF field # debounced \/ request[field] # "no" THEN "checking"
    ELSE IF field \in failed THEN "unknown"
    ELSE IF data[field] = Nothing THEN "checking"
    ELSE data[field]

-----------------------------------------------------------------------------
Type(s) ==
    /\ field # s
    /\ field' = s
    /\ UNCHANGED <<serverVars, debounced, data, failed, request, choiceVars, post, failures>>

\* A slug without an answer is asked for, unless it is being asked for already; an
\* answer that is old is asked for again.
Ask(s) ==
    IF s = Invalid \/ request[s] # "no" THEN UNCHANGED request
    ELSE \/ request' = [request EXCEPT ![s] = "asked"]
         \/ data[s] # Nothing /\ UNCHANGED request

\* Nothing was typed for 300 ms.
Debounce ==
    /\ debounced # field
    /\ debounced' = field
    /\ Ask(field)
    /\ UNCHANGED <<serverVars, field, data, failed, choiceVars, post, failures>>

CheckSlugAvailability(s) ==
    /\ request[s] = "asked"
    /\ request' = [request EXCEPT ![s] = IF s \in taken THEN "taken" ELSE "available"]
    /\ UNCHANGED <<serverVars, field, debounced, data, failed, choiceVars, post, failures>>

SlugAnswer(s) ==
    /\ request[s] \in Answers
    /\ data' = [data EXCEPT ![s] = request[s]]
    /\ failed' = failed \ {s}
    /\ request' = [request EXCEPT ![s] = "no"]
    /\ UNCHANGED <<serverVars, field, debounced, choiceVars, post, failures>>

SlugCheckFails(s) ==
    /\ request[s] # "no"
    /\ Failure
    /\ failed' = failed \cup {s}
    /\ request' = [request EXCEPT ![s] = "no"]
    /\ UNCHANGED <<serverVars, field, debounced, data, choiceVars, post>>

-----------------------------------------------------------------------------
\* The list of sessions arrives, now and again, and with it the options.
LoadOptions ==
    /\ options # env
    /\ options' = env
    /\ UNCHANGED <<serverVars, slugVars, applied, region, size, post, failures>>

\* The form starts from the defaults of the first options it gets.  A server does
\* not start with defaults that it would refuse.
ApplyDefaults ==
    /\ options # Nothing /\ applied = Nothing
    /\ applied' = options
    /\ region' \in Regions /\ size' \in Available(options, region')
    /\ UNCHANGED <<serverVars, slugVars, options, post, failures>>

\* The size that updateRegion leaves in the form.
SizeFor(r) ==
    IF size \in Available(options, r) THEN size
    ELSE IF Recommended \in Available(options, r) THEN Recommended
    ELSE Nothing

UpdateRegion(r) ==
    /\ applied # Nothing /\ region # r
    /\ region' = r
    /\ size' = SizeFor(r)
    /\ UNCHANGED <<serverVars, slugVars, options, applied, post, failures>>

UpdateSize(s) ==
    /\ applied # Nothing /\ s \in Available(options, region) \ {size}
    /\ size' = s
    /\ UNCHANGED <<serverVars, slugVars, options, applied, region, post, failures>>

\* validateProvisioningInput, in the browser, from the options it has.
ValidInput == region \in Regions /\ size \in Available(options, region)

\* Only a slug that is known to be invalid or taken holds a session back.
Submit ==
    /\ applied # Nothing /\ post.state \in {"no", "refused", "conflict", "lost"}
    /\ SlugStatus \notin {"invalid", "taken"}
    /\ ValidInput
    /\ post' = [state |-> "sent", slug |-> field, region |-> region, size |-> size,
                options |-> options]
    /\ UNCHANGED <<serverVars, slugVars, choiceVars, failures>>

-----------------------------------------------------------------------------
\* createSession, with what was submitted.
CreateSession ==
    /\ post.state = "sent"
    /\ \/ /\ ~ValidSelection(env, post.region, post.size)
          /\ post' = [post EXCEPT !.state = "refused"]
          /\ UNCHANGED taken
       \/ /\ ValidSelection(env, post.region, post.size) /\ post.slug \in taken
          /\ post' = [post EXCEPT !.state = "conflict"]
          /\ UNCHANGED taken
       \/ /\ ValidSelection(env, post.region, post.size) /\ post.slug \notin taken
          /\ post' = [post EXCEPT !.state = "created"]
          /\ taken' = taken \cup {post.slug}
    /\ UNCHANGED <<env, restarts, slugVars, choiceVars, failures>>

\* No answer comes, whether the session was created or not.
CreateLost ==
    /\ post.state \in {"sent", "created"}
    /\ Failure
    /\ post' = [post EXCEPT !.state = "lost"]
    /\ UNCHANGED <<serverVars, slugVars, choiceVars>>

\* The browser has gone to the page of the session, and to a new form; the answers
\* and the options it has are kept.
NewForm ==
    /\ post.state = "created"
    /\ field' = Invalid /\ debounced' = Invalid
    /\ applied' = Nothing /\ region' = Nothing /\ size' = Nothing
    /\ post' = NoPost
    /\ UNCHANGED <<serverVars, data, failed, request, options, failures>>

OthersCreate(s) ==
    /\ s \notin taken
    /\ taken' = taken \cup {s}
    /\ UNCHANGED <<env, restarts, slugVars, choiceVars, post, failures>>

\* The server comes back in the other environment.
Restart ==
    /\ restarts < MaxRestarts
    /\ restarts' = restarts + 1
    /\ env' \in Environments \ {env}
    /\ UNCHANGED <<taken, slugVars, choiceVars, post, failures>>

Looks ==
    \/ Debounce
    \/ \E s \in FormSlugs : CheckSlugAvailability(s) \/ SlugAnswer(s) \/ SlugCheckFails(s)

FormNext ==
    \/ \E s \in FormSlugs \cup {Invalid} : Type(s)
    \/ Looks
    \/ LoadOptions \/ ApplyDefaults
    \/ \E r \in Regions : UpdateRegion(r)
    \/ \E s \in Sizes : UpdateSize(s)
    \/ Submit \/ CreateSession \/ CreateLost \/ NewForm
    \/ \E s \in FormSlugs : OthersCreate(s)
    \/ Restart

FormSpec == FormInit /\ [][FormNext]_formVars

-----------------------------------------------------------------------------

\* The form refuses a slug as taken only if a session has that very slug, however
\* late the answers come: nobody is kept from a free slug by another's answer.
TakenIsTrue == SlugStatus = "taken" => field \in taken

\* What the form lets through is refused for its region or size only by a server
\* that has changed its environment since the form got its options: the catalogue
\* that is shown and the one that is checked against agree.
OfferedIsAccepted ==
    [][post.state = "sent" /\ post'.state = "refused" => post.options # env]_formVars

=============================================================================
