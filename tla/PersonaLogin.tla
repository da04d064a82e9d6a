---------------------------- MODULE PersonaLogin ----------------------------
(***************************************************************************)
(* AUTH_ESTABLISHING for one persona: establish_persona replays the login  *)
(* recipe, probes the target as the persona and as nobody, and makes a     *)
(* session oracle from the difference; _run_auth_establishing writes the   *)
(* result to the persona's row.  Two scans of a target may do so at once.  *)
(*                                                                         *)
(* An answer is a status and the lines of its body; a line is its stripped *)
(* text and how far it is indented.  Which text occurs inside which is     *)
(* given.  Pages are the site's answers to a member and to a visitor; it   *)
(* may also answer 429 with an empty body.                                 *)
(***************************************************************************)
EXTENDS Orm, SequencesExt, Naturals

CONSTANTS
    Logins,         \* scans of the target that log the persona in
    Recipes,        \* login recipes: sequences of steps, <<>> is none
    Sites,          \* the pages a site may have
    StartHost,      \* host of recipe.start_url
    Jars,           \* what a login may leave in the browser's storage state
    ShortTexts,     \* texts of fewer than min_length characters
    PartOf,         \* pairs of texts, the first of which occurs in the second
    Throttling      \* whether the site may answer 429

None == "none"

\* An answer to a probe, and so a page.
Answer == [status : Nat, lines : Seq([text : STRING, indent : Nat])]

ASSUME LoginAssumption ==
    /\ None \notin Logins
    /\ \A s \in Sites : s.member \in Answer /\ s.visitor \in Answer
    /\ \A s \in Sites : \A i \in DOMAIN s.member.lines :
          <<s.member.lines[i].text, s.member.lines[i].text>> \in PartOf

VARIABLES
    site,           \* the two pages of this site
    recipe,         \* Persona.login_recipe
    hasCredential,  \* Persona.credential is not None
    persona,        \* the columns of the row that logins write
    login,          \* login[w]: the login of scan w
    lastLogin,      \* history: the scan that committed last
    overlap         \* history: two logins were under way at once

loginVars == <<site, recipe, hasCredential, persona, login, lastLogin, overlap>>

NoOracle == [signal |-> "none"]
NoAnswer == [status |-> 0, lines |-> <<>>]
Throttled == [status |-> 429, lines |-> <<>>]

PersonaRow == [available |-> TRUE, reason |-> None, session |-> None, oracle |-> NoOracle]

\* loaded, now: the row as loaded and as assigned to.
NotStarted == [at |-> "start", loaded |-> PersonaRow, now |-> PersonaRow, step |-> 0,
               cookies |-> {}, asPersona |-> NoAnswer, asNobody |-> NoAnswer, tainted |-> FALSE]

LoginInit ==
    /\ site \in Sites
    /\ recipe \in Recipes
    /\ hasCredential \in BOOLEAN
    /\ persona = PersonaRow
    /\ login = [w \in Logins |-> NotStarted]
    /\ lastLogin = None
    /\ overlap = FALSE

\* Login w goes on as l.
Proceed(w, l) ==
    /\ login' = [login EXCEPT ![w] = l]
    /\ UNCHANGED <<site, recipe, hasCredential, persona, lastLogin, overlap>>

\* _unavailable(reason): the other columns keep their values.
Unavailable(l, reason) ==
    [l EXCEPT !.at = "commit", !.now = [@ EXCEPT !.available = FALSE, !.reason = reason]]

SecretRefs == {recipe[i].ref : i \in {j \in DOMAIN recipe : recipe[j].action = "fill_secret"}}

\* The credential is attached to the first fill_secret step's name.
SecretRef ==
    recipe[CHOOSE i \in DOMAIN recipe :
              /\ recipe[i].action = "fill_secret"
              /\ \A j \in 1..(i - 1) : recipe[j].action # "fill_secret"].ref

\* The persona is loaded, and establish_persona begins.
StartLogin(w) ==
    /\ login[w].at = "start"
    /\ LET l == [login[w] EXCEPT !.loaded = persona, !.now = persona]
       IN  login' = [login EXCEPT ![w] =
              IF recipe = <<>> THEN Unavailable(l, "no recipe")
              ELSE IF ~hasCredential THEN Unavailable(l, "no credential")
              ELSE IF SecretRefs = {} THEN Unavailable(l, "no fill_secret step")
              ELSE [l EXCEPT !.at = "replay", !.step = 1]]
    /\ overlap' = (overlap \/ \E v \in Logins : login[v].at \notin {"start", "end"})
    /\ UNCHANGED <<site, recipe, hasCredential, persona, lastLogin>>

\* _run_step: one step of the recipe; ok is whether it came in time.
RunStep(w, ok) ==
    LET l == login[w] IN
    /\ l.at = "replay" /\ l.step =< Len(recipe)
    /\ LET s == recipe[l.step]
       IN  Proceed(w, IF s.action = "fill_secret" /\ s.ref # SecretRef
                      THEN Unavailable(l, "missing credential")
                      ELSE IF ok THEN [l EXCEPT !.step = @ + 1]
                      ELSE Unavailable(l, "timeout"))

\* _check_assertion, and the storage state of a login that passed it.
CheckAssertion(w, ok, state) ==
    LET l == login[w] IN
    /\ l.at = "replay" /\ l.step > Len(recipe)
    /\ Proceed(w, IF ok THEN [l EXCEPT !.at = "probe", !.cookies = state,
                                     !.now = [@ EXCEPT !.session = w]]
                  ELSE Unavailable(l, "assertion"))

\* PersonaSession.cookies: those for another domain are left out.
CookiesFor(state) == {c \in state : c.domain = <<>> \/ IsSuffix(c.domain, StartHost)}

\* What the site answers to a request with or without a live session.
Answers(member) ==
    {IF member THEN site.member ELSE site.visitor} \cup {a \in {Throttled} : Throttling}

\* The probe as the persona; the session may be dead already.  An answer
\* that sets a cookie leaves it in the client both probes share.
ProbeAsPersona(w, alive, answer, sets) ==
    LET l == login[w] IN
    /\ l.at = "probe" /\ l.asPersona = NoAnswer
    /\ answer \in Answers(alive /\ CookiesFor(l.cookies) # {})
    /\ Proceed(w, [l EXCEPT !.asPersona = answer, !.tainted = sets /\ alive])

\* The probe as nobody.
ProbeAsNobody(w, answer) ==
    LET l == login[w] IN
    /\ l.at = "probe" /\ l.asPersona # NoAnswer /\ l.asNobody = NoAnswer
    /\ answer \in Answers(l.tainted)
    /\ Proceed(w, [l EXCEPT !.asNobody = answer])

\* Mutant: the roles of the two bodies are swapped.
FindUniqueLineSwapped(lines, others) ==
    {others[i].text : i \in {j \in DOMAIN others :
        /\ others[j].text \notin ShortTexts
        /\ [text |-> others[j].text, indent |-> 0] \notin ToSet(lines)}}

\* _find_unique_line: the stripped line is looked for among the other body's
\* lines, which are not stripped.  The first one found, or none.
FindUniqueLine(lines, others) ==
    LET Unique(i) == /\ lines[i].text \notin ShortTexts
                     /\ [text |-> lines[i].text, indent |-> 0] \notin ToSet(others)
    IN  {lines[i].text : i \in {j \in DOMAIN lines :
            Unique(j) /\ \A k \in 1..(j - 1) : ~Unique(k)}}

\* establish_session_oracle, from the two answers.
OracleOf(a, n) ==
    IF a.status # n.status THEN [signal |-> "status_code", value |-> a.status]
    ELSE IF a.lines = n.lines \/ FindUniqueLine(a.lines, n.lines) = {} THEN NoOracle
    ELSE [signal |-> "body_contains",
          line |-> CHOOSE t \in FindUniqueLine(a.lines, n.lines) : TRUE]

\* SessionOracle._matches: the oracle's line may be any part of the body, and
\* as it has no line break and no outer space, that is a part of one line.
Matches(oracle, answer) ==
    \/ oracle.signal = "status_code" /\ answer.status = oracle.value
    \/ oracle.signal = "body_contains"
          /\ \E i \in DOMAIN answer.lines : <<oracle.line, answer.lines[i].text>> \in PartOf

\* Mutant: a login that succeeds does not clear the reason of a former one.
EstablishKeepsReason(w) ==
    LET l == login[w] IN
    /\ l.at = "probe" /\ l.asNobody # NoAnswer
    /\ Proceed(w, [l EXCEPT !.at = "commit",
                            !.now = [@ EXCEPT !.available = TRUE,
                                              !.oracle = OracleOf(l.asPersona, l.asNobody)]])

\* The columns a successful login assigns.
Establish(w) ==
    LET l == login[w] IN
    /\ l.at = "probe" /\ l.asNobody # NoAnswer
    /\ Proceed(w, [l EXCEPT !.at = "commit",
                            !.now = [@ EXCEPT !.available = TRUE, !.reason = None,
                                              !.oracle = OracleOf(l.asPersona, l.asNobody)]])

\* Anything else raises: the engine, the browser, a malformed recipe, or the
\* login of a later persona before the phase commits.  Nothing is written.
LoginRaises(w) ==
    /\ login[w].at \in {"replay", "probe", "commit"}
    /\ Proceed(w, [login[w] EXCEPT !.at = "end"])

\* The commit of the phase writes the columns that changed.
CommitLogin(w) ==
    LET l == login[w] IN
    /\ l.at = "commit"
    /\ persona' = [c \in DOMAIN persona |-> Flush(l.loaded[c], l.now[c], persona[c])]
    /\ login' = [login EXCEPT ![w].at = "end"]
    /\ lastLogin' = w
    /\ UNCHANGED <<site, recipe, hasCredential, overlap>>

LoginNext ==
    \E w \in Logins :
        \/ StartLogin(w)
        \/ \E ok \in BOOLEAN :
              RunStep(w, ok) \/ \E state \in Jars : CheckAssertion(w, ok, state)
        \/ \E alive, sets \in BOOLEAN, a \in {site.member, site.visitor, Throttled} :
              ProbeAsPersona(w, alive, a, sets)
        \/ \E a \in {site.member, site.visitor, Throttled} : ProbeAsNobody(w, a)
        \/ Establish(w) \/ LoginRaises(w) \/ CommitLogin(w)

LoginSpec == LoginInit /\ [][LoginNext]_loginVars

-----------------------------------------------------------------------------
(* Properties.                                                             *)

\* Both probes of w were answered with the page meant for who sent them.
ProbedProperly(w) ==
    login[w].asPersona = site.member /\ login[w].asNobody = site.visitor

HasOracle(w) ==
    login[w].at = "commit" /\ login[w].asNobody # NoAnswer /\ login[w].now.oracle # NoOracle

TellsApart(oracle) == Matches(oracle, site.member) /\ ~Matches(oracle, site.visitor)

\* oracle.py: establishing an oracle proves "that we can actually tell an
\* authenticated response from an anonymous one".  The oracle that two proper
\* answers give accepts a member's page and refuses a visitor's.
OracleTellsApart ==
    \A w \in Logins : HasOracle(w) /\ ProbedProperly(w) => TellsApart(login[w].now.oracle)

\* A line of the member's page occurs in a visitor's line that is more than
\* this text: a longer one, or an indented one.
Confusable ==
    \E i \in DOMAIN site.member.lines, j \in DOMAIN site.visitor.lines :
        /\ <<site.member.lines[i].text, site.visitor.lines[j].text>> \in PartOf
        /\ site.visitor.lines[j] # [text |-> site.member.lines[i].text, indent |-> 0]

\* What is left of that claim for the oracle a scan finds in the row.  However
\* the logins of two scans overlapped and whichever of them failed or raised,
\* it was made by one of them from that login's own two answers.  It accepts
\* the one the persona got, and if they were the proper ones it refuses a
\* visitor's page, except on a site whose pages are confusable.
OracleInRowTellsApart ==
    persona.oracle # NoOracle => \E w \in Logins :
        /\ persona.oracle = OracleOf(login[w].asPersona, login[w].asNobody)
        /\ ProbedProperly(w) =>
              /\ Matches(persona.oracle, site.member)
              /\ Matches(persona.oracle, site.visitor) => Confusable

\* A persona row is no mixture.  As long as the logins of a persona do not
\* overlap, the row tells the last one that was committed: it is available,
\* without a reason and with the session and oracle of that login, or it is
\* not, with a reason.  Even when they do, an oracle is never there without
\* some session, and a login that raised leaves nothing.
RowTellsLastLogin ==
    /\ persona.oracle # NoOracle => persona.session # None
    /\ \A w \in Logins : persona.session = w => login[w].at = "end" /\ lastLogin # None
    /\ ~overlap /\ lastLogin # None =>
          LET l == login[lastLogin] IN
          /\ persona = l.now
          /\ persona.available <=> persona.reason = None
          /\ persona.available <=> l.asNobody # NoAnswer
          /\ persona.available => persona.session = lastLogin
=============================================================================
