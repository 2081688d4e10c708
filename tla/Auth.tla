-------------------------------- MODULE Auth --------------------------------
(***************************************************************************)
(* The request for TURN credentials (VkAuth::get_credentials of            *)
(* backend/auth.rs) with its three ways to the service: the account broker *)
(* of backend/vk_js_calls.rs, the anonymous calls path and the legacy path *)
(* with its captcha (backend/captcha.rs).  The captcha's window belongs to *)
(* the desktop front end and answers through a channel of one place.       *)
(*                                                                         *)
(* What VK and the TURN service answer is external: any answer at any step.*)
(* A request is one state; what it sends is left out.                      *)
(***************************************************************************)
EXTENDS Naturals, Sequences

CONSTANTS
    Values,          \* credentials the service may return
    Configurations,  \* <<vk_auth_mode, captcha_mode>> of the client
    Retries,         \* retry(3)
    LegacyAttempts,  \* attempts of the legacy path (4)
    CaptchaLimit,    \* captchas answered in one of them (3)
    MaxRequests      \* bound: CAPTCHA_SOLVE lines the front end is behind

ASSUME AuthConstants ==
    /\ Configurations \subseteq {"auto_js", "vkcalls", "legacy"} \X {"wv", "rjs", "auto"}
    /\ Retries \in Nat \ {0} /\ LegacyAttempts \in Nat \ {0}
    /\ CaptchaLimit \in Nat /\ MaxRequests \in Nat

VARIABLES
    config,        \* member of Configurations
    at,            \* the request or wait get_credentials is in, or "idle"
    tries, inner,  \* attempt of the path, and of the loop inside it
    captchas,      \* captcha_attempts
    show,          \* show_type of solve_once
    answer,        \* {} or {result of get_credentials}
    lockout,       \* captcha_lockout_until lies ahead
    issued,        \* CredentialBroker.issued_credentials
    chan,          \* the channel of CaptchaSolver
    window,        \* number of the last window, modulo 2
    requests,      \* CAPTCHA_SOLVE lines on their way to the front end
    ui             \* CaptchaService: "closed", "open", or "closing" until _busy is reset

fetchVars == <<at, tries, inner, captchas, show, answer, lockout, issued, chan, window, requests>>
authVars  == <<config, fetchVars, ui>>

AuthMode    == config[1]
CaptchaMode == config[2]
Hidden      == "none"

\* The requests of a path, each with the one that follows it.
Following ==
    [getCallToken |-> "accountLogin", accountLogin |-> "getConversationParams",
     getAnonymToken |-> "getCallPreview", getCallPreview |-> "getAnonymCallToken",
     getAnonymCallToken |-> "anonymLogin", anonymLogin |-> "joinConversation",
     legacyToken |-> "legacyPreview", legacyPreview |-> "getAnonymousToken",
     getAnonymousToken |-> "legacyLogin", legacyLogin |-> "legacyJoin"]

Broker  == {"getCallToken", "accountLogin", "getConversationParams"}
Calls   == {"getAnonymToken", "getCallPreview", "getAnonymCallToken", "anonymLogin", "joinConversation"}
Legacy  == {"legacyToken", "legacyPreview", "getAnonymousToken", "legacyLogin", "legacyJoin"}

-----------------------------------------------------------------------------
Goto(step) == at' = step /\ inner' = 0 /\ show' = Hidden

Finish(result) ==
    /\ at' = "idle" /\ answer' = {result}
    /\ tries' = 0 /\ inner' = 0 /\ captchas' = 0 /\ show' = Hidden

\* The mode decides where get_credentials starts; a lockout ends it at once.
Begin ==
    /\ at = "idle" /\ answer = {}
    /\ IF AuthMode = "legacy" /\ lockout THEN Finish("failed")
       ELSE /\ at' = CASE AuthMode = "auto_js" -> "getCallToken"
                       [] AuthMode = "vkcalls" -> "getAnonymToken"
                       [] OTHER -> "legacyToken"
            /\ tries' = 1 /\ UNCHANGED <<inner, captchas, show, answer>>
    /\ UNCHANGED <<config, lockout, issued, chan, window, requests, ui>>

\* The answer holds what the next request needs.
Proceed ==
    /\ at \in DOMAIN Following
    /\ Goto(Following[at])
    /\ UNCHANGED <<config, tries, captchas, answer, lockout, issued, chan, window, requests, ui>>

\* The last answer of a path is parsed into credentials.
Issue ==
    /\ \E v \in Values :
          \/ /\ at \in {"joinConversation", "legacyJoin"}
             /\ Finish(v) /\ UNCHANGED issued
          \/ /\ at = "getConversationParams" /\ v \notin issued
             /\ Finish(v) /\ issued' = issued \union {v}
    /\ UNCHANGED <<config, lockout, chan, window, requests, ui>>

\* retry: the account requests are sent again.
RetryRequest ==
    /\ at \in Broker /\ inner + 1 < Retries
    /\ inner' = inner + 1
    /\ UNCHANGED <<config, at, tries, captchas, show, answer, lockout, issued, chan, window, requests, ui>>

\* No broker, an error it does not repeat, the last error, or credentials it has
\* issued before: get_credentials goes on with the calls path.
BrokerFails ==
    /\ at \in Broker
    /\ Goto("getAnonymToken")
    /\ UNCHANGED <<config, tries, captchas, answer, lockout, issued, chan, window, requests, ui>>

\* In vkcalls mode get_credentials starts over after a pause, again and again.
StartsOver == AuthMode = "vkcalls"

\* vk_calls_with_retries makes a second attempt.
CallsFails ==
    /\ at \in Calls
    /\ IF tries < 2 \/ StartsOver
       THEN Goto("getAnonymToken") /\ tries' = 3 - tries /\ UNCHANGED <<captchas, answer>>
       ELSE Finish("failed")
    /\ UNCHANGED <<config, lockout, issued, chan, window, requests, ui>>

\* A legacy attempt is over; a preview that cannot be had is only logged.
LegacyFails ==
    /\ at \in Legacy
    /\ \/ /\ at = "legacyPreview"
          /\ Goto(Following[at]) /\ UNCHANGED <<tries, captchas, answer>>
       \/ /\ at # "legacyPreview" /\ tries < LegacyAttempts
          /\ Goto("legacyToken") /\ tries' = tries + 1 /\ captchas' = 0 /\ UNCHANGED answer
       \/ at # "legacyPreview" /\ tries = LegacyAttempts /\ Finish("failed")
    /\ UNCHANGED <<config, lockout, issued, chan, window, requests, ui>>

\* check_vk_error, check_fatal_call, check_ok_error: the call is gone, which ends every
\* loop.  After the broker has failed the error is told as text and no longer recognised.
CallUnavailable ==
    /\ at \in {"getCallPreview", "getAnonymCallToken", "joinConversation",
               "legacyPreview", "getAnonymousToken"}
    /\ Finish(IF AuthMode = "auto_js" THEN "failed" ELSE "unavailable")
    /\ UNCHANGED <<config, lockout, issued, chan, window, requests, ui>>

-----------------------------------------------------------------------------
(***************************************************************************)
(* The captcha                                                             *)
(***************************************************************************)
\* CAPTCHA_WAIT_REQUIRED locks the legacy path for a minute.
WaitRequired == Finish("failed") /\ lockout' = TRUE

\* An attempt that does not count its captchas.
Uncounted == captchas

CountCaptcha == captchas + 1

\* getAnonymousToken asks for a captcha.
AskCaptcha ==
    /\ at = "getAnonymousToken"
    /\ IF captchas >= CaptchaLimit THEN WaitRequired
       ELSE /\ captchas' = CountCaptcha
            /\ Goto(IF CaptchaMode = "wv" THEN "drain" ELSE "solver")
            /\ UNCHANGED <<tries, answer, lockout>>
    /\ UNCHANGED <<config, issued, chan, window, requests, ui>>

SolverAttempts == IF CaptchaMode = "rjs" THEN 2 ELSE 1

\* What the captcha's page and initSession tell: the type to solve first.
Pages == {"checkbox", "slider", "other"}

\* solve_once up to its loop: the page, its proof of work and the session's settings.
Prepare ==
    /\ at = "solver" /\ at' = "check"
    /\ show' \in Pages
    /\ UNCHANGED <<config, tries, inner, captchas, answer, lockout, issued, chan, window, requests, ui>>

\* perform_check has answered on a captcha of the given type.
Checked(type) == at = "check" /\ show = type

\* The check says that another type is shown, or BOT and there is a slider to try.
CheckAgain ==
    /\ Checked("checkbox")
    /\ show' \in {"slider", "other"}
    /\ UNCHANGED <<config, at, tries, inner, captchas, answer, lockout, issued, chan, window, requests, ui>>

\* The token goes into the next getAnonymousToken.
SolveWith(type) ==
    /\ Checked(type)
    /\ Goto("getAnonymousToken")
    /\ UNCHANGED <<config, tries, captchas, answer, lockout, issued, chan, window, requests, ui>>

SolveCheckbox == SolveWith("checkbox")

SolveSlider == SolveWith("slider")

\* solve_attempts tries again after a pause, and then a window is opened.
SolverFails ==
    /\ at \in {"solver", "check"}
    /\ IF inner + 1 < SolverAttempts
       THEN at' = "solver" /\ inner' = inner + 1 /\ show' = Hidden
       ELSE Goto("drain")
    /\ UNCHANGED <<config, tries, captchas, answer, lockout, issued, chan, window, requests, ui>>

\* A window that is opened over the answers to the one before it.
KeepAnswers == chan

DropAnswers == <<>>

\* webview: what has arrived since the last window is thrown away ...
Drain ==
    /\ at = "drain" /\ at' = "print"
    /\ chan' = DropAnswers
    /\ window' = 1 - window
    /\ UNCHANGED <<config, tries, inner, captchas, show, answer, lockout, issued, requests, ui>>

\* ... and the front end is asked.
Ask ==
    /\ at = "print" /\ at' = "wait"
    /\ requests' = IF requests < MaxRequests THEN requests + 1 ELSE requests
    /\ UNCHANGED <<config, tries, inner, captchas, show, answer, lockout, issued, chan, window, ui>>

TakeToken ==
    /\ at = "wait" /\ chan # <<>> /\ Head(chan).token
    /\ Goto("getAnonymousToken")
    /\ chan' = <<>>
    /\ UNCHANGED <<config, tries, captchas, answer, lockout, issued, window, requests, ui>>

\* An error from the window, or none of its answers in time: solve_auto opens a second
\* one, in manual mode, the others give up.
WindowFails ==
    /\ at = "wait" /\ \A i \in DOMAIN chan : ~ chan[i].token
    /\ chan' = <<>>
    /\ IF CaptchaMode = "auto" /\ inner = 0
       THEN at' = "drain" /\ inner' = 1 /\ UNCHANGED <<tries, captchas, show, answer, lockout>>
       ELSE WaitRequired
    /\ UNCHANGED <<config, issued, window, requests, ui>>

LockoutEnds ==
    /\ lockout /\ lockout' = FALSE
    /\ UNCHANGED <<config, at, tries, inner, captchas, show, answer, issued, chan, window, requests, ui>>

-----------------------------------------------------------------------------
(***************************************************************************)
(* CaptchaService of the front end, and submit_captcha_result              *)
(***************************************************************************)
\* submit_result: try_send into the channel of one place.
Submit(token) ==
    chan' = IF chan = <<>> THEN <<[token |-> token, window |-> window]>> ELSE chan

HandleSolveRequest ==
    /\ requests > 0 /\ requests' = requests - 1
    /\ IF ui = "closed" THEN ui' = "open" /\ UNCHANGED chan
       ELSE Submit(FALSE) /\ UNCHANGED ui        \* error:busy
    /\ UNCHANGED <<config, at, tries, inner, captchas, show, answer, lockout, issued, window>>

\* finish: the token was seen, or the window was closed, failed or timed out.
WindowFinishes ==
    /\ ui = "open" /\ ui' = "closing"
    /\ \E token \in BOOLEAN : Submit(token)
    /\ UNCHANGED <<config, at, tries, inner, captchas, show, answer, lockout, issued, window, requests>>

WindowCloses ==
    /\ ui = "closing" /\ ui' = "closed"
    /\ UNCHANGED <<config, fetchVars>>

-----------------------------------------------------------------------------
AuthInit ==
    /\ config \in Configurations
    /\ at = "idle" /\ tries = 0 /\ inner = 0 /\ captchas = 0 /\ show = Hidden /\ answer = {}
    /\ lockout = FALSE /\ issued = {}
    /\ chan = <<>> /\ window = 0 /\ requests = 0 /\ ui = "closed"

\* The steps of get_credentials.
GetCredentials ==
    \/ Begin \/ Proceed \/ Issue \/ RetryRequest \/ BrokerFails \/ CallsFails \/ LegacyFails
    \/ CallUnavailable \/ AskCaptcha \/ Prepare \/ CheckAgain \/ SolveCheckbox \/ SolveSlider \/ SolverFails
    \/ Drain \/ Ask \/ TakeToken \/ WindowFails

\* What happens beside it.
AuthEnvironment == LockoutEnds \/ HandleSolveRequest \/ WindowFinishes \/ WindowCloses

\* The future is dropped in the middle, or its result has been used.
Forget ==
    /\ at' = "idle" /\ tries' = 0 /\ inner' = 0 /\ captchas' = 0 /\ show' = Hidden /\ answer' = {}
    /\ UNCHANGED <<config, lockout, issued, chan, window, requests, ui>>

-----------------------------------------------------------------------------
\* An answer the solver finds while it waits was sent after its window was asked for:
\* what a window that timed out, or belonged to a request that was dropped, leaves in the
\* channel is never taken for the solution of a later captcha (CaptchaSolver::webview,
\* captcha.rs:309).
AnswerIsFresh ==
    at \in {"print", "wait"} => \A i \in DOMAIN chan : chan[i].window = window
=============================================================================
