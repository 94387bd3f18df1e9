---------------------------- MODULE CommandPath ----------------------------
(***************************************************************************)
(* The way of a command line to the page: typed (CommandLine), built into  *)
(* a request, read by the handler of daemon/app.py, forwarded by the       *)
(* facade daemon/browser_service.py and executed by one of two drivers.    *)
(* The extension driver sends a message whose payload background/*.js      *)
(* reads; the Playwright driver calls browser/service.py.  Every layer     *)
(* names its arguments anew and has defaults of its own; the tables say    *)
(* which argument each one fills, how it reads it and under which name it  *)
(* looks for it.                                                           *)
(***************************************************************************)
EXTENDS CommandLine, Naturals

CONSTANT MaxOdd   \* options of a line that are off their ordinary value
ASSUME MaxOddAssumption == MaxOdd \in Nat \ {0}

VARIABLES stage,     \* how far the line has come, or "refused"
          command, line,
          request,   \* what the CLI process sends to the daemon
          call,      \* what the daemon asks of the driver
          driver, wire, effect

vars == <<stage, command, line, request, call, driver, wire, effect>>

-----------------------------------------------------------------------------
\* Reading an argument.

Trimmed(v) ==
  CASE v = "padded" -> "text" [] v \in {"blank", "empty"} -> "absent" [] OTHER -> v

Negated(v) == IF v = "on" THEN "off" ELSE "on"

Read(reader, v) ==
  CASE reader \in {"required", "optional"} -> Trimmed(v)
    [] reader = "or" -> IF v \in {"absent", "empty", "zero"} THEN "default" ELSE v
    [] reader = "orNone" -> IF v \in {"empty", "zero"} THEN "absent" ELSE v
    [] reader = "flag" -> IF v = "on" THEN "on" ELSE "off"
    [] reader = "not" -> Negated(v)
    [] reader = "orOn" -> IF v = "absent" THEN "on" ELSE v
    [] reader = "address" -> IF v = "bare" THEN "text" ELSE v
    [] OTHER -> v

\* A table row: for each argument that a layer fills, the reader and the name
\* under which it looks.
As(reader, names) == [p \in DOMAIN names |-> <<reader, names[p]>>]
Same(names) == [n \in names |-> n]
Plain(names) == As("plain", Same(names))
Required(names) == As("required", Same(names))
Optional(names) == As("optional", Same(names))
Flags(names) == As("flag", Same(names))
Or(names) == As("or", Same(names))
OrNone(names) == As("orNone", Same(names))

Value(arguments, name) == IF name \in DOMAIN arguments THEN arguments[name] ELSE "absent"

Fill(row, arguments) == [p \in DOMAIN row |-> Read(row[p][1], Value(arguments, row[p][2]))]

-----------------------------------------------------------------------------
\* The handlers of the daemon.

PageHandlers ==
  For({"open"}, Required({"url"})) @@ For({"search"}, Required({"query"}) @@ Or({"engine"}))
    @@ For({"new-tab"}, Optional({"url"})) @@ For({"switch-tab"}, Required({"page_id"}))
    @@ For({"close-tab"}, Optional({"page_id"}))
    @@ For({"tabs", "close", "stop", "info", "html", "reload", "back", "forward"}, <<>>)
    @@ For({"snapshot"}, Flags({"interactive"}) @@ As("orOn", Same({"full_page"})))
    @@ For({"resize"}, Plain({"width", "height"}))

ElementHandlers ==
  For({"click", "double-click", "hover", "focus", "options", "check", "uncheck",
       "scroll-to"}, Required({"ref"}))
    @@ For({"fill"}, Required({"ref", "text"}) @@ Flags({"submit"}))
    @@ For({"fill-form"}, Plain({"fields"}) @@ Flags({"submit"}))
    @@ For({"select"}, Required({"ref", "text"}))
    @@ For({"drag"}, Required({"start_ref", "end_ref"}))
    @@ For({"upload"}, Required({"ref", "path"}))

InputHandlers ==
  For({"type"}, Required({"text"}) @@ Flags({"submit"}))
    @@ For({"press", "key-down", "key-up"}, Required({"key"}))
    @@ For({"scroll"}, Or({"dx", "dy"}))
    @@ For({"mouse-click"}, Plain({"x", "y"}) @@ Or({"button", "count"}))
    @@ For({"mouse-move"}, Plain({"x", "y"}))
    @@ For({"mouse-drag"}, Plain({"x1", "y1", "x2", "y2"}))
    @@ For({"mouse-down", "mouse-up"}, Or({"button"}))
    @@ For({"eval"}, Required({"code"})) @@ For({"eval-on"}, Required({"ref", "code"}))

TextFilters == {"url_contains", "url_regex", "method", "resource_type", "mime_contains"}

Filters == Optional(TextFilters) @@ Plain({"status"}) @@ Flags({"include_static"})

Clear_Straight == As("flag", [clear |-> "no_clear"])
Clear == As("not", [clear |-> "no_clear"])

ObserveHandlers ==
  For({"wait"}, Plain({"seconds"}) @@ OrNone({"text"}) @@ Flags({"gone", "exact"}))
    @@ For({"wait-network"}, As("or", [timeout_seconds |-> "timeout"]))
    @@ For({"screenshot"}, Required({"path"}) @@ Flags({"full_page"})
             @@ Plain({"clip", "viewport_width", "viewport_height", "device_scale_factor"}))
    @@ For({"pdf"}, Required({"path"}))
    @@ For({"console-start", "console-stop", "network-start", "network-stop"}, <<>>)
    @@ For({"console"}, Optional({"message_type"}) @@ Clear)
    @@ For({"network-wait"}, Filters @@ Or({"timeout_seconds"}))
    @@ For({"network"}, Filters @@ Clear)

StateHandlers ==
  For({"dialog-setup"}, As("or", [default_action |-> "action"])
                          @@ As("optional", [default_prompt_text |-> "text"]))
    @@ For({"dialog"}, As("not", [accept |-> "dismiss"])
                         @@ As("optional", [prompt_text |-> "text"]))
    @@ For({"dialog-remove"}, <<>>)
    @@ For({"cookies", "cookies-clear"}, Optional({"name", "domain", "path"}))
    @@ For({"cookie-set"}, Required({"name", "value"}) @@ Optional({"domain", "same_site"})
             @@ Or({"path"}) @@ Plain({"expires"}) @@ Flags({"http_only", "secure"}))
    @@ For({"storage-save"}, Optional({"path"})) @@ For({"storage-load"}, Required({"path"}))

VerifyHandlers ==
  For({"verify-text"}, Required({"text"}) @@ Flags({"exact"})
                         @@ As("or", [timeout_seconds |-> "timeout"]))
    @@ For({"verify-visible"}, Required({"role", "name"})
                                 @@ As("or", [timeout_seconds |-> "timeout"]))
    @@ For({"verify-url", "verify-title"}, Required({"expected"}) @@ Flags({"exact"}))
    @@ For({"verify-state"}, Required({"ref", "state"}))
    @@ For({"verify-value"}, Required({"ref", "expected"}))
    @@ For({"trace-start"}, As("not", [screenshots |-> "no_screenshots",
                                       snapshots |-> "no_snapshots"]) @@ Flags({"sources"}))
    @@ For({"trace-chunk"}, Optional({"title"}))
    @@ For({"trace-stop", "video-stop"}, Optional({"path"}))
    @@ For({"video-start"}, Plain({"width", "height"}))

BatchHandler ==
  For({"batch"}, Plain({"commands", "result_mode", "context"})
                   @@ As("orOn", Same({"stop_on_error"})))

Handlers == PageHandlers @@ ElementHandlers @@ InputHandlers @@ ObserveHandlers
              @@ StateHandlers @@ VerifyHandlers @@ BatchHandler

CaptureRefused_HalfViewport(a) ==
  \/ a.clip = "empty" \/ (a.clip = "text" /\ a.full_page = "on")
  \/ "zero" \in {a.viewport_width, a.viewport_height, a.device_scale_factor}

\* CaptureOptions.from_dict: checked by the handler and again by the driver.
CaptureRefused(a) ==
  \/ a.clip = "empty"
  \/ a.clip = "text" /\ a.full_page = "on"
  \/ /\ {a.viewport_width, a.viewport_height} # {"absent"}
     /\ {a.viewport_width, a.viewport_height} # {"number"}
  \/ a.device_scale_factor = "zero"

\* What a handler refuses: a required text that is blank, a size of zero, a
\* capture that contradicts itself, JSON of the wrong shape.
HandlerRefused(c, a) ==
  \/ \E p \in DOMAIN a : Handlers[c][p][1] = "required" /\ a[p] = "absent"
  \/ c = "resize" /\ "zero" \in {a.width, a.height}
  \/ c = "screenshot" /\ CaptureRefused(a)
  \/ c = "batch" /\ a.commands # "list"
  \/ c = "fill-form" /\ a.fields # "list"

-----------------------------------------------------------------------------
\* The facade: the arguments that each of its methods hands to the driver.

PageMethods ==
  For({"open", "new-tab"}, {"url"}) @@ For({"search"}, {"query", "engine"})
    @@ For({"snapshot"}, {"interactive", "full_page"}) @@ For({"resize"}, {"width", "height"})
    @@ For({"switch-tab", "close-tab"}, {"page_id"})
    @@ For({"tabs", "close", "stop", "info", "html", "reload", "back", "forward"}, {})

ElementMethods ==
  For({"click", "double-click", "hover", "focus", "options", "check", "uncheck",
       "scroll-to"}, {"ref"})
    @@ For({"fill"}, {"ref", "text", "submit"}) @@ For({"fill-form"}, {"fields", "submit"})
    @@ For({"select"}, {"ref", "text"}) @@ For({"drag"}, {"start_ref", "end_ref"})
    @@ For({"upload"}, {"ref", "path"}) @@ For({"eval"}, {"code"})
    @@ For({"eval-on"}, {"ref", "code"})
    @@ For({"wait"}, {"seconds", "text", "gone", "exact"})

NetworkMethods ==
  LET filters == TextFilters \cup {"status", "include_static"}
  IN  For({"wait-network"}, {"timeout_seconds"}) @@ For({"console"}, {"message_type", "clear"})
        @@ For({"console-start", "console-stop", "network-start", "network-stop"}, {})
        @@ For({"network-wait"}, filters \cup {"timeout_seconds"})
        @@ For({"network"}, filters \cup {"clear"})
        @@ For({"cookies", "cookies-clear"}, {"name", "domain", "path"})
        @@ For({"cookie-set"}, {"name", "value", "domain", "path", "expires", "http_only",
                                "secure", "same_site"})

VerifyMethods ==
  For({"storage-save", "storage-load"}, {"path"})
    @@ For({"verify-text"}, {"text", "exact", "timeout_seconds"})
    @@ For({"verify-visible"}, {"role", "name", "timeout_seconds"})
    @@ For({"verify-url", "verify-title"}, {"expected", "exact"})
    @@ For({"verify-state"}, {"ref", "state"}) @@ For({"verify-value"}, {"ref", "expected"})

InputMethods ==
  For({"type"}, {"text", "submit"}) @@ For({"press", "key-down", "key-up"}, {"key"})
    @@ For({"scroll"}, {"dx", "dy"}) @@ For({"mouse-move"}, {"x", "y"})
    @@ For({"mouse-click"}, {"x", "y", "button", "count"})
    @@ For({"mouse-drag"}, {"x1", "y1", "x2", "y2"})
    @@ For({"mouse-down", "mouse-up"}, {"button"})

ArtifactMethods ==
  For({"screenshot"}, {"path", "full_page", "clip", "viewport_width", "viewport_height",
                       "device_scale_factor"})
    @@ For({"pdf", "trace-stop", "video-stop"}, {"path"})
    @@ For({"dialog-setup"}, {"default_action", "default_prompt_text"})
    @@ For({"dialog"}, {"accept", "prompt_text"}) @@ For({"dialog-remove"}, {})
    @@ For({"trace-start"}, {"screenshots", "snapshots", "sources"})
    @@ For({"trace-chunk"}, {"title"}) @@ For({"video-start"}, {"width", "height"})

Methods == PageMethods @@ ElementMethods @@ NetworkMethods @@ VerifyMethods @@ InputMethods
             @@ ArtifactMethods
             @@ For({"batch"}, {"commands", "result_mode", "context", "stop_on_error"})

\* check_ref and uncheck_ref are one method of the driver.
Checked(c) == IF c \in {"check", "uncheck"}
              THEN [checked |-> IF c = "check" THEN "on" ELSE "off"] ELSE <<>>

Forwarded(c, a) == [p \in Methods[c] |-> Value(a, p)] @@ Checked(c)

\* _require_locator: a ref must be one of the page's last snapshot.
NoLocator(a) == \E p \in {"ref", "start_ref", "end_ref"} : Value(a, p) = "unknown"

\* What the daemon does without handing the arguments to a driver.
DaemonOnly == {"batch", "fill-form", "tabs", "switch-tab", "close", "close-tab", "stop"}

-----------------------------------------------------------------------------
\* The payloads of the extension driver.

PagePayloads ==
  For({"open", "new-tab"}, Plain({"url"})) @@ For({"search"}, Plain({"query", "engine"}))
    @@ For({"info", "html", "reload", "back", "forward"}, <<>>)
    @@ For({"snapshot"}, Plain({"interactive", "full_page"}))
    @@ For({"resize"}, Plain({"width", "height"})) @@ For({"eval"}, Plain({"code"}))

LocatorPayloads ==
  For({"click", "double-click", "hover", "focus", "options", "scroll-to"},
      As("plain", [locator |-> "ref"]))
    @@ For({"fill"}, As("plain", [locator |-> "ref"]) @@ Plain({"text", "submit"}))
    @@ For({"select"}, As("plain", [locator |-> "ref"]) @@ Plain({"text"}))
    @@ For({"check", "uncheck"}, As("plain", [locator |-> "ref"]) @@ Plain({"checked"}))
    @@ For({"drag"}, As("plain", [start_locator |-> "start_ref", end_locator |-> "end_ref"]))
    @@ For({"upload"}, As("plain", [locator |-> "ref"]) @@ Plain({"path"}))
    @@ For({"eval-on"}, As("plain", [locator |-> "ref"]) @@ Plain({"code"}))
    @@ For({"verify-state"}, As("plain", [locator |-> "ref"]) @@ Plain({"state"}))
    @@ For({"verify-value"}, As("plain", [locator |-> "ref"]) @@ Plain({"expected"}))

InputPayloads ==
  For({"type"}, Plain({"text", "submit"})) @@ For({"press", "key-down", "key-up"}, Plain({"key"}))
    @@ For({"scroll"}, Plain({"dx", "dy"})) @@ For({"mouse-move"}, Plain({"x", "y"}))
    @@ For({"mouse-click"}, Plain({"x", "y", "button", "count"}))
    @@ For({"mouse-drag"}, Plain({"x1", "y1", "x2", "y2"}))
    @@ For({"mouse-down", "mouse-up"}, Plain({"button"}))

NetworkPayloads ==
  LET filters == TextFilters \cup {"status", "include_static"}
  IN  For({"wait"}, Plain({"seconds", "text", "gone", "exact"}))
        @@ For({"wait-network"}, Plain({"timeout_seconds"}))
        @@ For({"console-start", "console-stop", "network-start", "network-stop"}, <<>>)
        @@ For({"console"}, Plain({"message_type", "clear"}))
        @@ For({"network-wait"}, Plain(filters \cup {"timeout_seconds"}))
        @@ For({"network"}, Plain(filters \cup {"clear"}))

StatePayloads ==
  For({"cookies", "cookies-clear"}, Plain({"name", "domain", "path"}))
    @@ For({"cookie-set"}, Plain({"name", "value", "domain", "path", "expires", "http_only",
                                  "secure", "same_site"}))
    @@ For({"storage-save", "storage-load"}, <<>>)
    @@ For({"verify-text"}, Plain({"text", "exact", "timeout_seconds"}))
    @@ For({"verify-visible"}, Plain({"role", "name", "timeout_seconds"}))
    @@ For({"verify-url", "verify-title"}, Plain({"expected", "exact"}))

ArtifactPayloads ==
  For({"screenshot"}, Plain({"full_page", "clip", "viewport_width", "viewport_height",
                             "device_scale_factor"}))
    @@ For({"pdf"}, <<>>) @@ For({"trace-start"}, Plain({"screenshots", "snapshots", "sources"}))
    @@ For({"trace-chunk"}, Plain({"title"}))
    @@ For({"trace-stop", "video-stop"}, Plain({"path"}))
    @@ For({"video-start"}, Plain({"width", "height"}))

DialogPayloads ==
  For({"dialog-setup"}, As("plain", [action |-> "default_action",
                                     text |-> "default_prompt_text"]))
    @@ For({"dialog"}, As("not", [dismiss |-> "accept"]) @@ As("plain", [text |-> "prompt_text"]))
    @@ For({"dialog-remove"}, <<>>)

Payloads == PagePayloads @@ LocatorPayloads @@ InputPayloads @@ NetworkPayloads
              @@ StatePayloads @@ ArtifactPayloads @@ DialogPayloads

\* The paths that the driver uses itself: where it writes what comes back, or
\* the file whose content it sends.
KeptPaths == {"screenshot", "pdf", "storage-save", "storage-load", "trace-stop"}

Kept(c, a) == IF c \in KeptPaths THEN [path |-> a.path] ELSE <<>>

-----------------------------------------------------------------------------
\* How the extension reads a payload.

PageReads ==
  For({"open", "new-tab"}, Plain({"url"})) @@ For({"search"}, Plain({"query", "engine"}))
    @@ For({"info", "html", "reload", "back", "forward"}, <<>>)
    @@ For({"snapshot"}, Flags({"interactive"})) @@ For({"resize"}, Plain({"width", "height"}))
    @@ For({"eval"}, Plain({"code"}))

LocatorReads ==
  For({"click", "double-click", "hover", "focus", "options", "scroll-to"},
      As("plain", [ref |-> "locator"]))
    @@ For({"fill"}, As("plain", [ref |-> "locator"]) @@ Plain({"text"}) @@ Flags({"submit"}))
    @@ For({"select"}, As("plain", [ref |-> "locator"]) @@ Plain({"text"}))
    @@ For({"check", "uncheck"}, As("plain", [ref |-> "locator"]) @@ Flags({"checked"}))
    @@ For({"eval-on"}, As("plain", [ref |-> "locator"]) @@ Plain({"code"}))
    @@ For({"verify-state"}, As("plain", [ref |-> "locator"]) @@ Plain({"state"}))
    @@ For({"verify-value"}, As("plain", [ref |-> "locator"]) @@ Plain({"expected"}))
    @@ For({"drag"}, As("plain", [start_ref |-> "start_locator", end_ref |-> "end_locator"]))
    @@ For({"upload"}, As("plain", [ref |-> "locator"]) @@ Plain({"path"}))

InputReads ==
  For({"type"}, Plain({"text"}) @@ Flags({"submit"}))
    @@ For({"press", "key-down", "key-up"}, Plain({"key"}))
    @@ For({"scroll"}, Or({"dx", "dy"})) @@ For({"mouse-move"}, Plain({"x", "y"}))
    @@ For({"mouse-drag"}, Plain({"x1", "y1", "x2", "y2"}))

MouseReads ==
  For({"mouse-click"}, Plain({"x", "y"}) @@ Or({"button", "count"}))
    @@ For({"mouse-down", "mouse-up"}, Or({"button"}))

WaitReads ==
  For({"wait"}, Or({"seconds"}) @@ OrNone({"text"}) @@ Flags({"gone", "exact"}))

ConsoleReads ==
  For({"console"}, As("plain", [message_type |-> "messageType", clear |-> "clear"]))

CookieReads ==
  For({"cookie-set"}, Plain({"name", "value"}) @@ OrNone({"domain", "expires", "same_site"})
                        @@ Or({"path"}) @@ Flags({"http_only", "secure"}))

NetworkReads == OrNone(TextFilters) @@ Plain({"status"}) @@ Flags({"include_static"})

ObserveReads ==
  For({"wait-network"}, Or({"timeout_seconds"}))
    @@ For({"console-start", "console-stop", "network-start", "network-stop"}, <<>>)
    @@ For({"network"}, NetworkReads @@ As("orOn", Same({"clear"})))
    @@ For({"network-wait"}, NetworkReads @@ Or({"timeout_seconds"}))
    @@ For({"cookies", "cookies-clear"}, OrNone({"name", "domain", "path"}))
    @@ For({"storage-save", "storage-load"}, <<>>)
    @@ For({"verify-text"}, Plain({"text"}) @@ Flags({"exact"}) @@ Or({"timeout_seconds"}))
    @@ For({"verify-url", "verify-title"}, Plain({"expected"}) @@ Flags({"exact"}))
    @@ For({"verify-visible"}, Plain({"role", "name"}) @@ Or({"timeout_seconds"}))

ArtifactReads ==
  For({"screenshot"}, Flags({"full_page"}) @@ OrNone({"clip", "viewport_width",
                                                     "viewport_height", "device_scale_factor"}))
    @@ For({"pdf"}, <<>>)

TraceReads ==
  For({"trace-start"}, Flags({"screenshots", "snapshots", "sources"}))
    @@ For({"trace-chunk"}, OrNone({"title"})) @@ For({"trace-stop"}, OrNone({"path"}))

VideoReads == For({"video-start"}, Plain({"width", "height"})) @@ For({"video-stop"}, OrNone({"path"}))

DialogReads ==
  For({"dialog-setup"}, As("plain", [default_action |-> "action"])
                          @@ As("orNone", [default_prompt_text |-> "text"]))
    @@ For({"dialog"}, As("not", [accept |-> "dismiss"]) @@ As("orNone", [prompt_text |-> "text"]))
    @@ For({"dialog-remove"}, <<>>)

Reads == PageReads @@ LocatorReads @@ InputReads @@ MouseReads @@ WaitReads @@ ConsoleReads
           @@ CookieReads @@ ObserveReads @@ ArtifactReads @@ TraceReads @@ VideoReads
           @@ DialogReads

\* How the Playwright service uses its arguments: as they are, but that an
\* address gets its scheme, a wait without seconds its default, a snapshot is
\* always of the full page and a video has the size of its context.
PlaywrightReads(c, a) ==
  CASE c \in {"open", "new-tab"} -> As("address", Same({"url"}))
    [] c = "wait" -> Or({"seconds"}) @@ OrNone({"text"}) @@ Flags({"gone", "exact"})
    [] c = "snapshot" -> Flags({"interactive"})
    [] c = "video-start" -> <<>>
    [] OTHER -> Plain(DOMAIN a)

Wire(d, c, a) == IF d = "extension" THEN Fill(Payloads[c], a) ELSE a

Effect(d, c, a, w) ==
  IF d = "extension" THEN Kept(c, a) @@ Fill(Reads[c], w) ELSE Fill(PlaywrightReads(c, w), w)

-----------------------------------------------------------------------------
OrdinaryLine(c) == [o \in DOMAIN Options(c) |-> Ordinary(Options(c)[o])]

Odd == {o \in DOMAIN line : line[o] # Ordinary(Options(command)[o])}

Blank == /\ stage = "typing" /\ request = <<>> /\ call = <<>> /\ driver = "none"
         /\ wire = <<>> /\ effect = <<>>

Init == command \in Commands /\ line = OrdinaryLine(command) /\ Blank

Refuse == stage' = "refused" /\ UNCHANGED <<command, line, request, call, driver, wire, effect>>

\* One more option of the line gets a value of its own.
Give(o) ==
  /\ stage = "typing" /\ Cardinality(Odd) < MaxOdd /\ o \notin Odd
  /\ \E v \in Values[Options(command)[o]] \ {line[o]} : line' = [line EXCEPT ![o] = v]
  /\ UNCHANGED <<stage, command, request, call, driver, wire, effect>>

\* argparse and the request builder.
Build ==
  /\ stage = "typing" /\ Parses(command, line) /\ ~RequestRefused(command, line)
  /\ stage' = "requested" /\ request' = Request(command, line)
  /\ UNCHANGED <<command, line, call, driver, wire, effect>>

BuildRefused ==
  /\ stage = "typing" /\ (Parses(command, line) => RequestRefused(command, line))
  /\ Refuse

\* The handler reads the request; the facade resolves refs and forwards.
Asked == Fill(Handlers[command], request)

Handle ==
  /\ stage = "requested" /\ ~HandlerRefused(command, Asked) /\ ~NoLocator(Asked)
  /\ stage' = "handled" /\ call' = Forwarded(command, Asked)
  /\ UNCHANGED <<command, line, request, driver, wire, effect>>

HandleRefused ==
  /\ stage = "requested" /\ (HandlerRefused(command, Asked) \/ NoLocator(Asked))
  /\ Refuse

\* The daemon hands the call to the driver that is active.
Drive(d) ==
  /\ stage = "handled" /\ command \notin DaemonOnly
  /\ stage' = "sent" /\ driver' = d /\ wire' = Wire(d, command, call)
  /\ UNCHANGED <<command, line, request, call, effect>>

\* chrome.cookies.set knows lax, strict and no_restriction.  What the line may
\* say is Lax, Strict or None, and it comes here as it was said.
ChromeRefuses(d, c, e) == d = "extension" /\ c = "cookie-set" /\ e.same_site # "absent"

Executed == Effect(driver, command, call, wire)

Execute ==
  /\ stage = "sent" /\ ~ChromeRefuses(driver, command, Executed)
  /\ stage' = "executed" /\ effect' = Executed
  /\ UNCHANGED <<command, line, request, call, driver, wire>>

ExecuteRefused ==
  /\ stage = "sent" /\ ChromeRefuses(driver, command, Executed)
  /\ Refuse

DaemonDoes ==
  /\ stage = "handled" /\ command \in DaemonOnly
  /\ stage' = "executed" /\ effect' = call
  /\ UNCHANGED <<command, line, request, call, driver, wire>>

\* The user types the next line.
NextLine ==
  /\ stage \in {"executed", "refused"} /\ line' = OrdinaryLine(command)
  /\ stage' = "typing" /\ request' = <<>> /\ call' = <<>> /\ driver' = "none"
  /\ wire' = <<>> /\ effect' = <<>>
  /\ UNCHANGED command

Next ==
  \/ \E o \in DOMAIN line : Give(o)
  \/ Build \/ BuildRefused
  \/ Handle \/ HandleRefused
  \/ \E d \in {"extension", "playwright"} : Drive(d)
  \/ Execute \/ ExecuteRefused \/ DaemonDoes \/ NextLine

Spec == Init /\ [][Next]_vars

-----------------------------------------------------------------------------
\* What a line means: the argument that an option stands for and the value.

Inverted == {"no_clear", "no_screenshots", "no_snapshots", "dismiss", "continue_on_error"}

StandsFor(c, o) ==
  CASE o = "no_clear" -> "clear" [] o = "dismiss" -> "accept"
    [] o = "no_screenshots" -> "screenshots" [] o = "no_snapshots" -> "snapshots"
    [] o = "continue_on_error" -> "stop_on_error" [] o = "timeout" -> "timeout_seconds"
    [] o = "page_range" -> "full_page" [] o = "code_file" -> "code" [] o = "file" -> "commands"
    [] o = "context_file" -> "context" [] o = "action" -> "default_action"
    [] c = "dialog-setup" /\ o = "text" -> "default_prompt_text"
    [] c = "dialog" /\ o = "text" -> "prompt_text" [] OTHER -> o

Meanings(o, v) ==
  CASE o \in Inverted -> {Negated(v)}
    [] v = "bare" -> {"text"}
    [] v = "absent" -> {"absent", "default"}
    [] v = "full" -> {"on"} [] v = "viewport" -> {"off"}
    [] OTHER -> {v}

\* Of two options for one argument only the one that is given speaks.
Partner(o) == CASE o = "code" -> "code_file" [] o = "commands" -> "file" [] o = "context" -> "context_file"
                [] o = "full_page" -> "page_range" [] o = "code_file" -> "code"
                [] o = "file" -> "commands" [] o = "context_file" -> "context"
                [] o = "page_range" -> "full_page" [] OTHER -> "none"

Speaks(o) ==
  \/ Partner(o) \notin DOMAIN line
  \/ IF o = "full_page" THEN ~Given(line, "page_range") ELSE Given(line, o)

\* The kinds of argument whose text the handlers trim, but for the text to
\* wait for: what the user types
\* into a field, expects of a page or filters by loses the spaces around it,
\* and an option of spaces only is read as not given.
TrimmedKinds == {"text", "optText", "script", "url", "optUrl", "ref"}

Trims(c, o, v) ==
  IF Options(c)[o] \notin TrimmedKinds \/ (c = "wait" /\ v # "empty") THEN {}
  ELSE CASE v = "padded" -> {"text"} [] v \in {"blank", "empty"} -> {"absent"} [] OTHER -> {}

\* What is lost on the way, and known to be, as what is left of it: a zero, or
\* an empty cookie path, where a default stands; the spaces of a text; a
\* snapshot's range; by the extension an address's scheme, the filter on
\* console messages and a cookie's expiry at zero; by Playwright the size of a
\* video.
KnownLoss(d, c, o, v) ==
  UNION {
    Trims(c, o, v),
    IF v = "zero" /\ o \in {"dy", "count", "timeout", "timeout_seconds", "seconds"}
    THEN {"default"} ELSE {},
    IF Options(c)[o] = "textOr" /\ v = "empty" THEN {"default"} ELSE {},
    IF c = "snapshot" /\ o = "full_page" THEN {"absent"} ELSE {},
    IF d = "extension" /\ v = "bare" THEN {"bare"} ELSE {},
    IF d = "extension" /\ c = "console" /\ o = "message_type" THEN {"absent"} ELSE {},
    IF d = "extension" /\ c = "cookie-set" /\ o = "expires" /\ v = "zero"
    THEN {"absent"} ELSE {},
    IF d = "playwright" /\ c = "video-start" THEN {"absent"} ELSE {} }

\* Whatever the user says is done as said: every option of an executed line,
\* given or left at its default, reaches the page under the argument that it
\* stands for, through argparse, the request, the handler, the facade and
\* either driver, to the letter, except for the losses that are known, which
\* lose no more than is said of each.
SaidIsDone ==
  stage = "executed" =>
    \A o \in {x \in DOMAIN line : Speaks(x)} :
      Value(effect, StandsFor(command, o))
        \in Meanings(o, line[o]) \cup KnownLoss(driver, command, o, line[o])

\* A line that contradicts itself is never executed in part: a clip of the
\* full page, a range against its flag, half a viewport, a size of zero, two
\* sources of code, an element or an argument named by spaces.
Contradictory ==
  \/ command = "screenshot" /\
       \/ line.clip = "text" /\ (line.full_page = "on" \/ line.page_range = "full")
       \/ line.full_page = "on" /\ line.page_range = "viewport"
       \/ "zero" \in {line.viewport_width, line.viewport_height, line.device_scale_factor}
       \/ Given(line, "viewport_width") # Given(line, "viewport_height")
  \/ command = "resize" /\ "zero" \in {line.width, line.height}
  \/ command \in {"eval", "eval-on"} /\ Given(line, "code") /\ Given(line, "code_file")
  \/ \E o \in DOMAIN line : /\ Options(command)[o] \in {"text", "ref", "url"}
                            /\ line[o] \in {"blank", "empty"}

ContradictionsRefused == stage = "executed" => ~Contradictory
=============================================================================
