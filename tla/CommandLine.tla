---------------------------- MODULE CommandLine ----------------------------
(***************************************************************************)
(* What a command line may say and the request that it becomes: the        *)
(* commands of actions/cli_specs.py, the arguments that argparse accepts   *)
(* for each and the request builders.  A value is named by its class:      *)
(*   text     "text" (a known ref, a full address), "padded" with spaces,  *)
(*            "blank" (spaces only), "empty"; "bare" is an address with no *)
(*            scheme and "unknown" a ref that the last snapshot lacks      *)
(*   number   "number", "zero", "default" for the option's own default     *)
(*   choice   "other" than the default        flag  "on", "off"            *)
(*   JSON     "list", "object", "bad"         "absent" when not given      *)
(***************************************************************************)
EXTENDS FiniteSets, TLC

Words == {"text", "padded", "blank", "empty"}

\* The values of an option of each kind, and the one it has on an ordinary
\* line.
Values == [ text |-> Words, optText |-> Words \cup {"absent"},
            textOr |-> Words \cup {"default"}, script |-> Words \cup {"absent"},
            url |-> Words \cup {"bare"}, optUrl |-> Words \cup {"bare", "absent"},
            ref |-> Words \cup {"unknown"}, file |-> {"absent", "text", "blank", "unreadable"},
            number |-> {"number", "zero"}, optNumber |-> {"absent", "number", "zero"},
            numberOr |-> {"default", "number", "zero"}, delta |-> {"default", "number"},
            choice |-> {"default", "other"}, optChoice |-> {"absent", "other"},
            range |-> {"absent", "viewport", "full"},
            flag |-> {"off", "on"}, offFlag |-> {"off", "on"},
            clip |-> {"absent", "text", "bad", "empty"},
            json |-> {"list", "object", "bad"},
            commands |-> {"list", "object", "bad", "absent"},
            jsonFile |-> {"absent", "list", "object", "bad", "unreadable"} ]

Ordinary(kind) ==
  CASE kind \in {"text", "url", "ref", "script"} -> "text"
    [] kind \in {"textOr", "numberOr", "delta", "choice"} -> "default"
    [] kind \in {"json", "commands"} -> "list"
    [] kind = "number" -> "number"
    [] kind = "flag" -> "off"
    [] kind = "offFlag" -> "on"
    [] OTHER -> "absent"

-----------------------------------------------------------------------------
\* The arguments, under the names that argparse stores them by.

PageArguments ==
  [ none |-> <<>>,
    open |-> [url |-> "url"],
    optional_url |-> [url |-> "optUrl"],
    search |-> [query |-> "text", engine |-> "choice"],
    snapshot |-> [interactive |-> "flag", full_page |-> "offFlag"],
    page_id |-> [page_id |-> "text"],
    optional_page_id |-> [page_id |-> "optText"] ]

ElementArguments ==
  [ ref |-> [ref |-> "ref"],
    fill |-> [ref |-> "ref", text |-> "text", submit |-> "flag"],
    fill_form |-> [fields |-> "json", submit |-> "flag"],
    select |-> [ref |-> "ref", text |-> "text"],
    drag |-> [start_ref |-> "ref", end_ref |-> "ref"],
    upload |-> [ref |-> "ref", path |-> "text"] ]

InputArguments ==
  [ type |-> [text |-> "text", submit |-> "flag"],
    key |-> [key |-> "text"],
    scroll |-> [dx |-> "delta", dy |-> "numberOr"],
    mouse_click |-> [x |-> "number", y |-> "number", button |-> "choice", count |-> "numberOr"],
    mouse_move |-> [x |-> "number", y |-> "number"],
    mouse_drag |-> [x1 |-> "number", y1 |-> "number", x2 |-> "number", y2 |-> "number"],
    mouse_button |-> [button |-> "choice"] ]

EvalArguments == [code |-> "script", code_file |-> "file"]

ScriptArguments == [ eval |-> EvalArguments, eval_on |-> [ref |-> "ref"] @@ EvalArguments ]

CaptureArguments ==
  [ wait |-> [seconds |-> "optNumber", text |-> "optText", gone |-> "flag", exact |-> "flag"],
    wait_network |-> [timeout |-> "numberOr"],
    screenshot |-> [path |-> "text", full_page |-> "flag", page_range |-> "range",
                    clip |-> "clip", viewport_width |-> "optNumber",
                    viewport_height |-> "optNumber", device_scale_factor |-> "optNumber"],
    path |-> [path |-> "text"],
    optional_path |-> [path |-> "optText"] ]

DialogArguments ==
  [ dialog_setup |-> [action |-> "choice", text |-> "optText"],
    dialog |-> [dismiss |-> "flag", text |-> "optText"],
    console |-> [message_type |-> "optChoice", no_clear |-> "flag"] ]

NetworkFilters ==
  [ url_contains |-> "optText", url_regex |-> "optText", method |-> "optText",
    status |-> "optNumber", resource_type |-> "optText", mime_contains |-> "optText",
    include_static |-> "flag" ]

NetworkArguments ==
  [ network_wait |-> NetworkFilters @@ [timeout_seconds |-> "numberOr"],
    network |-> NetworkFilters @@ [no_clear |-> "flag"] ]

CookieArguments ==
  [ cookie_filter |-> [name |-> "optText", domain |-> "optText", path |-> "optText"],
    cookie_set |-> [name |-> "text", value |-> "text", domain |-> "optText", path |-> "textOr",
                    expires |-> "optNumber", http_only |-> "flag", secure |-> "flag",
                    same_site |-> "optChoice"] ]

VerifyArguments ==
  [ verify_text |-> [text |-> "text", exact |-> "flag", timeout |-> "numberOr"],
    verify_visible |-> [role |-> "text", name |-> "text", timeout |-> "numberOr"],
    verify_expected |-> [expected |-> "text", exact |-> "flag"],
    verify_state |-> [ref |-> "ref", state |-> "choice"],
    verify_value |-> [ref |-> "ref", expected |-> "text"] ]

TraceArguments ==
  [ trace_start |-> [no_screenshots |-> "flag", no_snapshots |-> "flag", sources |-> "flag"],
    trace_chunk |-> [title |-> "optText"],
    video_start |-> [width |-> "optNumber", height |-> "optNumber"],
    resize |-> [width |-> "number", height |-> "number"] ]

BatchArguments ==
  [ batch |-> [commands |-> "commands", file |-> "jsonFile", context |-> "jsonFile",
               context_file |-> "jsonFile", continue_on_error |-> "flag",
               result_mode |-> "choice"] ]

Arguments == PageArguments @@ ElementArguments @@ InputArguments @@ ScriptArguments
               @@ CaptureArguments @@ DialogArguments @@ NetworkArguments @@ CookieArguments
               @@ VerifyArguments @@ TraceArguments @@ BatchArguments

-----------------------------------------------------------------------------
\* The commands, each with the arguments that it takes.

For(commands, arguments) == [c \in commands |-> arguments]

PageSpecs ==
  For({"batch"}, "batch") @@ For({"open"}, "open") @@ For({"search"}, "search")
    @@ For({"info", "html", "reload", "back", "forward", "tabs", "close"}, "none")
    @@ For({"snapshot"}, "snapshot") @@ For({"new-tab"}, "optional_url")
    @@ For({"switch-tab"}, "page_id") @@ For({"close-tab"}, "optional_page_id")

ElementSpecs ==
  For({"click", "double-click", "hover", "focus", "options", "check", "uncheck",
       "scroll-to"}, "ref")
    @@ For({"fill"}, "fill") @@ For({"fill-form"}, "fill_form") @@ For({"select"}, "select")
    @@ For({"drag"}, "drag") @@ For({"upload"}, "upload")

InputSpecs ==
  For({"type"}, "type") @@ For({"press", "key-down", "key-up"}, "key")
    @@ For({"scroll"}, "scroll") @@ For({"mouse-click"}, "mouse_click")
    @@ For({"mouse-move"}, "mouse_move") @@ For({"mouse-drag"}, "mouse_drag")
    @@ For({"mouse-down", "mouse-up"}, "mouse_button")

ObserveSpecs ==
  For({"eval"}, "eval") @@ For({"eval-on"}, "eval_on") @@ For({"wait"}, "wait")
    @@ For({"wait-network"}, "wait_network") @@ For({"screenshot"}, "screenshot")
    @@ For({"pdf"}, "path") @@ For({"console"}, "console")
    @@ For({"console-start", "console-stop", "network-start", "network-stop"}, "none")
    @@ For({"network-wait"}, "network_wait") @@ For({"network"}, "network")

StateSpecs ==
  For({"dialog-setup"}, "dialog_setup") @@ For({"dialog"}, "dialog")
    @@ For({"dialog-remove"}, "none") @@ For({"cookies", "cookies-clear"}, "cookie_filter")
    @@ For({"cookie-set"}, "cookie_set") @@ For({"storage-save"}, "optional_path")
    @@ For({"storage-load"}, "path") @@ For({"verify-text"}, "verify_text")
    @@ For({"verify-visible"}, "verify_visible")
    @@ For({"verify-url", "verify-title"}, "verify_expected")
    @@ For({"verify-state"}, "verify_state") @@ For({"verify-value"}, "verify_value")

TraceSpecs ==
  For({"trace-start"}, "trace_start") @@ For({"trace-chunk"}, "trace_chunk")
    @@ For({"trace-stop", "video-stop"}, "optional_path")
    @@ For({"video-start"}, "video_start") @@ For({"resize"}, "resize") @@ For({"stop"}, "none")

Specs == PageSpecs @@ ElementSpecs @@ InputSpecs @@ ObserveSpecs @@ StateSpecs @@ TraceSpecs

Commands == DOMAIN Specs
Options(c) == Arguments[Specs[c]]

-----------------------------------------------------------------------------
\* argparse's exclusive groups: one source of code, one of commands, at most
\* one of a context.

Given(line, o) == o \in DOMAIN line /\ line[o] # "absent"

Parses(c, line) ==
  /\ c \in {"eval", "eval-on"} => Given(line, "code") # Given(line, "code_file")
  /\ c = "batch" => /\ Given(line, "commands") # Given(line, "file")
                    /\ ~(Given(line, "context") /\ Given(line, "context_file"))

\* _default_request: what is not given is left out of the request.
DefaultRequest(line) == [o \in {x \in DOMAIN line : Given(line, x)} |-> line[o]]

Without(options, request) == [o \in DOMAIN request \ options |-> request[o]]

Either(line, a, b) == IF Given(line, a) THEN line[a] ELSE line[b]

\* _screenshot_request: the range stands for the flag, a clip excludes both.
FullPage(line) ==
  IF Given(line, "page_range")
  THEN IF line.page_range = "full" THEN "on" ELSE "off"
  ELSE line.full_page

ScreenshotRefused(line) ==
  \/ line.page_range = "viewport" /\ line.full_page = "on"
  \/ line.clip \in {"text", "bad"} /\ FullPage(line) = "on"
  \/ line.clip = "bad"

ScreenshotRequest(line) ==
  Without({"page_range", "full_page"}, DefaultRequest(line)) @@ [full_page |-> FullPage(line)]

\* _eval_request: the code is read from its file before anything is sent.
EvalRefused(line) == Either(line, "code", "code_file") \in {"blank", "empty", "unreadable"}

EvalRequest(line) ==
  Without({"code", "code_file"}, DefaultRequest(line))
    @@ [code |-> Either(line, "code", "code_file")]

\* _batch_request: the commands and the context are parsed, the flag turned
\* around.
BatchRefused(line) ==
  \/ Either(line, "commands", "file") \in {"bad", "unreadable"}
  \/ \E o \in {"context", "context_file"} : line[o] \in {"bad", "unreadable", "list"}

BatchContext(line) ==
  IF Given(line, "context") \/ Given(line, "context_file")
  THEN [context |-> Either(line, "context", "context_file")] ELSE <<>>

BatchRequest(line) ==
  [ commands |-> Either(line, "commands", "file"), result_mode |-> line.result_mode,
    stop_on_error |-> IF line.continue_on_error = "on" THEN "off" ELSE "on" ]
    @@ BatchContext(line)

\* _fill_form_request.
FillFormRefused(line) == line.fields = "bad"

RequestRefused(c, line) ==
  CASE c = "screenshot" -> ScreenshotRefused(line)
    [] c \in {"eval", "eval-on"} -> EvalRefused(line)
    [] c = "batch" -> BatchRefused(line)
    [] c = "fill-form" -> FillFormRefused(line)
    [] OTHER -> FALSE

Request(c, line) ==
  CASE c = "screenshot" -> ScreenshotRequest(line)
    [] c \in {"eval", "eval-on"} -> EvalRequest(line)
    [] c = "batch" -> BatchRequest(line)
    [] OTHER -> DefaultRequest(line)
=============================================================================
