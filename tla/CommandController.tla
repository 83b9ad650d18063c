-------------------------- MODULE CommandController --------------------------
(***************************************************************************)
(* The command controller (command_controller.rs), the conditions of its   *)
(* rules (condition.rs), and the commands that are answered only while a   *)
(* rule manages them (ControllerCommand of commands.rs).                   *)
(***************************************************************************)
EXTENDS Integers, Sequences

CONSTANTS Runners,        \* the players on line
          Grants,         \* pairs <<player, node>>: the permissions held
          OperatorSets,   \* who may be an operator
          CommandLines,   \* records [label, input]
          Controllers,    \* the Command-Controller sections a reload goes through
          MaxInstant      \* bound of the model

ASSUME CommandAssumption ==
  /\ Len(Controllers) \in Nat \ {0} /\ DOMAIN Controllers = 1..Len(Controllers)
  /\ MaxInstant \in Nat

VARIABLES instant,      \* the monotonic clock
          controller,   \* the section in force, an index of Controllers
          operators,    \* the players of permission level two or more
          lastRun,      \* COMMAND_COOLDOWNS
          charged,      \* the last use charged for, as the players see it
          verdict       \* what check_command said, if the last step was a command

commandVars == <<instant, controller, operators, lastRun, charged, verdict>>

Unused  == -1
Section == Controllers[controller]

(******************************* Conditions ********************************)
\* condition::test.  A condition is parsed into its negations and its clause;
\* whatever is not understood, a permission without a node included, is false.
Clause(condition, p) ==
  CASE condition.kind = "empty"    -> TRUE
    [] condition.kind = "operator" -> p \in operators
    [] condition.kind = "perm"     -> condition.node # "" /\ <<p, condition.node>> \in Grants
    [] OTHER                       -> FALSE

Holds(condition, p) == Clause(condition, p) <=> condition.nots % 2 = 0

(********************************** Rules **********************************)
\* matching_rule: the first rule that compiles and matches the whole subject.
Matches(rule, line) ==
  /\ line.input # ""
  /\ rule.compiles
  /\ (IF rule.exact THEN line.input ELSE line.label) \in rule.pattern

Matching(line) == {i \in DOMAIN Section.rules : Matches(Section.rules[i], line)}

FirstMatch(line) == CHOOSE i \in Matching(line) : \A j \in Matching(line) : i <= j

Managed(line) == Section.enabled /\ Matching(line) # {}

Sources == UNION {{Controllers[c].rules[i].source : i \in DOMAIN Controllers[c].rules} :
                    c \in DOMAIN Controllers}

\* check_cooldown: a use within the window is refused and not recorded.
Ready(p, rule) ==
  \/ lastRun[<<p, rule.source>>] = Unused
  \/ instant - lastRun[<<p, rule.source>>] >= rule.window

Exempt(p) == <<p, "trchat.bypass.cmdcooldown">> \in Grants

Verdict(p, line) ==
  LET rule == Section.rules[FirstMatch(line)]
  IN  IF ~Managed(line) THEN "allow"
      ELSE IF ~Holds(rule.condition, p) THEN "deny"
      ELSE IF rule.window = 0 \/ Exempt(p) THEN "allow"
      ELSE IF Ready(p, rule) THEN "charge" ELSE "wait"

(********************************** Steps **********************************)
NoVerdict == [kind |-> "allow", since |-> Unused, window |-> 0]

CommandInit ==
  /\ instant = 0 /\ controller = 1
  /\ operators \in OperatorSets
  /\ lastRun = [x \in Runners \X Sources |-> Unused]
  /\ charged = [x \in Runners \X Sources |-> Unused]
  /\ verdict = NoVerdict

\* Mutant: a refused use starts the window again.
PreprocessRefusedToo(p, line) ==
  LET kind == Verdict(p, line)
      rule == Section.rules[FirstMatch(line)]
  IN  /\ lastRun' = IF kind \in {"wait", "charge"}
                    THEN [lastRun EXCEPT ![<<p, rule.source>>] = instant] ELSE lastRun
      /\ charged' = IF kind = "charge"
                    THEN [charged EXCEPT ![<<p, rule.source>>] = instant] ELSE charged
      /\ verdict' = IF kind \notin {"wait", "charge"} THEN [NoVerdict EXCEPT !.kind = kind]
                    ELSE [kind |-> kind, window |-> rule.window,
                          since |-> charged[<<p, rule.source>>]]
      /\ UNCHANGED <<instant, controller, operators>>

\* CommandGuardHandler: the event is cancelled unless the verdict allows it.
Preprocess(p, line) ==
  LET kind == Verdict(p, line)
      rule == Section.rules[FirstMatch(line)]
      Charge(f) == IF kind = "charge" THEN [f EXCEPT ![<<p, rule.source>>] = instant] ELSE f
  IN  /\ lastRun' = Charge(lastRun)
      /\ charged' = Charge(charged)
      /\ verdict' = IF kind \notin {"wait", "charge"} THEN [NoVerdict EXCEPT !.kind = kind]
                    ELSE [kind |-> kind, window |-> rule.window,
                          since |-> charged[<<p, rule.source>>]]
      /\ UNCHANGED <<instant, controller, operators>>

\* /trabout, /trstatus, /trhelp: refused unless a rule manages their label.
ControlledCommand(line) ==
  /\ verdict' = [NoVerdict EXCEPT !.kind = IF Managed(line) THEN "shown" ELSE "disabled"]
  /\ UNCHANGED <<instant, controller, operators, lastRun, charged>>

ReloadRules ==
  /\ controller < Len(Controllers)
  /\ controller' = controller + 1
  /\ verdict' = NoVerdict
  /\ UNCHANGED <<instant, operators, lastRun, charged>>

InstantPasses ==
  /\ instant < MaxInstant
  /\ instant' = instant + 1
  /\ verdict' = NoVerdict
  /\ UNCHANGED <<controller, operators, lastRun, charged>>

CommandNext ==
  \/ \E p \in Runners, line \in CommandLines : Preprocess(p, line)
  \/ \E line \in CommandLines : ControlledCommand(line)
  \/ ReloadRules
  \/ InstantPasses

CommandSpec == CommandInit /\ [][CommandNext]_commandVars

(******************************* Properties ********************************)
CommandTypeOK ==
  /\ instant \in 0..MaxInstant /\ controller \in DOMAIN Controllers
  /\ operators \in OperatorSets
  /\ lastRun \in [Runners \X Sources -> 0..MaxInstant \cup {Unused}]
  /\ verdict.kind \in {"allow", "deny", "wait", "charge", "shown", "disabled"}

\* A player waits for a command no longer than its window from the last time it
\* was let through, however often it is tried in between, and is never let
\* through sooner; the window is the one in force when the command is typed,
\* also after a reload that changed or reordered the rules.
CommandsSpaced ==
  /\ verdict.kind = "wait"   => verdict.since # Unused /\ ~(instant - verdict.since >= verdict.window)
  /\ verdict.kind = "charge" => verdict.since = Unused \/ instant - verdict.since >= verdict.window
=============================================================================
