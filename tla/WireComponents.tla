---------------------------- MODULE WireComponents ----------------------------
(***************************************************************************)
(* The components of a message between servers (redis.rs): the plugin      *)
(* writes a hover or a click in the shape of the host, the network carries *)
(* that of Adventure.  A JSON value is <<kind, content>>: an object is a   *)
(* function from its keys, a list a sequence, text and numbers themselves. *)
(***************************************************************************)
EXTENDS Integers, Sequences, TLC, Functions

CONSTANTS Components,      \* what a plugin sends, in the shape of the host
          ModComponents    \* what a server with the mod sends, in the other one

VARIABLES sent,    \* the component a plugin sent, or Nothing
          wire,    \* what is on the way
          shown    \* what the receiving plugin gives its host

wireVars == <<sent, wire, shown>>

Nothing == <<"nothing", 0>>
Object(keys) == <<"object", keys>>
List(values) == <<"list", values>>
EachOf(values, Op(_)) == List([i \in DOMAIN values |-> Op(values[i])])
Lacking(object, keys) == Restrict(object, DOMAIN object \ keys)
Action(object) == IF "action" \in DOMAIN object /\ object["action"][1] = "text" THEN object["action"][2] ELSE ""

\* object.remove(from), converted, inserted again as to.
Moved(object, from, to, Op(_)) ==
  IF from \in DOMAIN object THEN (to :> Op(object[from])) @@ Lacking(object, {from}) ELSE object

\* Mutant: a name of one component is wrapped as well.
SingleWrapped(name) == IF name[1] # "list" THEN name ELSE Object("extra" :> name)

Single(name) == IF name[1] # "list" THEN name
                ELSE IF Len(name[2]) = 1 THEN name[2][1] ELSE Object("extra" :> name)
Same(value) == value
PageOf(value) == IF value[1] = "text" /\ value[2] \in {"1", "2", "3"}
                 THEN <<"number", CASE value[2] = "1" -> 1 [] value[2] = "2" -> 2 [] OTHER -> 3>> ELSE value

\* convert_click_wire_json.
PayloadKey(action) == CASE action = "open_url" -> "url"
                        [] action \in {"run_command", "suggest_command"} -> "command"
                        [] action = "open_file" -> "path"
                        [] action = "change_page" -> "page"
                        [] OTHER -> "value"
\* Mutant: the page stays as it came.
ClickPageAsIs(value, outward) ==
  IF value[1] # "object" THEN value
  ELSE LET key == PayloadKey(Action(value[2]))
       IN  Object(IF outward THEN Moved(value[2], key, "value", Same) ELSE Moved(value[2], "value", key, Same))

Click(value, outward) ==
  IF value[1] # "object" THEN value
  ELSE LET key == PayloadKey(Action(value[2]))
       IN  Object(IF outward THEN Moved(value[2], key, "value", Same)
                  ELSE Moved(value[2], "value", key, LAMBDA v : IF key = "page" THEN PageOf(v) ELSE v))

RECURSIVE Converted(_, _)

\* convert_hover_wire_json.
Hover(value, outward) ==
  LET object == value[2]
      entity == Action(object) = "show_entity"
      Deep(v) == IF v[1] = "list" THEN EachOf(v[2], LAMBDA c : Converted(c, outward)) ELSE Converted(v, outward)
      AsList(v) == IF v[1] = "list" THEN Deep(v) ELSE List(<<Deep(v)>>)
      Elements(v) == IF v[1] = "list" THEN Deep(v) ELSE v
      \* The keys on either side: the entity has its type under id, and its id under uuid.
      Outer(key) == CASE entity /\ key = "type" -> "id" [] entity /\ key = "id" -> "uuid" [] OTHER -> key
      Inner == IF entity THEN {"type", "id", "count", "name"} ELSE {"id", "count"}
      Taken == {k \in Inner : Outer(k) \in DOMAIN object}
      Contents == [k \in Taken |-> IF k = "name" THEN Single(object[k]) ELSE object[Outer(k)]]
      Spread(contents) == [k \in {Outer(c) : c \in DOMAIN contents} |->
                             LET c == CHOOSE d \in DOMAIN contents : Outer(d) = k
                             IN  CASE entity /\ c \in {"type", "id"} -> contents[c]
                                   [] entity /\ c = "name" -> AsList(contents[c])
                                   [] OTHER -> Elements(contents[c])]
  IN  IF value[1] # "object" THEN value
      ELSE IF Action(object) = "show_text"
      THEN Object(IF outward THEN Moved(object, "value", "contents", Deep)
                  ELSE Moved(object, "contents", "value", AsList))
      ELSE IF Action(object) \notin {"show_item", "show_entity"} THEN value
      ELSE IF outward THEN Object(("contents" :> Object(Contents)) @@ Lacking(object, {Outer(k) : k \in Taken}))
      ELSE IF "contents" \notin DOMAIN object THEN value
      ELSE IF object["contents"][1] # "object" THEN Object(Lacking(object, {"contents"}))
      ELSE Object(Spread(object["contents"][2]) @@ Lacking(object, {"contents"}))

\* convert_wire_json: the events, then the children.
Converted(value, outward) ==
  LET Turn(object, host, adventure, Op(_)) ==
        IF outward THEN Moved(object, host, adventure, Op) ELSE Moved(object, adventure, host, Op)
      hovered == Turn(value[2], "hover_event", "hoverEvent", LAMBDA h : Hover(h, outward))
      clicked == Turn(hovered, "click_event", "clickEvent", LAMBDA c : Click(c, outward))
      Child(v) == IF v[1] = "list" THEN EachOf(v[2], LAMBDA c : Converted(c, outward)) ELSE v
  IN  IF value[1] # "object" THEN value
      ELSE Object([k \in DOMAIN clicked |-> IF k \in {"extra", "with"} THEN Child(clicked[k]) ELSE clicked[k]])

WireInit == sent = Nothing /\ wire = Nothing /\ shown = Nothing

\* to_adventure_wire_json, of what is relayed.
SendComponent(component) ==
  /\ wire = Nothing
  /\ sent' = component
  /\ wire' = Converted(component, TRUE)
  /\ UNCHANGED shown

\* The mod sends one.
ModSends(component) == wire = Nothing /\ wire' = component /\ UNCHANGED <<sent, shown>>

\* deserialize_component.
ReceiveComponent ==
  /\ wire # Nothing /\ shown = Nothing
  /\ shown' = Converted(wire, FALSE)
  /\ UNCHANGED <<sent, wire>>

WireNext ==
  \/ \E component \in Components : SendComponent(component)
  \/ \E component \in ModComponents : ModSends(component)
  \/ ReceiveComponent

(******************************* Properties ********************************)
\* The receiving plugin shows what the sending plugin showed: nothing of a hover
\* or a click is lost or changed on the way, at any depth.
ArrivesAsSent == sent # Nothing /\ shown # Nothing => shown = sent

RECURSIVE Objects(_)
Objects(value) == CASE value[1] = "object" -> {value[2]} \cup UNION {Objects(value[2][k]) : k \in DOMAIN value[2]}
                    [] value[1] = "list" -> UNION {Objects(value[2][i]) : i \in DOMAIN value[2]}
                    [] OTHER -> {}

\* Neither side is given a key only the other one knows, at any depth, and the
\* host gets the lists and the page numbers it insists on, whoever sent them.
EachItsOwnShape ==
  /\ \A o \in Objects(wire) : {"hover_event", "click_event"} \cap DOMAIN o = {}
  /\ \A o \in Objects(shown) :
       /\ {"hoverEvent", "clickEvent", "contents"} \cap DOMAIN o = {}
       /\ Action(o) = "show_text" /\ "value" \in DOMAIN o => o["value"][1] = "list"
       /\ "page" \in DOMAIN o => o["page"][1] = "number"
       /\ Action(o) = "show_entity" /\ "name" \in DOMAIN o => o["name"][1] = "list"
===============================================================================
