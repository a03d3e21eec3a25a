----------------------------- MODULE Attributes ----------------------------
(***************************************************************************)
(* Packet attributes of tcsim: merge_attributes (tcsim/attr.c) and the     *)
(* grammar actions that call it (tcsim/cfg.y).  A setting has normal or    *)
(* "default" priority.  The parser merges settings in the order in which   *)
(* its rules are reduced, and a reader of the script expects them to act   *)
(* in the order in which they are written.                                 *)
(***************************************************************************)
EXTENDS Integers, SequencesExt

CONSTANTS
  Attrs,       \* nfmark, priority, protocol, tc_index
  Values,      \* their values
  Zero,        \* the initial global value
  MaxSettings, \* bound: settings in a script
  MaxValues    \* bound: data values that have settings behind them

ASSUME ZeroAssumption == Zero \in Values
ASSUME BoundsAssumption == MaxSettings \in Nat /\ MaxValues \in Nat

(* struct attributes, one slot for each attribute.                         *)
Slot == [present : BOOLEAN, dflt : BOOLEAN, value : Values]
Attributes == [Attrs -> Slot]

no_attributes == [a \in Attrs |-> [present |-> FALSE, dflt |-> FALSE, value |-> Zero]]

(* The rules attribute and attribute_with_flags: one attribute is present. *)
Setting(a, v, d) ==
  [no_attributes EXCEPT ![a] = [present |-> TRUE, dflt |-> d, value |-> v]]

(* Slip: MERGE looks at the priority of the old setting only.              *)
SlipKeepsOld(old, new) == old.present /\ (~new.present \/ ~old.dflt)

(* The condition of the macro MERGE.                                       *)
KeepsOld(old, new) ==
  old.present /\ (~new.present \/ (~old.dflt /\ new.dflt))

MERGE(old, new) == IF KeepsOld(old, new) THEN old ELSE new

merge_attributes(old, new) == [a \in Attrs |-> MERGE(old[a], new[a])]

VARIABLES
  default_attributes,
  phase,      \* "items", "prefix" (behind "send"), "data", "reduce", "sent"
  list,       \* value of the rule attributes that is being parsed
  curr_attr,  \* attributes of the packet
  stack,      \* settings behind the data values read so far, last one first
  written,    \* history: the settings in textual order, with the data value
              \* that each is behind (0: in front of the data)
  documented  \* history: what they make of the attributes, one by one

attrVars == <<default_attributes, phase, list, curr_attr, stack, written, documented>>

initial_attributes == [a \in Attrs |-> [present |-> TRUE, dflt |-> TRUE, value |-> Zero]]

AttrInit ==
  /\ default_attributes = initial_attributes
  /\ phase = "items"
  /\ list = no_attributes
  /\ curr_attr = no_attributes
  /\ stack = << >>
  /\ written = << >>
  /\ documented = initial_attributes

(* doc/tcsim.inc: "Setting an attribute with default priority doesn't      *)
(* change that attribute if it has previously been set with normal         *)
(* priority.  In all other cases, the attribute is changed."               *)
Apply(attrs, a, v, d) ==
  IF d /\ ~attrs[a].dflt THEN attrs
  ELSE [attrs EXCEPT ![a] = [present |-> TRUE, dflt |-> d, value |-> v]]

(* The rule attributes is left recursive: the next setting is merged into  *)
(* the list so far.                                                        *)
NextSetting(a, v, d) ==
  /\ phase \in {"items", "prefix"} \/ (phase = "data" /\ stack # << >>)
  /\ Len(written) < MaxSettings
  /\ written' = Append(written, [attr |-> a, value |-> v, dflt |-> d, at |-> Len(stack)])
  /\ documented' = Apply(documented, a, v, d)
  /\ IF phase = "data"
       THEN /\ stack' = <<merge_attributes(Head(stack), Setting(a, v, d))>> \o Tail(stack)
            /\ UNCHANGED list
       ELSE /\ list' = merge_attributes(list, Setting(a, v, d))
            /\ UNCHANGED stack
  /\ UNCHANGED <<default_attributes, phase, curr_attr>>

(* "attribute ...": the settings change the global defaults, as if they    *)
(* were written in front of every packet.                                  *)
AttributeItem ==
  /\ phase = "items"
  /\ list # no_attributes
  /\ default_attributes' = merge_attributes(default_attributes, list)
  /\ list' = no_attributes
  /\ UNCHANGED <<phase, curr_attr, stack, written, documented>>

(* "send": the packet starts from the global defaults.                     *)
StartSend ==
  /\ phase = "items"
  /\ list = no_attributes
  /\ phase' = "prefix"
  /\ curr_attr' = default_attributes
  /\ UNCHANGED <<default_attributes, list, stack, written, documented>>

(* The data begins: the settings behind "send" go to curr_attr.            *)
Prefix ==
  /\ phase = "prefix"
  /\ curr_attr' = merge_attributes(curr_attr, list)
  /\ list' = no_attributes
  /\ phase' = "data"
  /\ UNCHANGED <<default_attributes, stack, written, documented>>

(* hex_value, followed by a list of settings of its own.                   *)
HexValue ==
  /\ phase = "data"
  /\ Len(stack) < MaxValues
  /\ stack' = <<no_attributes>> \o stack
  /\ UNCHANGED <<default_attributes, phase, list, curr_attr, written, documented>>

EndOfData ==
  /\ phase = "data"
  /\ phase' = "reduce"
  /\ UNCHANGED <<default_attributes, list, curr_attr, stack, written, documented>>

(* hex_string is right recursive: the rules are reduced from the last data *)
(* value to the first.                                                     *)
Reduce ==
  /\ phase = "reduce"
  /\ stack # << >>
  /\ curr_attr' = merge_attributes(curr_attr, Head(stack))
  /\ stack' = Tail(stack)
  /\ UNCHANGED <<default_attributes, phase, list, written, documented>>

(* cmd_send takes curr_attr.                                               *)
CmdSend ==
  /\ phase = "reduce"
  /\ stack = << >>
  /\ phase' = "sent"
  /\ UNCHANGED <<default_attributes, list, curr_attr, stack, written, documented>>

AttrNext ==
  \/ \E a \in Attrs, v \in Values, d \in BOOLEAN : NextSetting(a, v, d)
  \/ AttributeItem \/ StartSend \/ Prefix \/ HexValue \/ EndOfData \/ Reduce \/ CmdSend

AttrSpec == AttrInit /\ [][AttrNext]_attrVars

-----------------------------------------------------------------------------

(* The attribute is not set behind more than one data value of the packet. *)
BehindOne(a) ==
  \A i, j \in 1..Len(written) :
    /\ written[i].attr = a /\ written[i].at > 0
    /\ written[j].attr = a /\ written[j].at > 0
    => written[i].at = written[j].at

(* A packet is sent with the priority that the settings in front of it and *)
(* in it give an attribute when they act one after the other as written,   *)
(* although the parser merges them into lists first and the lists after-   *)
(* wards; and with the value they give it, unless it is set behind several *)
(* data values.  There the order of reduction shows in the value, against  *)
(* the sentence quoted at Apply: the first of equal priority wins, not the *)
(* last.                                                                   *)
AsDocumented ==
  phase = "sent" => \A a \in Attrs :
    /\ curr_attr[a].dflt <=> documented[a].dflt
    /\ BehindOne(a) => curr_attr[a] = documented[a]

-----------------------------------------------------------------------------
(* The inductive invariant, in parts *)

AttrTypeOK ==
  /\ default_attributes \in Attributes
  /\ phase \in {"items", "prefix", "data", "reduce", "sent"}
  /\ list \in Attributes
  /\ curr_attr \in Attributes
  /\ stack \in Seq(Attributes)
  /\ written \in Seq([attr : Attrs, value : Values, dflt : BOOLEAN, at : Nat])
  /\ documented \in Attributes

AllPresent(attrs) == \A a \in Attrs : attrs[a].present

Reading == phase \in {"data", "reduce"}

(* An attribute that the list of a data value sets was written behind that *)
(* data value.                                                             *)
StackWritten ==
  \A k \in 1..Len(stack) : \A a \in Attrs : stack[k][a].present =>
    \E i \in 1..Len(written) : written[i].attr = a /\ written[i].at = Len(stack) - k + 1

(* What has been merged and what is still to be merged amount together to  *)
(* what the settings say that have been read.                              *)
ListPending ==
  /\ AllPresent(default_attributes) /\ AllPresent(documented)
  /\ phase # "items" => AllPresent(curr_attr)
  /\ phase = "items" => stack = << >> /\ documented = merge_attributes(default_attributes, list)
  /\ phase = "prefix" => stack = << >> /\ documented = merge_attributes(curr_attr, list)

(* The same for the lists behind data values, as far as priorities go.     *)
PriorityPending ==
  Reading => \A a \in Attrs :
    documented[a].dflt <=>
      curr_attr[a].dflt /\ \A k \in 1..Len(stack) : stack[k][a].present => stack[k][a].dflt

(* And for values: at most one of the lists is about an attribute that is  *)
(* set behind one data value, so that their order does not matter to it.   *)
StackPending ==
  Reading => \A a \in Attrs : BehindOne(a) =>
    /\ (\A k \in 1..Len(stack) : ~stack[k][a].present) => documented[a] = curr_attr[a]
    /\ \A k \in 1..Len(stack) :
         stack[k][a].present => documented[a] = MERGE(curr_attr[a], stack[k][a])

AttrInv ==
  AttrTypeOK /\ StackWritten /\ ListPending /\ PriorityPending /\ StackPending /\ AsDocumented

=============================================================================
