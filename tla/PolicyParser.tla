---------------------------- MODULE PolicyParser ----------------------------
(***************************************************************************)
(* Reading the audio policy configuration: the XML callbacks that follow   *)
(* the elements of a file through the table of known elements, the files   *)
(* it includes, and the configuration made of what was read.  The XML      *)
(* library and the files are the environment: it opens and closes the      *)
(* elements of any well-formed document the constants allow, delivers text *)
(* in pieces, and may find the rest of a file malformed.                   *)
(***************************************************************************)
EXTENDS DroidConfig

CONSTANTS
    Names,          \* names of mix ports and device ports
    Texts,          \* texts of elements as they are delivered: names, or
                    \* pieces of one
    MixPorts,       \* attributes of the mixPort elements in the files
    DevicePorts,    \* attributes of the devicePort elements
    Routes,         \* attributes of the route elements
    Inside,         \* the elements a document may hold in each element
    MaxElements,    \* bound on the elements and texts of all files read
    MaxIncludes     \* bound on the files included

Nodes == {"root", "audioPolicyConfiguration", "globalConfiguration", "modules",
          "module", "modules_include", "module_include", "attachedDevices", "item",
          "defaultOutputDevice", "mixPorts", "mixPort", "devicePorts", "devicePort",
          "profile", "routes", "route"}

(* The name of an element of the table.                                    *)
Tag(n) == IF n \in {"modules_include", "module_include"} THEN "xi:include" ELSE n

(* A tag of a document: one of the table, or any other.                    *)
Tags == {Tag(n) : n \in Nodes \ {"root"}} \cup {"other"}

ASSUME ParserAssumption ==
    /\ MixPorts \subseteq [name : Names, role : {"source", "sink"}, primary : BOOLEAN]
    /\ \A d \in DevicePorts : d.name \in Names /\ d.role \in {"source", "sink"}
    /\ \A r \in Routes : r.sink \in Names /\ r.sources \in Seq(Names)
    /\ Inside \in [Tags \cup {"document"} -> SUBSET Tags]
    /\ MaxElements \in Nat /\ MaxIncludes \in Nat

(* The table of elements: what is read inside each.                        *)
Child ==
    [n \in Nodes |->
        CASE n = "root" -> {"audioPolicyConfiguration"}
          [] n = "audioPolicyConfiguration" -> {"globalConfiguration", "modules"}
          [] n = "modules" -> {"module", "modules_include"}
          [] n = "module" -> {"module_include", "attachedDevices", "defaultOutputDevice",
                              "mixPorts", "devicePorts", "routes"}
          [] n = "attachedDevices" -> {"item"}
          [] n = "mixPorts" -> {"mixPort"}
          [] n = "devicePorts" -> {"devicePort"}
          [] n \in {"mixPort", "devicePort"} -> {"profile"}
          [] n = "routes" -> {"route"}
          [] OTHER -> {}]

VARIABLES
    status,     \* "reading", "between" files, "done", "failed", "aborted"
                \* by an assertion, "crashed" on a NULL pointer
    include,    \* the include whose file is read, 0 for the first file
    path,       \* data->stack from the bottom, then data->current; empty
                \* when current is NULL
    at,         \* data->current_module, current_mix_port and
                \* current_device_port as indexes, 0 for NULL
    modules,    \* conf->modules
    includes,   \* conf->includes: their module, 0 for none
    open,       \* the document: the elements open in it, outermost first,
                \* each with the object made of it (0 for none)
    rooted,     \* the document has had its root element
    astray,     \* history: an element not read was opened inside one of the
                \* same name
    elements    \* bound: elements and texts of the documents so far

vars == <<status, include, path, at, modules, includes, open, rooted, astray, elements>>
docVars == <<open, rooted, astray, elements>>
confVars == <<modules, includes>>

Last(s) == s[Len(s)]
Front(s) == SubSeq(s, 1, Len(s) - 1)

NoPort == [module |-> 0, mix |-> 0, device |-> 0]
NewModule == [attached |-> <<>>, default |-> <<>>, mixPorts |-> <<>>,
              devicePorts |-> <<>>, routes |-> <<>>]
Module ==
    [attached : Seq(Texts), default : Seq(Texts),
     mixPorts : Seq([port : MixPorts, profiles : Nat]),
     devicePorts : Seq([port : DevicePorts, profiles : Nat]),
     routes : Seq(Routes)]
Root(i) == IF i = 0 THEN "root" ELSE "modules"

-----------------------------------------------------------------------------
TypeOK ==
    /\ status \in {"reading", "between", "done", "failed", "aborted", "crashed"}
    /\ include \in Nat /\ include <= Len(includes)
    /\ path \in Seq(Nodes)
    /\ at \in [module : Nat, mix : Nat, device : Nat]
    /\ modules \in Seq(Module) /\ includes \in Seq(0..Len(modules))
    /\ open \in Seq([tag : Tags, made : Nat])
    /\ rooted \in BOOLEAN /\ astray \in BOOLEAN /\ elements \in Nat

(* The parser before the first file, which opened.                         *)
Init ==
    /\ status = "reading" /\ include = 0 /\ path = <<"root">> /\ at = NoPort
    /\ modules = <<>> /\ includes = <<>>
    /\ open = <<>> /\ rooted = FALSE /\ astray = FALSE /\ elements = 0

-----------------------------------------------------------------------------
(* xml_start_element(): the child of the current element with this name.   *)
Found(tag) == {n \in Child[Last(path)] : Tag(n) = tag}

(* The document goes on with an element.                                   *)
MayOpen(tag) ==
    /\ status = "reading" /\ path # <<>> /\ elements < MaxElements
    /\ IF open = <<>> THEN ~rooted /\ tag \in Inside["document"]
       ELSE tag \in Inside[Last(open).tag]

Opens(tag, made) ==
    /\ open' = Append(open, [tag |-> tag, made |-> made])
    /\ rooted' = TRUE /\ elements' = elements + 1

(* An element the table has no place for: what is in it is read as if it   *)
(* was not there.                                                          *)
IgnoreElement(tag) ==
    /\ MayOpen(tag) /\ Found(tag) = {}
    /\ Opens(tag, 0)
    /\ astray' = (astray \/ tag = Tag(Last(path)))
    /\ UNCHANGED <<status, include, path, at, confVars>>

(* The element is pushed after its attributes were read.                   *)
Enter(n, made) ==
    /\ MayOpen(Tag(n)) /\ n \in Child[Last(path)]
    /\ path' = Append(path, n)
    /\ Opens(Tag(n), made)
    /\ UNCHANGED <<status, include, astray>>

(* Elements whose attributes are not kept, or not here.                    *)
Section(n) ==
    /\ n \in Nodes \ {"module", "modules_include", "module_include",
                       "mixPort", "devicePort", "profile", "route"}
    /\ Enter(n, 0)
    /\ UNCHANGED <<at, confVars>>

(* parse_module(): a file included in a module adds to that module.        *)
ReadModule ==
    LET into == IF include = 0 THEN 0 ELSE includes[include]
        m == IF into # 0 THEN into ELSE Len(modules) + 1
    IN  /\ Enter("module", m)
        /\ at' = [at EXCEPT !.module = m]
        /\ modules' = IF into # 0 THEN modules ELSE Append(modules, NewModule)
        /\ UNCHANGED includes

(* parse_module_include() *)
ReadInclude(n) ==
    /\ n \in {"modules_include", "module_include"} /\ Len(includes) < MaxIncludes
    /\ Enter(n, 0)
    /\ includes' = Append(includes, at.module)
    /\ UNCHANGED <<at, modules>>

(* parse_mix_port() *)
ReadMixPort(p) ==
    LET new == Append(modules[at.module].mixPorts, [port |-> p, profiles |-> 0])
    IN  /\ Enter("mixPort", Len(new))
        /\ modules' = [modules EXCEPT ![at.module].mixPorts = new]
        /\ at' = [at EXCEPT !.mix = Len(new)]
        /\ UNCHANGED includes

(* parse_device_port(): the role says in which table the type is looked    *)
(* up; a port of a type that is not there is left out without an error.    *)
KnownType(d) == d.type \in (IF d.role = "sink" THEN OutTypes ELSE InTypes)

ReadDevicePort(d) ==
    LET new == Append(modules[at.module].devicePorts, [port |-> d, profiles |-> 0])
    IN  IF KnownType(d)
        THEN /\ Enter("devicePort", Len(new))
             /\ modules' = [modules EXCEPT ![at.module].devicePorts = new]
             /\ at' = [at EXCEPT !.device = Len(new)]
             /\ UNCHANGED includes
        ELSE Enter("devicePort", 0) /\ UNCHANGED <<at, confVars>>

(* parse_profile(): for the mix port or the device port it is in; dropped  *)
(* when its format or channels are not supported, or the port was.         *)
ReadProfile(usable) ==
    /\ Enter("profile", 0)
    /\ modules' = CASE usable /\ at.mix # 0 ->
                         [modules EXCEPT ![at.module].mixPorts[at.mix].profiles = @ + 1]
                    [] usable /\ at.mix = 0 /\ at.device # 0 ->
                         [modules EXCEPT ![at.module].devicePorts[at.device].profiles = @ + 1]
                    [] OTHER -> modules
    /\ UNCHANGED <<at, includes>>

(* parse_route() *)
ReadRoute(r) ==
    /\ Enter("route", 0)
    /\ modules' = [modules EXCEPT ![at.module].routes = Append(@, r)]
    /\ UNCHANGED <<at, includes>>

(* Mutant of GiveUp: the assertion is for the first file too.              *)
GiveUpAsserts == IF at.module # 0 THEN "aborted" ELSE "failed"

(* parse_file() gives up.  The file of an include is followed by the       *)
(* assertion that no module is left open, before its result is looked at.  *)
GiveUp == IF include # 0 /\ at.module # 0 THEN "aborted" ELSE "failed"

(* An attribute is missing or cannot be parsed: the stack is emptied and    *)
(* the XML parser stopped.                                                 *)
Reject(n) ==
    /\ n \in {"audioPolicyConfiguration", "modules_include", "module_include",
               "mixPort", "devicePort", "route", "profile"}
    /\ MayOpen(Tag(n)) /\ n \in Child[Last(path)]
    /\ n = "profile" => at.mix # 0 \/ at.device # 0
    /\ path' = <<Last(path)>>
    /\ status' = GiveUp
    /\ UNCHANGED <<include, at, confVars, docVars>>

(* Mutant of Left: a module ends with its ports.                           *)
LeftModuleEarly(a, tag) ==
    CASE tag \in {"module", "mixPort"} -> [a EXCEPT !.module = 0, !.mix = 0]
      [] tag = "devicePort" -> [a EXCEPT !.device = 0]
      [] OTHER -> a

(* The current port or module ends with its element.                       *)
Left(a, tag) ==
    CASE tag = "module" -> [a EXCEPT !.module = 0]
      [] tag = "mixPort" -> [a EXCEPT !.mix = 0]
      [] tag = "devicePort" -> [a EXCEPT !.device = 0]
      [] OTHER -> a

(* Mutant of EndElement: every end pops the current element.               *)
EndElementAny ==
    /\ status = "reading" /\ open # <<>> /\ path # <<>>
    /\ path' = Front(path) /\ at' = Left(at, Last(open).tag)
    /\ open' = Front(open)
    /\ UNCHANGED <<status, include, confVars, rooted, astray, elements>>

(* xml_end_element(): only the name is compared with the current element.  *)
EndElement ==
    /\ status = "reading" /\ open # <<>> /\ path # <<>>
    /\ LET tag == Last(open).tag IN
         IF Tag(Last(path)) = tag
         THEN path' = Front(path) /\ at' = Left(at, tag)
         ELSE UNCHANGED <<path, at>>
    /\ open' = Front(open)
    /\ UNCHANGED <<status, include, confVars, rooted, astray, elements>>

(* xml_character_data_handler(): called for every piece of a text.         *)
ReadText(t) ==
    /\ status = "reading" /\ open # <<>> /\ path # <<>> /\ elements < MaxElements
    /\ \/ /\ Last(path) = "item"
          /\ modules' = [modules EXCEPT ![at.module].attached = Append(@, t)]
       \/ /\ Last(path) = "defaultOutputDevice"
          /\ modules' = [modules EXCEPT ![at.module].default = Append(@, t)]
    /\ elements' = elements + 1
    /\ UNCHANGED <<status, include, path, at, includes, open, rooted, astray>>

(* Any callback after the last element of the stack was popped.            *)
NullCurrent ==
    /\ status = "reading" /\ open # <<>> /\ path = <<>>
    /\ status' = "crashed"
    /\ UNCHANGED <<include, path, at, confVars, docVars>>

(* The file is cut short, or not well-formed from here on.                 *)
Malformed ==
    /\ status = "reading" /\ status' = GiveUp
    /\ UNCHANGED <<include, path, at, confVars, docVars>>

EndOfFile ==
    /\ status = "reading" /\ open = <<>> /\ rooted
    /\ status' = IF include # 0 /\ at.module # 0 THEN "aborted" ELSE "between"
    /\ UNCHANGED <<include, path, at, confVars, docVars>>

(* pa_parse_droid_audio_config_xml(): the includes are a list that grows   *)
(* while it is gone through, with those of the included files.             *)
OpenInclude ==
    /\ status = "between" /\ include < Len(includes)
    /\ include' = include + 1
    /\ \/ /\ status' = "reading"
          /\ path' = Append(IF path = <<>> THEN <<>> ELSE Front(path), Root(include'))
          /\ rooted' = FALSE
          /\ UNCHANGED <<at, confVars, open, astray, elements>>
       \/ /\ status' = IF at.module # 0 THEN "aborted" ELSE "failed"
          /\ UNCHANGED <<path, at, confVars, docVars>>

Finish ==
    /\ status = "between" /\ include = Len(includes)
    /\ status' = "done"
    /\ UNCHANGED <<include, path, at, confVars, docVars>>

ReadElement ==
    \/ \E tag \in Tags : IgnoreElement(tag)
    \/ \E n \in Nodes : Section(n) \/ ReadInclude(n)
    \/ ReadModule
    \/ \E p \in MixPorts : ReadMixPort(p)
    \/ \E d \in DevicePorts : ReadDevicePort(d)
    \/ \E usable \in BOOLEAN : ReadProfile(usable)
    \/ \E r \in Routes : ReadRoute(r)

Next ==
    \/ ReadElement
    \/ \E n \in Nodes : Reject(n)
    \/ EndElement
    \/ \E t \in Texts : ReadText(t)
    \/ NullCurrent \/ Malformed \/ EndOfFile
    \/ OpenInclude \/ Finish

Spec == Init /\ [][Next]_vars

-----------------------------------------------------------------------------
(* The object made of the innermost open element of a tag that one was     *)
(* made of, 0 when there is none.                                          *)
Made(tag) ==
    LET of == {i \in DOMAIN open : open[i].tag = tag /\ open[i].made # 0}
    IN  IF of = {} THEN 0 ELSE open[CHOOSE i \in of : \A j \in of : j <= i].made

(* Where the table leads to from a root along the open elements, skipping  *)
(* those it has no place for.                                              *)
Extended(way, tag) ==
    LET next == {n \in Child[Last(way)] : Tag(n) = tag}
    IN  IF next = {} THEN way ELSE Append(way, CHOOSE n \in next : TRUE)

Walk(root) ==
    LET way[i \in 0..Len(open)] ==
            IF i = 0 THEN <<root>> ELSE Extended(way[i - 1], open[i].tag)
    IN  way[Len(open)]

(* The position of the parser is a function of the elements open in the    *)
(* document: elements that have ended leave no trace, ignored ones do not  *)
(* count.  Unless an ignored element was inside one of the same name, whose *)
(* place its end takes.                                                    *)
PathFollowsDocument ==
    status = "reading" /\ ~astray => path = Walk(Root(include))

(* The current module and ports, which profiles, ports and routes are      *)
(* added to, are those of the elements the parser is in.                   *)
CurrentIsOpen ==
    status = "reading" /\ ~astray =>
        at = [module |-> Made("module"), mix |-> Made("mixPort"),
              device |-> Made("devicePort")]

(* No callback of an element of a module or a port finds the pointer it    *)
(* needs NULL, whatever the document: a port is current only inside its    *)
(* element, a module for as long as the parser is in one.                  *)
ModuleForItsParts ==
    status = "reading" =>
        LET in(n) == \E i \in DOMAIN path : path[i] = n
        IN  /\ in("module") <=> at.module # 0
            /\ in("mixPort") <=> at.mix # 0
            /\ at.device # 0 => in("devicePort")
            /\ at.module \in 0..Len(modules)

(* A document that has ended leaves nothing to the next: no module or port *)
(* is current, and the stack is empty.                                     *)
LeavesNothing ==
    open = <<>> /\ status \in {"reading", "between", "done"} => at = NoPort /\ Len(path) <= 1

(* The first file never ends the daemon, whatever is in it.                *)
FirstFileIsSafe == status \in {"aborted", "crashed"} => include # 0

(* The parser runs out of its stack only on a file with an element in one  *)
(* of the same name.                                                       *)
CrashIsAstray == status = "crashed" => astray

(* What is current is right for every callback: the objects of the         *)
(* elements the parser is in, never NULL where one is needed, and nothing  *)
(* left from a document before.                                            *)
CurrentIsRight == CurrentIsOpen /\ ModuleForItsParts /\ LeavesNothing

(* The daemon survives reading: it can only be ended by an included file,  *)
(* and only the end tag of one that went astray crashes it.                *)
ReadingEnds == FirstFileIsSafe /\ CrashIsAstray

(* "pa_assert(!data.current_module)": no module is open after an included  *)
(* file.                                                                   *)
NoModuleLeft == status # "aborted"

=============================================================================
