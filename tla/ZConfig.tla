------------------------------ MODULE ZConfig ------------------------------
(***************************************************************************)
(* A zconfig tree as the heap of its items, linked by child, next and      *)
(* parent, and the lines of text it is saved to and loaded from.  A line   *)
(* is its indentation, name and value; a path is the sequence of its       *)
(* names.  Values are free of double quotes, which s_config_save does not  *)
(* escape.                                                                 *)
(***************************************************************************)
EXTENDS Integers, Sequences, FiniteSets, SequencesExt, FiniteSetsExt, Functions

CONSTANTS
    Names,     \* names of items
    Values,    \* values of items other than "" and NULL
    MaxItems,  \* bound: items of a tree, the root included
    MaxLines,  \* bound: lines of a text
    MaxLevel   \* bound: indentation of a line

VARIABLES
    config,  \* the tree
    text     \* what the tree was loaded from, NoText once it was changed

vars == <<config, text>>

NULL == 0
NoValue == "NULL"
root == 1
Items == 1..MaxItems
NoText == <<[level |-> -1, name |-> "", value |-> ""]>>
Line(level, name, value) == [level |-> level, name |-> name, value |-> value]
Texts == UNION {[1..n -> [level : 0..MaxLevel, name : Names, value : {""} \cup Values]] : n \in 0..MaxLines}
Paths == UNION {[1..n -> Names] : n \in 1..2}

(***************************************************************************)
(* The tree.                                                               *)
(***************************************************************************)
RECURSIVE LastSibling(_, _)
LastSibling(c, item) == IF c.next[item] = NULL THEN item ELSE LastSibling(c, c.next[item])

Room(c) == c.used # Items

zconfig_new(c, name, parent) ==
    LET self == Min(Items \ c.used)
        first == c.child[parent]
        last == LastSibling(c, first)
    IN  [used |-> c.used \cup {self},
         name |-> [c.name EXCEPT ![self] = name],
         value |-> c.value,
         parent |-> [c.parent EXCEPT ![self] = parent],
         child |-> IF first = NULL THEN [c.child EXCEPT ![parent] = self] ELSE c.child,
         next |-> IF first = NULL THEN c.next ELSE [c.next EXCEPT ![last] = self]]

zconfig_set_value(c, item, value) == [c EXCEPT !.value[item] = value]

\* The first of the siblings from item on that has the name.
RECURSIVE Named(_, _, _)
Named(c, item, name) ==
    IF item = NULL \/ c.name[item] = name THEN item ELSE Named(c, c.next[item], name)

RECURSIVE zconfig_put(_, _, _, _)
zconfig_put(c, self, path, value) ==
    LET found == Named(c, c.child[self], Head(path))
        d == IF found # NULL THEN c ELSE zconfig_new(c, Head(path), self)
        child == Named(d, d.child[self], Head(path))
    IN  IF Len(path) > 1 THEN zconfig_put(d, child, Tail(path), value)
        ELSE zconfig_set_value(d, child, value)

RECURSIVE zconfig_locate(_, _, _)
zconfig_locate(c, self, path) ==
    LET child == Named(c, c.child[self], Head(path))
    IN  IF child = NULL \/ Len(path) = 1 THEN child ELSE zconfig_locate(c, child, Tail(path))

zconfig_get(c, path, default) ==
    LET item == zconfig_locate(c, root, path) IN IF item = NULL THEN default ELSE c.value[item]

\* The latest item at a depth, NULL if there is none.
RECURSIVE zconfig_at_depth(_, _, _)
zconfig_at_depth(c, self, level) ==
    IF level = 0 THEN self
    ELSE IF c.child[self] = NULL THEN NULL
    ELSE zconfig_at_depth(c, LastSibling(c, c.child[self]), level - 1)

\* What zconfig_destroy frees: the item, its children and the siblings after it.
RECURSIVE Destroyed(_, _)
Destroyed(c, item) ==
    IF item = NULL THEN {} ELSE {item} \cup Destroyed(c, c.child[item]) \cup Destroyed(c, c.next[item])

Freed(c, items) ==
    LET Clear(f, none) == [i \in Items |-> IF i \in items THEN none ELSE f[i]]
    IN  [used |-> c.used \ items, name |-> Clear(c.name, ""), value |-> Clear(c.value, NoValue),
         parent |-> Clear(c.parent, NULL), child |-> Clear(c.child, NULL), next |-> Clear(c.next, NULL)]

zconfig_remove_subtree(c, self) ==
    [Freed(c, Destroyed(c, c.child[self])) EXCEPT !.child[self] = NULL]

\* Taken off the list of its parent's children.
Unlinked(c, self) ==
    LET parent == c.parent[self]
    IN  IF c.child[parent] = self THEN [c EXCEPT !.child[parent] = c.next[self]]
        ELSE LET prev == CHOOSE i \in c.used : c.next[i] = self
             IN  [c EXCEPT !.next[prev] = c.next[self]]

zconfig_remove(c, self) == Freed(Unlinked(zconfig_remove_subtree(c, self), self), {self})

EmptyConfig ==
    [used |-> {root}, name |-> [i \in Items |-> IF i = root THEN "root" ELSE ""],
     value |-> [i \in Items |-> NoValue], parent |-> [i \in Items |-> NULL],
     child |-> [i \in Items |-> NULL], next |-> [i \in Items |-> NULL]]

(***************************************************************************)
(* Saving and loading.                                                     *)
(***************************************************************************)
\* An item without a value is written as its name, and read with the value "".
Saved(value) == IF value = NoValue THEN "" ELSE value

\* s_config_execute with s_config_save: an item, its children, then what follows it.
RECURSIVE s_config_save(_, _, _)
mut_config_save(c, item, level) ==
    IF item = NULL THEN <<>>
    ELSE <<Line(level, c.name[item], Saved(c.value[item]))>>
            \o s_config_save(c, c.next[item], level) \o s_config_save(c, c.child[item], level + 1)

s_config_save(c, item, level) ==
    IF item = NULL THEN <<>>
    ELSE <<Line(level, c.name[item], Saved(c.value[item]))>>
            \o s_config_save(c, c.child[item], level + 1) \o s_config_save(c, c.next[item], level)

zconfig_chunk_save(c) == s_config_save(c, c.child[root], 0)

\* One line: attached to the latest item of the level above, an error if there is none.
LoadLine(at, line) ==
    LET parent == zconfig_at_depth(at.config, root, line.level)
        item == Min(Items \ at.config.used)
    IN  IF ~at.valid \/ parent = NULL THEN [at EXCEPT !.valid = FALSE]
        ELSE [at EXCEPT !.config =
                zconfig_set_value(zconfig_new(@, line.name, parent), item, line.value)]

zconfig_chunk_load(lines) == FoldLeft(LoadLine, [valid |-> TRUE, config |-> EmptyConfig], lines)

(***************************************************************************)
(* Calls.                                                                  *)
(***************************************************************************)
ConfigInit == config = EmptyConfig /\ text = NoText

load(lines) ==
    /\ config = EmptyConfig /\ text = NoText
    /\ text' = lines
    /\ config' = IF zconfig_chunk_load(lines).valid THEN zconfig_chunk_load(lines).config ELSE config

add(name, parent) == Room(config) /\ config' = zconfig_new(config, name, parent) /\ text' = NoText
put(path, value) ==
    /\ MaxItems - Cardinality(config.used) >= Len(path)
    /\ config' = zconfig_put(config, root, path, value)
    /\ text' = NoText
set_value(item, value) == config' = zconfig_set_value(config, item, value) /\ text' = NoText
remove(item) == config' = zconfig_remove(config, item) /\ text' = NoText
remove_subtree(item) == config' = zconfig_remove_subtree(config, item) /\ text' = NoText

ConfigNext ==
    \/ \E lines \in Texts : load(lines)
    \/ \E name \in Names : \E parent \in config.used : add(name, parent)
    \/ \E path \in Paths : \E value \in Values : put(path, value)
    \/ \E item \in config.used \ {root} : \E value \in Values \cup {NoValue} : set_value(item, value)
    \/ \E item \in config.used \ {root} : remove(item)
    \/ \E item \in config.used : remove_subtree(item)

ConfigSpec == ConfigInit /\ [][ConfigNext]_vars

(***************************************************************************)
(* Properties.                                                             *)
(***************************************************************************)
\* After any mix of zconfig_new, zconfig_put and the removals the items are one tree:
\* each is on one list of children, that of its parent, and no list leads to a freed item.
TreeWhole ==
    /\ Destroyed(config, root) = config.used
    /\ config.next[root] = NULL
    /\ \A i \in config.used \ {root} :
        Cardinality({p \in config.used : config.child[p] = i}) +
            Cardinality({s \in config.used : config.next[s] = i}) = 1
    /\ \A p, i \in config.used : config.child[p] = i => config.parent[i] = p
    /\ \A s, i \in config.used : config.next[s] = i => config.parent[i] = config.parent[s]

\* An item and the siblings after it as nested sequences.
RECURSIVE Shape(_, _)
Shape(c, item) ==
    IF item = NULL THEN <<>>
    ELSE <<<<c.name[item], Saved(c.value[item]), Shape(c, c.child[item])>>>> \o Shape(c, c.next[item])

\* zconfig_dup, zconfig_chunk_save and zconfig_chunk_load: a saved tree is loaded again,
\* with every item at its place, whatever operations built it.
SavedIsLoaded ==
    LET copy == zconfig_chunk_load(zconfig_chunk_save(config))
    IN  copy.valid /\ Shape(copy.config, root) = Shape(config, root)

\* "Either the whole ZPL stream is valid or none of it is" (zconfig.c): a text is loaded
\* exactly if no line is indented more than one level below the line before it, and the
\* tree then holds its lines in their order at their levels.
TextLoads ==
    text # NoText =>
        LET valid == \A i \in DOMAIN text :
                text[i].level <= IF i = 1 THEN 0 ELSE text[i - 1].level + 1
        IN  IF valid THEN zconfig_chunk_save(config) = text ELSE config = EmptyConfig

\* "Insert or update configuration key with value" (zconfig.c): zconfig_get returns what
\* was put at a path, and at every other path what it returned before, items of the same
\* name included; an item made on the way has no value.
PutIsGot ==
    \A path \in Paths : \A value \in Values :
        MaxItems - Cardinality(config.used) >= Len(path) =>
            LET after == zconfig_put(config, root, path, value)
            IN  /\ zconfig_get(after, path, NoValue) = value
                /\ \A other \in Paths \ {path} :
                    zconfig_get(after, other, NoValue) = zconfig_get(config, other, NoValue)
=============================================================================
