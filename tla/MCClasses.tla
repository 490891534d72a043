----------------------------- MODULE MCClasses ------------------------------
(***************************************************************************)
(* The classes zlist, zmsg, ztrie, zconfig, zchunk, zarmour, zfile and     *)
(* zgossip_msg, the picture messages of zsock and the settings of zsys,    *)
(* for model checking.  A behaviour is one of its subject; the variables   *)
(* of the others stay as they begin.                                       *)
(***************************************************************************)
EXTENDS Integers, Sequences

VARIABLES
    subject,
    head, tail, list_cursor, list_size, next, list_item, free_fn, list_used,
    list, walking, ahead, marked,
    msg, sub,
    endpoint, match, routes,
    config, text,
    chunk, heap, lent, taken,
    armour, data, armoured, decoded,
    gmsg_sending, gmsg_receiving, gmsg_frames, gmsg_result,
    disk, now, file, pending, digesting, file_got, opened, lines, theirs,
    picture_wire, sent, picture_got, cache_size,
    env, s_initialized, setting, ctx, sockets, thread, calls, asked, misused, aborted

list_vars ==
    <<head, tail, list_cursor, list_size, next, list_item, free_fn, list_used,
      list, walking, ahead, marked>>
msg_vars == <<msg, sub>>
trie_vars == <<endpoint, match, routes>>
config_vars == <<config, text>>
chunk_vars == <<chunk, heap, lent, taken>>
armour_vars == <<armour, data, armoured, decoded>>
gmsg_vars == <<gmsg_sending, gmsg_receiving, gmsg_frames, gmsg_result>>
file_vars == <<disk, now, file, pending, digesting, file_got, opened, lines, theirs>>
picture_vars == <<picture_wire, sent, picture_got, cache_size>>
conf_vars ==
    <<env, s_initialized, setting, ctx, sockets, thread, calls, asked, misused, aborted>>

List == INSTANCE ZList WITH
    cursor <- list_cursor, size <- list_size, item <- list_item, used <- list_used,
    iterating <- walking, NodeIds <- 1 .. 3, Items <- 1 .. 3, SortsMarked <- FALSE

Msg == INSTANCE ZMsg WITH
    Octet <- 3, Frames <- {<<>>, <<3, 1>>, <<1, 2, 3>>}, MaxFrames <- 3, MaxOctets <- 6

Trie == INSTANCE ZTrie WITH
    Words <- {"a", "b"}, Regexes <- {"r"}, Params <- {"n"},
    Accepts <- LAMBDA e, w : e = "r" \/ w = "a",
    MaxNodes <- 4, MaxTokens <- 2, RemovesPastStar <- FALSE

Config == INSTANCE ZConfig WITH
    Names <- {"a", "b"}, Values <- {"v"}, MaxItems <- 4, MaxLines <- 3, MaxLevel <- 2

Chunk == INSTANCE ZChunk WITH
    Octets <- {1, 2}, MaxData <- 2, MaxSize <- 3, ReusesConsumed <- FALSE

Armour == INSTANCE ZArmour WITH
    text <- armoured, Octets <- {90, 165}, MaxOctets <- 6, LineLengths <- {0, 3, 4, 8},
    BreaksPadding <- FALSE

GMsg == INSTANCE ZGossipMsg WITH
    Octet <- 3, Keys <- {<<1>>, <<2, 1, 3, 1, 2>>}, Values <- {<<1, 2>>, <<3, 3, 3, 3, 3>>},
    Ttls <- {0, 70},
    sending <- gmsg_sending, receiving <- gmsg_receiving, frames <- gmsg_frames,
    result <- gmsg_result

File == INSTANCE ZFile WITH
    self <- file, got <- file_got, Contents <- {<<97, 13, 10>>, <<10, 97>>}, Chunks <- {<<98>>},
    MaxSize <- 3, MaxTime <- 2, BlockSize <- 1,
    OutputFails <- FALSE, SameSecond <- FALSE, ReadsBack <- FALSE

Pictures == INSTANCE ZPicture WITH
    Numbers <- {-7, 258}, Strings <- {<<>>, <<55>>, <<97, 98, 99>>}, Blocks <- {<<0, 55, 0>>},
    Messages <- {<<>>, << <<>>, <<9>> >>}, PointerSize <- 2, UuidSize <- 2, MaxElements <- 3,
    CacheSize <- 8, MAX_ALLOC_SIZE <- 3, GrowsCache <- FALSE, SendsEmpty <- FALSE,
    wire <- picture_wire, got <- picture_got

Conf == INSTANCE ZSysConf WITH
    Threads <- {"t1", "t2"},
    Settings <- {"thread_priority", "max_msgsz", "linger", "ipv4_mcast_address"},
    Values <- {1, 2}, MaxSockets <- 1, MaxCalls <- 3, LateInit <- FALSE

ClassesInit ==
    /\ subject \in {"zlist", "zmsg", "ztrie", "zconfig", "zchunk", "zarmour",
                    "zgossip_msg", "zfile", "zsys", "zsock"}
    /\ List!Init /\ Msg!MsgInit /\ Trie!Init /\ Config!ConfigInit
    /\ Chunk!ChunkInit /\ (subject = "zchunk" \/ \A c \in DOMAIN chunk : chunk[c].max_size = 0)
    /\ Armour!ArmourInit /\ (subject = "zarmour" \/ data = <<>>)
    /\ File!FileInit
    /\ Pictures!PictureInit
    /\ GMsg!GMsgInit
    /\ Conf!ConfInit /\ (subject = "zsys" \/ \A o \in DOMAIN env : env[o] = Conf!Unset)

\* The variables of the other subjects stay.
OthersStay ==
    /\ UNCHANGED subject
    /\ IF subject = "zlist" THEN TRUE ELSE UNCHANGED list_vars
    /\ IF subject = "zmsg" THEN TRUE ELSE UNCHANGED msg_vars
    /\ IF subject = "ztrie" THEN TRUE ELSE UNCHANGED trie_vars
    /\ IF subject = "zconfig" THEN TRUE ELSE UNCHANGED config_vars
    /\ IF subject = "zchunk" THEN TRUE ELSE UNCHANGED chunk_vars
    /\ IF subject = "zarmour" THEN TRUE ELSE UNCHANGED armour_vars
    /\ IF subject = "zgossip_msg" THEN TRUE ELSE UNCHANGED gmsg_vars
    /\ IF subject = "zfile" THEN TRUE ELSE UNCHANGED file_vars
    /\ IF subject = "zsock" THEN TRUE ELSE UNCHANGED picture_vars
    /\ IF subject = "zsys" THEN TRUE ELSE UNCHANGED conf_vars

zlist_step == subject = "zlist" /\ List!Next /\ OthersStay

zmsg_step == subject = "zmsg" /\ Msg!MsgNext /\ OthersStay

ztrie_step == subject = "ztrie" /\ Trie!Next /\ OthersStay

zconfig_step == subject = "zconfig" /\ Config!ConfigNext /\ OthersStay

zchunk_step == subject = "zchunk" /\ Chunk!ChunkNext /\ OthersStay

zarmour_step == subject = "zarmour" /\ Armour!ArmourNext /\ OthersStay

zgossip_msg_step == subject = "zgossip_msg" /\ GMsg!GMsgNext /\ OthersStay

zfile_step == subject = "zfile" /\ File!FileNext /\ OthersStay

zsock_step == subject = "zsock" /\ Pictures!PictureNext /\ OthersStay

zsys_step == subject = "zsys" /\ Conf!ConfNext /\ OthersStay

ClassesNext ==
    \/ zlist_step \/ zmsg_step \/ ztrie_step
    \/ zconfig_step \/ zchunk_step \/ zarmour_step \/ zgossip_msg_step \/ zsock_step
    \/ zfile_step \/ zsys_step

ClassesSpec ==
    /\ ClassesInit
    /\ [][ClassesNext]_<<subject, list_vars, msg_vars, trie_vars, config_vars,
                        chunk_vars, armour_vars, gmsg_vars, file_vars,
                        picture_vars, conf_vars>>

-----------------------------------------------------------------------------
(* The properties of the instances. *)

\* What was written is read back.  A message of zmsg is decoded into the frames it was
\* encoded from, whatever their sizes, and unwrapped into what was wrapped; a configuration
\* is loaded as it was saved, and get returns what was put; a zchunk is consumed in the
\* order it was filled; what was armoured is decoded octet for octet into a chunk of the
\* exact size; a zgossip_msg fills its frame, is received as it was sent and a part of one
\* is refused; a picture gives the values it was sent with, null for what is missing, and
\* the next one begins at the next message; and what zfile reads, as chunks or as lines, is
\* what the file holds.
WrittenIsRead ==
    /\ subject = "zmsg" => Msg!RoundTrip /\ Msg!UnwrapsWhatItWrapped
    /\ subject = "zconfig" => Config!SavedIsLoaded /\ Config!TextLoads /\ Config!PutIsGot
    /\ subject = "zchunk" => Chunk!StreamExact
    /\ subject = "zarmour" => Armour!ArmourRestores /\ Armour!SizeExact
    /\ subject = "zgossip_msg" => GMsg!MessageRestored /\ GMsg!PartsRefused /\ GMsg!FrameFilled
    /\ subject = "zsock" =>
          Pictures!PictureRestores /\ Pictures!ShortIsNull /\ Pictures!AtNextMessage
    /\ subject = "zfile" => File!ReadExact /\ File!LinesExact

\* No order of calls breaks a structure.  An iteration over a zlist that removes items skips
\* and repeats none and meets no freed node, and no item is freed that was not to be;
\* content_size of a zmsg is the size of its
\* frames; what a ztrie matches is a route that was inserted and covers the path, words before
\* patterns, an asterisk stays alone, and a route is found again to be removed; the items of a zconfig are one tree; each block of a
\* zchunk is freed or given back once.
StructuresHold ==
    /\ subject = "zlist" => List!ListWhole /\ List!IterationExact /\ List!FreesItsItem
    /\ subject = "zmsg" => Msg!ContentExact
    /\ subject = "ztrie" =>
          Trie!MatchSound /\ Trie!WordsFirst /\ Trie!StarAlone /\ Trie!RemoveFinds
    /\ subject = "zconfig" => Config!TreeWhole
    /\ subject = "zchunk" => Chunk!BlocksOwned

\* zsys: a setting has the value it was last given, by the environment or by a call of any
\* thread, over initialisation, shutdown and restart, a socket is created with the settings
\* in force, and no assertion fails without misuse.
SettingsHold ==
    subject = "zsys" => Conf!SettingsHold /\ Conf!SocketDefaults /\ Conf!AbortsOnlyOnMisuse

\* zfile: a kept digest is that of the file, or the file is known to have changed; and the
\* file a link names is never changed through it.
DigestTrue == subject = "zfile" => File!DigestTrue /\ File!LinkedUntouched

=============================================================================
