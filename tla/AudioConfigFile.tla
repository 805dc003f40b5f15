-------------------------- MODULE AudioConfigFile --------------------------
(***************************************************************************)
(* The configuration file of rksoundsetting: /data/system's                *)
(* rt_audio_config.xml, which every process with a RkAudioSetting copies   *)
(* from the system image when it is missing (RkAudioSettingManager::init), *)
(* loads, and from then on rewrites in place at each setting.  A step is   *)
(* one file-system call; a process may be killed between any two.          *)
(*                                                                         *)
(* A file's content is the settings it has, or Partial from the moment it  *)
(* is opened for writing until its writer closes it.  LoadFile refuses a   *)
(* Partial file: an empty document and one without its last end tag are    *)
(* errors to TinyXML, which is external.  The system file and the space    *)
(* for a copy are there.                                                   *)
(***************************************************************************)
EXTENDS Naturals, FiniteSets

CONSTANTS Processes,   \* with a RkAudioSetting each
          Settings,    \* what a process may set
          Default,     \* the settings of the system file
          Partial,     \* no settings: a file being written, or cut short
          Tries,       \* attempts of the constructor: tryNum from 5 down to 0
          MaxSaves,    \* bound: settings made
          MaxKills     \* bound: processes killed

ASSUME ConfigAssumption ==
    /\ Default \notin Settings /\ Partial \notin Settings \cup {Default}
    /\ Tries \in Nat \ {0} /\ MaxSaves \in Nat /\ MaxKills \in Nat

None == 0
Inodes == 1 .. Cardinality(Processes) + 2

VARIABLES config, temp,  \* the files the two names stand for, or None
          content,       \* [Inodes -> settings or Partial]
          at,            \* per process: what it does next
          tries,         \* per process: attempts left
          file,          \* per process: the file it has open, or None
          doc,           \* per process: XMLDoc
          saved,         \* the settings of the last save that ended
          torn,          \* a process was killed in a save, none ended since
          saves, kills   \* made so far

fileVars == <<config, temp, content, at, tries, file, doc, saved, torn, saves, kills>>
procVars == <<tries, file, doc, saved, torn, saves, kills>>

FileTypeOK ==
    /\ config \in Inodes \cup {None} /\ temp \in Inodes \cup {None}
    /\ content \in [Inodes -> Settings \cup {Default, Partial}]
    /\ at \in [Processes -> {"down", "probe", "clean", "open", "write", "rename",
                             "load", "discard", "ready", "save", "failed"}]
    /\ tries \in [Processes -> 0 .. Tries]
    /\ file \in [Processes -> Inodes \cup {None}]
    /\ doc \in [Processes -> Settings \cup {Default, Partial}]
    /\ \A p \in Processes : at[p] = "ready" => doc[p] # Partial
    /\ saved \in Settings \cup {Default}
    /\ torn \in BOOLEAN
    /\ saves \in 0 .. MaxSaves /\ kills \in 0 .. MaxKills

FileInit ==
    /\ config = None /\ temp = None
    /\ content = [i \in Inodes |-> Partial]
    /\ at = [p \in Processes |-> "down"]
    /\ tries = [p \in Processes |-> 0]
    /\ file = [p \in Processes |-> None]
    /\ doc = [p \in Processes |-> Partial]
    /\ saved = Default /\ torn = FALSE
    /\ saves = 0 /\ kills = 0
---------------------------------------------------------------------------
Goto(p, place) == at' = [at EXCEPT ![p] = place]

\* A file that has neither a name nor a process that has it open.
Free(i) == i \notin {config, temp} /\ \A p \in Processes : file[p] # i

\* fopen(name, "w") by p of the file a name stands for.
Opened(p, name) ==
    \E i \in Inodes :
       /\ IF name = None THEN Free(i) ELSE i = name
       /\ content' = [content EXCEPT ![i] = Partial]
       /\ file' = [file EXCEPT ![p] = i]

\* The name of the file p has opened.
NewName(p, name) == IF name = None THEN file'[p] ELSE name

\* fclose writes what was buffered.
Closed(p, settings) ==
    /\ content' = [content EXCEPT ![file[p]] = settings]
    /\ file' = [file EXCEPT ![p] = None]

\* init returns -1: the constructor tries again, or leaves mXMLReady false.
AttemptFailed(p) ==
    /\ tries' = [tries EXCEPT ![p] = @ - 1]
    /\ Goto(p, IF tries[p] = 1 THEN "failed" ELSE "probe")
---------------------------------------------------------------------------
\* RkAudioSetting::RkAudioSetting
Start(p) ==
    /\ at[p] = "down"
    /\ Goto(p, "probe")
    /\ tries' = [tries EXCEPT ![p] = Tries]
    /\ UNCHANGED <<config, temp, content, file, doc, saved, torn, saves, kills>>

\* Faulty variant: the system file is copied whether or not there is a file.
ProbeNot(p) ==
    /\ at[p] = "probe"
    /\ Goto(p, "clean")
    /\ UNCHANGED <<config, temp, content, procVars>>

\* init: access(RK_AUDIO_SETTING_CONFIG_FILE) ...
Probe(p) ==
    /\ at[p] = "probe"
    /\ Goto(p, IF config = None THEN "clean" ELSE "load")
    /\ UNCHANGED <<config, temp, content, procVars>>

\* ... a left-over temporary file goes ...
Clean(p) ==
    /\ at[p] = "clean"
    /\ Goto(p, "open")
    /\ temp' = None
    /\ UNCHANGED <<config, content, procVars>>

\* ... the system file is copied ...
OpenTemp(p) ==
    /\ at[p] = "open"
    /\ Goto(p, "write")
    /\ Opened(p, temp)
    /\ temp' = NewName(p, temp)
    /\ UNCHANGED <<config, tries, doc, saved, torn, saves, kills>>

WriteTemp(p) ==
    /\ at[p] = "write"
    /\ Goto(p, "rename")
    /\ Closed(p, Default)
    /\ UNCHANGED <<config, temp, tries, doc, saved, torn, saves, kills>>

\* ... and renamed; when that fails, remove fails as well.
Rename(p) ==
    /\ at[p] = "rename"
    /\ Goto(p, "load")
    /\ IF temp # None
       THEN config' = temp /\ temp' = None
       ELSE UNCHANGED <<config, temp>>
    /\ UNCHANGED <<content, procVars>>

\* Faulty variant: the result of LoadFile is not looked at.
LoadUnchecked(p) ==
    /\ at[p] = "load"
    /\ IF config = None
       THEN AttemptFailed(p) /\ UNCHANGED doc
       ELSE /\ Goto(p, "ready")
            /\ doc' = [doc EXCEPT ![p] = content[config]]
            /\ UNCHANGED tries
    /\ UNCHANGED <<config, temp, content, file, saved, torn, saves, kills>>

\* LoadFile; without a file the attempt has failed ...
Load(p) ==
    /\ at[p] = "load"
    /\ IF config = None
       THEN AttemptFailed(p) /\ UNCHANGED doc
       ELSE /\ UNCHANGED tries
            /\ IF content[config] = Partial
               THEN Goto(p, "discard") /\ UNCHANGED doc
               ELSE Goto(p, "ready") /\ doc' = [doc EXCEPT ![p] = content[config]]
    /\ UNCHANGED <<config, temp, content, file, saved, torn, saves, kills>>

\* Faulty variant: the file that does not parse is left there.
DiscardNot(p) ==
    /\ at[p] = "discard"
    /\ AttemptFailed(p)
    /\ UNCHANGED <<config, temp, content, file, doc, saved, torn, saves, kills>>

\* ... and with one that does not parse the name is removed first.
Discard(p) ==
    /\ at[p] = "discard"
    /\ config' = None
    /\ AttemptFailed(p)
    /\ UNCHANGED <<temp, content, file, doc, saved, torn, saves, kills>>

\* RkAudioSetting passes a call on only if a constructor's attempt succeeded.
mXMLReady(p) == at[p] = "ready"

\* A setter changes XMLDoc and saves it: SaveFile opens the file by name ...
Set(p, s) ==
    /\ mXMLReady(p)
    /\ saves < MaxSaves
    /\ Goto(p, "save")
    /\ doc' = [doc EXCEPT ![p] = s]
    /\ Opened(p, config)
    /\ config' = NewName(p, config)
    /\ saves' = saves + 1
    /\ UNCHANGED <<temp, tries, saved, torn, kills>>

\* ... and writes it.
EndSave(p) ==
    /\ at[p] = "save"
    /\ Goto(p, "ready")
    /\ Closed(p, doc[p])
    /\ saved' = doc[p] /\ torn' = FALSE
    /\ UNCHANGED <<config, temp, tries, doc, saves, kills>>

\* RkAudioSetting::~RkAudioSetting; the process may make another.
Delete(p) ==
    /\ at[p] \in {"ready", "failed"}
    /\ Goto(p, "down")
    /\ doc' = [doc EXCEPT ![p] = Partial]
    /\ UNCHANGED <<config, temp, content, tries, file, saved, torn, saves, kills>>

\* The process is killed: what it had not written is lost.
Kill(p) ==
    /\ at[p] \notin {"down", "failed"}
    /\ kills < MaxKills
    /\ kills' = kills + 1
    /\ Goto(p, "down")
    /\ file' = [file EXCEPT ![p] = None]
    /\ doc' = [doc EXCEPT ![p] = Partial]
    /\ torn' = (torn \/ at[p] = "save")
    /\ UNCHANGED <<config, temp, content, tries, saved, saves>>
---------------------------------------------------------------------------
InitStep(p) ==
    \/ Probe(p) \/ Clean(p) \/ OpenTemp(p) \/ WriteTemp(p) \/ Rename(p)
    \/ Load(p) \/ Discard(p)

\* Nobody does anything any more.
Idle == (\A p \in Processes : at[p] \in {"down", "ready", "failed"}) /\ UNCHANGED fileVars

FileNext ==
    \/ \E p \in Processes :
          \/ Start(p) \/ InitStep(p) \/ EndSave(p) \/ Delete(p) \/ Kill(p)
          \/ \E s \in Settings : Set(p, s)
    \/ Idle

\* A process that is not killed goes on with the call it is in.
FileSpec ==
    /\ FileInit /\ [][FileNext]_fileVars
    /\ \A p \in Processes : WF_fileVars(InitStep(p) \/ EndSave(p))
---------------------------------------------------------------------------
\* Wherever a process was killed before, a constructor that has the file for
\* itself needs at most one of its retries: no state of the two files is one
\* that init cannot get out of (RkAudioSetting.cpp:33-42).
OneRetryIsEnough == \A p \in Processes : at[p] # "down" => tries[p] >= Tries - 1

\* A process works with the settings that were saved last.  Only a kill in the
\* middle of a save, which rewrites the file in place, loses them, and then all
\* of them: the settings are those of the system file and no mixture.
SettingsSurvive ==
    \A p \in Processes :
       at[p] = "ready" => doc[p] = saved \/ (torn /\ doc[p] = Default)

\* The constructor ends with the settings loaded, unless it is killed.
ConstructorSucceeds ==
    \A p \in Processes : at[p] = "probe" ~> at[p] \in {"ready", "down"}
===========================================================================
