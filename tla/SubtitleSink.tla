---------------------------- MODULE SubtitleSink ----------------------------
(***************************************************************************)
(* RTSubteSink: the surface subtitles are drawn on.  The player library    *)
(* calls it from several threads: one creates and destroys it, one renders *)
(* (render, initScene, showScene, clean), one shows and hides it.          *)
(* mRenderLock is taken inside the calls, after their tests of             *)
(* mInitialized, mSurfaceShow and mEGLSurface, and not at all for a swap;  *)
(* so each test is a step.                                                 *)
(*                                                                         *)
(* A window of the compositor and the EGL surface made on it have the      *)
(* number of the create that made them.  A thread that drew stays bound to *)
(* the EGL surface it made current, destroyed or not.  setLayerStack,      *)
(* checkRotation and the other setters have no caller.                     *)
(***************************************************************************)
EXTENDS Naturals

CONSTANTS MaxCreates   \* bound: calls of create

ASSUME SubtitleAssumption == MaxCreates \in Nat \ {0}

None == 0
Numbers == 1 .. MaxCreates
Types == {"GPU", "RGA"}

VARIABLES mInitialized, mSurfaceShow, mBindThread, mRenderType,
          mSurfaceControl,  \* number of the window, or None
          mEGLSurface,      \* number of the EGL surface, or None
          mContext,         \* there is an EGL context
          creates,          \* calls of create so far
          made,             \* EGL surfaces that exist, with their render type
          visible,          \* windows the compositor shows
          owner,            \* creating thread: what it does next
          drawer, bound,    \* rendering thread: the same, and its EGL surface
          switcher,         \* showing and hiding thread
          raced             \* the sink changed during the rendering call

surfaceVars == <<mRenderType, mSurfaceControl, mEGLSurface, mContext, creates, made>>
showVars == <<mSurfaceShow, visible>>
callVars == <<drawer, bound, switcher>>
vars == <<mInitialized, mBindThread, surfaceVars, showVars, owner, callVars, raced>>

TypeOK ==
    /\ {mInitialized, mSurfaceShow, mBindThread, mContext, raced} \subseteq BOOLEAN
    /\ mRenderType \in Types
    /\ {mSurfaceControl, mEGLSurface, bound} \subseteq Numbers \cup {None}
    /\ creates \in 0 .. MaxCreates
    /\ made \subseteq Numbers \X Types /\ visible \subseteq Numbers
    /\ owner \in {"idle", "window", "egl", "show", "clean", "destroy", "dispose"}
    /\ drawer \in {"idle", "bind", "test", "draw", "swap"}
    /\ switcher \in {"idle", "show", "hide"}

Init ==
    /\ mInitialized = FALSE /\ mSurfaceShow = FALSE /\ mBindThread = FALSE
    /\ mRenderType = "GPU" /\ mContext = FALSE
    /\ mSurfaceControl = None /\ mEGLSurface = None
    /\ creates = 0 /\ made = {} /\ visible = {}
    /\ owner = "idle" /\ drawer = "idle" /\ switcher = "idle" /\ bound = None
    /\ raced = FALSE
---------------------------------------------------------------------------
(* create and destroy.                                                     *)

\* A step of these: calls under way overlap it.
OwnerStep(from, to) ==
    /\ owner = from /\ owner' = to
    /\ raced' = (raced \/ drawer # "idle")
    /\ UNCHANGED callVars

\* The fields are reset, without the lock.
Emptied ==
    /\ mSurfaceControl' = None /\ mEGLSurface' = None /\ mContext' = FALSE

\* Faulty variant: the rendering thread is taken to be bound already.
CreateBound(type) ==
    /\ ~mInitialized /\ creates < MaxCreates /\ OwnerStep("idle", "window")
    /\ mRenderType' = type /\ creates' = creates + 1
    /\ Emptied /\ mSurfaceShow' = FALSE
    /\ UNCHANGED <<mInitialized, mBindThread, made, visible>>

\* Faulty variant: mSurfaceShow is left as it was when destroyed.
CreateShown(type) ==
    /\ ~mInitialized /\ creates < MaxCreates /\ OwnerStep("idle", "window")
    /\ mRenderType' = type /\ creates' = creates + 1
    /\ Emptied /\ mBindThread' = FALSE
    /\ UNCHANGED <<mInitialized, made, showVars>>

Create(type) ==
    /\ ~mInitialized /\ creates < MaxCreates /\ OwnerStep("idle", "window")
    /\ mRenderType' = type /\ creates' = creates + 1
    /\ Emptied /\ mSurfaceShow' = FALSE /\ mBindThread' = FALSE
    /\ UNCHANGED <<mInitialized, made, visible>>

\* createSubitleSurface: a window, hidden as yet, if the compositor gives one.
CreateWindow(given) ==
    /\ OwnerStep("window", "egl")
    /\ mSurfaceControl' = IF given THEN creates ELSE None
    /\ UNCHANGED <<mInitialized, mBindThread, mRenderType, mEGLSurface, mContext, creates,
                   made, showVars>>

\* createEGLSurface, whatever the render type.  With a surface the sink is
\* initialised, with or without a context.
CreateEGLSurface(surface, context) ==
    /\ OwnerStep("egl", IF surface /\ mSurfaceControl # None THEN "show" ELSE "idle")
    /\ IF surface /\ mSurfaceControl # None
       THEN /\ mEGLSurface' = creates /\ mContext' = context
            /\ made' = made \cup {<<creates, mRenderType>>}
            /\ mInitialized' = TRUE
       ELSE UNCHANGED <<mEGLSurface, mContext, made, mInitialized>>
    /\ UNCHANGED <<mBindThread, mRenderType, mSurfaceControl, creates, showVars>>

\* show, at the end of create: nothing when the flag is up.
CreateShow ==
    /\ OwnerStep("show", "idle")
    /\ mSurfaceShow' = TRUE
    /\ visible' = IF mSurfaceShow THEN visible ELSE visible \cup {mSurfaceControl}
    /\ UNCHANGED <<mInitialized, mBindThread, surfaceVars>>

\* initScene, under the lock: on whatever the calling thread is bound to.
InitScene == mRenderType = "GPU" /\ mEGLSurface # None

\* clean begins: for RGA the window's buffer is emptied, and that is all.
Cleaning == mInitialized /\ InitScene
CleanBuffer == mInitialized /\ mRenderType = "RGA"

\* destroy first cleans, from a thread that is bound to no surface; between
\* the clearing and the swap the lock is free.
Destroy ==
    /\ mInitialized
    /\ OwnerStep("idle", IF CleanBuffer THEN "destroy" ELSE "clean")
    /\ UNCHANGED <<mInitialized, mBindThread, surfaceVars, showVars>>

CleanSwap ==
    /\ OwnerStep("clean", "destroy")
    /\ UNCHANGED <<mInitialized, mBindThread, surfaceVars, showVars>>

\* destoryEGLSurface, which leaves everything as it is for RGA.
DestroyEGLSurface ==
    /\ OwnerStep("destroy", "dispose")
    /\ IF mRenderType = "RGA"
       THEN UNCHANGED <<mEGLSurface, mContext, made>>
       ELSE /\ mEGLSurface' = None /\ mContext' = FALSE
            /\ made' = made \ {<<mEGLSurface, "GPU">>}
    /\ UNCHANGED <<mInitialized, mBindThread, mRenderType, mSurfaceControl, creates,
                   showVars>>

\* The client takes its window with it; mSurfaceShow stays as it is.
Dispose ==
    /\ OwnerStep("dispose", "idle")
    /\ mInitialized' = FALSE
    /\ visible' = visible \ {mSurfaceControl}
    /\ UNCHANGED <<mBindThread, surfaceVars, mSurfaceShow>>
---------------------------------------------------------------------------
(* render and showScene.                                                   *)

DrawerStep(from, to) ==
    /\ drawer = from /\ drawer' = to
    /\ raced' = (raced /\ from # "idle")
    /\ UNCHANGED <<mInitialized, surfaceVars, showVars, owner, switcher>>

\* Each call of RENDER_RGA, which render does not support, ends at its tests.
Render ==
    /\ mInitialized
    /\ DrawerStep("idle", IF mBindThread THEN "test" ELSE "bind")
    /\ UNCHANGED <<mBindThread, bound>>

\* bindSurfaceToThread: eglMakeCurrent wants a surface and a context.
Bind ==
    /\ DrawerStep("bind", "test")
    /\ IF mRenderType = "GPU" /\ mEGLSurface # None /\ mContext
       THEN bound' = mEGLSurface /\ mBindThread' = TRUE
       ELSE UNCHANGED <<bound, mBindThread>>

Test ==
    /\ DrawerStep("test", IF mRenderType = "GPU" /\ mEGLSurface # None THEN "draw" ELSE "idle")
    /\ UNCHANGED <<mBindThread, bound>>

\* gpuRender under the lock: on whatever the thread is bound to.
Draw == DrawerStep("draw", "idle") /\ UNCHANGED <<mBindThread, bound>>

ClearScene ==
    /\ InitScene
    /\ DrawerStep("idle", "idle") /\ UNCHANGED <<mBindThread, bound>>

Clean ==
    /\ Cleaning \/ CleanBuffer
    /\ DrawerStep("idle", IF CleanBuffer THEN "idle" ELSE "swap")
    /\ UNCHANGED <<mBindThread, bound>>

ShowScene ==
    /\ mInitialized /\ mRenderType = "GPU" /\ mEGLSurface # None
    /\ DrawerStep("idle", "swap") /\ UNCHANGED <<mBindThread, bound>>

\* eglSwapBuffers, without the lock.
Swap == DrawerStep("swap", "idle") /\ UNCHANGED <<mBindThread, bound>>
---------------------------------------------------------------------------
(* show and hide.                                                          *)

SwitcherStep(from, to) ==
    /\ switcher = from /\ switcher' = to
    /\ UNCHANGED <<mInitialized, mBindThread, surfaceVars, owner, drawer, bound, raced>>

Show == mInitialized /\ ~mSurfaceShow /\ SwitcherStep("idle", "show")
        /\ UNCHANGED showVars
Hide == mInitialized /\ mSurfaceShow /\ SwitcherStep("idle", "hide")
        /\ UNCHANGED showVars

\* The transaction, under the lock, on the window there is by then.
ShowTransaction ==
    /\ SwitcherStep("show", "idle")
    /\ IF mSurfaceControl # None
       THEN /\ visible' = visible \cup {mSurfaceControl} /\ mSurfaceShow' = TRUE
       ELSE UNCHANGED showVars

HideTransaction ==
    /\ SwitcherStep("hide", "idle")
    /\ IF mSurfaceControl # None
       THEN /\ visible' = visible \ {mSurfaceControl} /\ mSurfaceShow' = FALSE
       ELSE UNCHANGED showVars
---------------------------------------------------------------------------
Next ==
    \/ \E type \in Types : Create(type)
    \/ \E given \in BOOLEAN : CreateWindow(given)
    \/ \E surface, context \in BOOLEAN : CreateEGLSurface(surface, context)
    \/ CreateShow
    \/ Destroy \/ CleanSwap \/ DestroyEGLSurface \/ Dispose
    \/ Render \/ Bind \/ Test \/ Draw \/ ClearScene \/ Clean \/ ShowScene \/ Swap
    \/ Show \/ Hide \/ ShowTransaction \/ HideTransaction

Spec == Init /\ [][Next]_vars
---------------------------------------------------------------------------
(* A subtitle is drawn on the sink's own surface, after any number of      *)
(* destroys and creates of it that did not happen during the call: the     *)
(* rendering thread keeps its binding over them, and only mBindThread says *)
(* whether it is one of this surface (gpuRender does not look).            *)
DrawsOnOwnSurface ==
    drawer = "draw" /\ ~raced /\ mContext => bound = mEGLSurface

(* The window is visible exactly when isShowing says so, with shows and    *)
(* hides that test the flag before they take the lock and a create or      *)
(* destroy in between: create shows it only if the flag is down.           *)
ShownAsFlagged ==
    mInitialized /\ owner = "idle"
        => (mSurfaceShow <=> mSurfaceControl \in visible)
=============================================================================
