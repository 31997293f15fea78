---------------------------- MODULE MCPhotoLocks ----------------------------
\* Small instances of PhotoLocks and PhotoSlots: three callers on two keys.
EXTENDS PhotoSlots
=============================================================================
