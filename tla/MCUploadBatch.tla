--------------------------- MODULE MCUploadBatch ---------------------------
\* Small instances of UploadBatch.
EXTENDS UploadBatch
=============================================================================
