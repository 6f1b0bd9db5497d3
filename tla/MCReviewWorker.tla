--------------------------- MODULE MCReviewWorker ---------------------------
EXTENDS ReviewWorker

Reviewer == {me}
OneCall == {"call"}
TurnNotifications == Calls \cup {"completed", "interrupted"}
============================================================================
